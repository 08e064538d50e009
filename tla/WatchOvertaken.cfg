CONSTANTS
  b1 = b1
  b2 = b2
  NoRec = NoRec
  NoKey = NoKey
  Bindings <- MCBindings
  Pools = {"p", "q"}
  Variants = {"v", "w"}
  Specs <- OneVariant
  Overtaking = TRUE
  Edits = TRUE
  OthersTouch = FALSE
  MaxLag = 2
  MaxMoves = 1
  MaxHolds = 1
SYMMETRY Symmetry
SPECIFICATION Spec
CHECK_DEADLOCK FALSE
INVARIANTS
  NoLostWakeup
