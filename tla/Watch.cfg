CONSTANTS
  b1 = b1
  b2 = b2
  NoRec = NoRec
  NoKey = NoKey
  Bindings <- MCBindings
  Pools = {"p", "q"}
  Variants = {"v", "w"}
  Specs <- OneVariant
  Overtaking = FALSE
  Edits = TRUE
  OthersTouch = TRUE
  MaxLag = 2
  MaxMoves = 1
  MaxHolds = 1
SYMMETRY Symmetry
SPECIFICATION Spec
CHECK_DEADLOCK FALSE
INVARIANTS
  TypeOK
  NoLostWakeup
  WatchInvariant

  
