CONSTANTS
  b1 = b1
  b2 = b2
  NoRec = NoRec
  NoKey = NoKey
  Bindings <- MCBindings
  Pools = {"p", "q"}
  Variants = {"v", "w"}
  Specs <- OnePerPool
  Overtaking = FALSE
  Edits = FALSE
  OthersTouch = TRUE
  MaxLag = 2
  MaxMoves = 1
  MaxHolds = 1
SPECIFICATION SettledSpec
CHECK_DEADLOCK FALSE
INVARIANTS
  WakeInvariant
PROPERTIES
  Converges
