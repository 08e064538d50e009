CONSTANTS
  b1 = b1
  b2 = b2
  p1 = p1
  n1v = n1v
  n1w = n1w
  n2v = n2v
  n2w = n2w
  InvalidRef = InvalidRef
  BlankPoolRef = BlankPoolRef
  NoPlan = NoPlan
  NoBinding = NoBinding
  Main = Main
  Bindings <- MCBindings
  Specs = {"v", "bad", "blank"}
  Pools <- MCPools
  Names <- MCNames
  Plans <- MCPlans
  StateErrors <- MCStateErrors
  Render <- MCRender
  SharedNames <- NoNames
  CacheLag = FALSE
  LateCreates = FALSE
  MaxMoves = 2
  MaxFaults = 1
SPECIFICATION Spec
CHECK_DEADLOCK FALSE
PROPERTIES
  ConflictSettlesOnAbsence
  OwnershipRetained
  
INVARIANTS
  TypeOK
  ReconcilerInvariant
  PublicationInvariant
