CONSTANTS
  b1 = b1
  s1 = s1
  s2 = s2
  p1 = p1
  p2 = p2
  InvalidRef = InvalidRef
  BlankPoolRef = BlankPoolRef
  NoPlan = NoPlan
  NoBinding = NoBinding
  Main = Main
  Bindings <- MCBindings
  Specs <- MCSpecs
  Pools <- MCPools
  Names <- MCNames
  Plans <- MCPlans
  StateErrors <- MCStateErrors
  Render <- MCRender
  SharedNames <- MCShared
  CacheLag = TRUE
  LateCreates = TRUE
  MaxMoves = 2
  MaxFaults = 1
SPECIFICATION Spec
CHECK_DEADLOCK FALSE
INVARIANTS
  NeverAdopts
PROPERTIES
  MutationAuthorized
  ReadyIsConfirmed
  ImplementsOwnership
