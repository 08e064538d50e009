CONSTANTS
  b1 = b1
  b2 = b2
  NoPool = NoPool
  Bindings <- MCBindings
  Namespace = "ns"
  TrustDomain <- MCTrustDomain
  Specs <- MCSpecs
  PoolNames = {"p", "q"}
  Selectors <- MCSelectors
  Groups = {"inference.networking.k8s.io"}
  Subdomains = {"sa1", "sa2"}
  LabelKeys = {"app", "key"}
  LabelValues = {"v", "w"}
  VariantLabelKey = "key"
  Base <- MCBase
  Hash <- MCHash
  Workloads <- MCWorkloads
  MaxEdits = 2
SYMMETRY BindingSymmetry
SPECIFICATION Spec
INVARIANTS
  ExclusiveMeansDisjoint
  InspectionAgrees
  MatchedPodsAreSelected
PROPERTIES
  RendersIntended
  RefusesOnlyUnsafe
