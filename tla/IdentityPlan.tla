---------------------------- MODULE IdentityPlan ----------------------------
(***************************************************************************)
(* From a binding and its InferencePool to a rendered identity: pool       *)
(* resolution and selector derivation (internal/gaie), planning            *)
(* (internal/identity/render.go) and the name of the output                *)
(* (internal/spirecm).  Several bindings of one namespace are rendered at  *)
(* different moments, while users edit bindings and pools; the rule of     *)
(* IdentityBoundary then decides which of the results may coexist.  What   *)
(* the rule promises is stated about workloads: Pods with a namespace, a   *)
(* service account and labels.                                             *)
(*                                                                         *)
(* A text is a record: `core' is what strings.TrimSpace leaves of it.      *)
(***************************************************************************)
EXTENDS Naturals, FiniteSets, IdentityBoundary

CONSTANTS
    Bindings,
    Namespace,      \* the namespace of the bindings
    TrustDomain,    \* of the operator's configuration, a text
    Specs,          \* specs: records with pool, group, sa and variant
    PoolNames,
    Selectors,      \* values of an InferencePool's spec.selector
    Groups,         \* supported GAIE groups (inferencePoolGVKs)
    Subdomains,     \* service account names that IsDNS1123Subdomain accepts
    LabelKeys,      \* keys that IsQualifiedName accepts
    LabelValues,    \* nonempty values that IsValidLabelValue accepts
    VariantLabelKey,
    Base,           \* [Bindings -> the sanitized, shortened part of an output name]
    Hash(_),        \* the four bytes of a SPIFFE ID's SHA-1 that an output name keeps
    Workloads,      \* Pods: records with ns, sa and labels, all that a namespace may hold
    NoPool,
    MaxEdits        \* bound on the edits users make

ASSUME PlanAssumption ==
    /\ NoPool \notin Selectors
    /\ VariantLabelKey \in LabelKeys
    /\ MaxEdits \in Nat
    /\ \A w \in Workloads : DOMAIN w.labels \subseteq LabelKeys
    /\ \A sa \in Subdomains, keys \in SUBSET LabelKeys : \A labels \in [keys -> LabelValues] :
          [ns |-> Namespace, sa |-> sa, labels |-> labels] \in Workloads

VARIABLES
    spec,       \* the spec of every binding
    pools,      \* the selector of every InferencePool, or NoPool
    served,     \* whether the REST mapper knows InferencePools
    result,     \* the last outcome of rendering every binding
    edits       \* edits so far

vars == <<spec, pools, served, result, edits>>

-----------------------------------------------------------------------------
(* Outcomes. *)

\* StateError: the condition and the reason an outcome is refused with.
Refused(condition, reason) == [rendered |-> FALSE, condition |-> condition, reason |-> reason]

Unrendered == Refused("Unknown", "Initializing")

-----------------------------------------------------------------------------
(* internal/gaie *)

TrimSpace(text) == text.core

\* BindingPoolRef refuses a blank name and an unknown group.
PoolRefOK(s) == TrimSpace(s.pool) # "" /\ TrimSpace(s.group) \in Groups \cup {""}

\* ResolveInferencePool: why a reference leads to no pool.
MissingPool == IF served THEN "TargetPoolNotFound" ELSE "InferencePoolCRDMissing"

\* The forms of spec.selector that name labels: matchLabels alone, or a flat map of
\* strings, which is normalized to it.  All other forms are refused.
LabelForms == {"matchLabels", "flat"}

\* DeriveSelectorsFromPool succeeds: there are labels, and each has a valid key and a
\* valid value.
Derivable(selector) ==
    /\ selector.form \in LabelForms
    /\ DOMAIN selector.labels # {}
    /\ \A key \in DOMAIN selector.labels :
          key \in LabelKeys /\ selector.labels[key] \in LabelValues

\* A workload selector of SPIRE.
Selector(on, key, value) == [on |-> on, key |-> key, value |-> value]

DerivedSelectors(selector) ==
    {Selector("pod-label", key, selector.labels[key]) : key \in DOMAIN selector.labels}

-----------------------------------------------------------------------------
(* internal/identity/render.go *)

VariantOK(variant) == ~variant.padded /\ variant.core \in LabelValues

ServiceAccountOK(sa) == ~sa.padded /\ sa.core \in Subdomains

\* The mandatory selectors.
SafetySelectors(s) == {Selector("ns", "", Namespace), Selector("sa", "", s.sa.core)}

VariantSelector(s) == Selector("pod-label", VariantLabelKey, s.variant.core)

\* Mutant of SelectorsSafe: the variant is not compared with the pool's labels.
SelectorsPresent(s, selectors) == SafetySelectors(s) \cup {VariantSelector(s)} \subseteq selectors

\* validateRenderedSafetySelectors, on a selector set without duplicates.
SelectorsSafe(s, selectors) ==
    /\ {x \in selectors : x.on = "ns"} = {Selector("ns", "", Namespace)}
    /\ {x \in selectors : x.on = "sa"} = {Selector("sa", "", s.sa.core)}
    /\ {x \in selectors : x.on = "pod-label" /\ x.key = VariantLabelKey} = {VariantSelector(s)}

\* renderInferenceTargetSPIFFEID.  No part can hold a slash, so equal IDs have equal
\* parts; the namespace, the anchor kind and the trust domain are fixed here.
SpiffeID(s, pool) == <<s.sa.core, pool, s.variant.core>>

\* BuildClusterSPIFFEIDName.  Hashes of different SPIFFE IDs may collide.
OutputName(b, id) == <<Base[b], Hash(id)>>

\* Mutant of PlanIdentity: a pool that selects on the variant label is always refused.
PlanIdentityStrict(b, s, pool, derived) ==
    LET selectors == SafetySelectors(s) \cup derived \cup {VariantSelector(s)}
        id == SpiffeID(s, pool)
    IN  IF TrimSpace(TrustDomain) = "" THEN Refused("RenderFailure", "MissingTrustDomain")
        ELSE IF ~VariantOK(s.variant) THEN Refused("UnsafeSelector", "InvalidIdentityBoundary")
        ELSE IF ~ServiceAccountOK(s.sa) THEN Refused("RenderFailure", "InvalidServiceAccountName")
        ELSE IF \E x \in derived : x.key = VariantLabelKey THEN Refused("UnsafeSelector", "UnsafeSelector")
        ELSE [rendered |-> TRUE, name |-> OutputName(b, id), id |-> id, sa |-> s.sa.core,
              variant |-> s.variant.core, selectors |-> selectors]

\* PlanIdentity for a resolved pool.  UniqueAndSorted makes the selectors a set.
PlanIdentity(b, s, pool, derived) ==
    LET selectors == SafetySelectors(s) \cup derived \cup {VariantSelector(s)}
        id == SpiffeID(s, pool)
    IN  IF TrimSpace(TrustDomain) = "" THEN Refused("RenderFailure", "MissingTrustDomain")
        ELSE IF ~VariantOK(s.variant) THEN Refused("UnsafeSelector", "InvalidIdentityBoundary")
        ELSE IF ~ServiceAccountOK(s.sa) THEN Refused("RenderFailure", "InvalidServiceAccountName")
        ELSE IF ~SelectorsSafe(s, selectors) THEN Refused("UnsafeSelector", "UnsafeSelector")
        ELSE [rendered |-> TRUE, name |-> OutputName(b, id), id |-> id, sa |-> s.sa.core,
              variant |-> s.variant.core, selectors |-> selectors]

-----------------------------------------------------------------------------
(* internal/controller: rendering one binding. *)

\* renderIdentity
RenderIdentity(b, s, pool, selector) ==
    IF ~Derivable(selector) THEN Refused("UnsafeSelector", "InvalidPoolSelector")
    ELSE PlanIdentity(b, s, pool, DerivedSelectors(selector))

\* Reconcile: the variant is validated before computeDesiredState reads the pool.
Rendered(b) ==
    LET s == spec[b]
        pool == TrimSpace(s.pool)
    IN  IF ~VariantOK(s.variant) THEN Refused("UnsafeSelector", "InvalidIdentityBoundary")
        ELSE IF ~PoolRefOK(s) THEN Refused("InvalidRef", "InvalidPoolRef")
        ELSE IF pools[pool] = NoPool THEN Refused("InvalidRef", MissingPool)
        ELSE RenderIdentity(b, s, pool, pools[pool])

-----------------------------------------------------------------------------

\* SetupWithManager refuses to start without the InferencePool CRD.
Init ==
    /\ spec \in [Bindings -> Specs]
    /\ served = TRUE
    /\ pools \in [PoolNames -> Selectors \cup {NoPool}]
    /\ result = [b \in Bindings |-> Unrendered]
    /\ edits = 0

Render(b) ==
    /\ result' = [result EXCEPT ![b] = Rendered(b)]
    /\ UNCHANGED <<spec, pools, served, edits>>

Edit == edits < MaxEdits /\ edits' = edits + 1

EditBinding(b, s) ==
    /\ Edit
    /\ spec' = [spec EXCEPT ![b] = s]
    /\ UNCHANGED <<pools, served, result>>

EditPool(p, selector) ==
    /\ Edit
    /\ served
    /\ pools' = [pools EXCEPT ![p] = selector]
    /\ UNCHANGED <<spec, served, result>>

\* Removing the CRD removes the pools with it.
RemoveCRD ==
    /\ Edit
    /\ served
    /\ served' = FALSE
    /\ pools' = [p \in PoolNames |-> NoPool]
    /\ UNCHANGED <<spec, result>>

InstallCRD ==
    /\ Edit
    /\ ~served
    /\ served' = TRUE
    /\ UNCHANGED <<spec, pools, result>>

Next ==
    \/ \E b \in Bindings : Render(b) \/ \E s \in Specs : EditBinding(b, s)
    \/ \E p \in PoolNames, selector \in Selectors \cup {NoPool} : EditPool(p, selector)
    \/ RemoveCRD
    \/ InstallCRD

Spec == Init /\ [][Next]_vars

-----------------------------------------------------------------------------
(* Properties. *)

\* A Pod carries what a selector asks for (the attestor of SPIRE).
Carries(w, x) ==
    CASE x.on = "ns" -> w.ns = x.value
      [] x.on = "sa" -> w.sa = x.value
      [] OTHER -> x.key \in DOMAIN w.labels /\ w.labels[x.key] = x.value

\* The workloads that receive a rendered identity.
Selected(plan) == {w \in Workloads : \A x \in plan.selectors : Carries(w, x)}

RenderedBindings == {b \in Bindings : result[b].rendered}

\* The exclusivity rule looks at service accounts, variants and SPIFFE IDs only, and
\* yet no workload receives the identities of two bindings that do not compete,
\* whatever their pools select and whenever each was rendered (evaluateVariantPair).
ExclusiveMeansDisjoint ==
    \A b, c \in RenderedBindings :
        b # c /\ ~Competes(result[b], result[c]) => Selected(result[b]) \cap Selected(result[c]) = {}

\* The workloads a binding stands for: those of its namespace and service account that
\* carry all labels of the pool and the variant label.
Intended(b) ==
    LET s == spec[b]
        labels == pools[TrimSpace(s.pool)].labels
    IN  {w \in Workloads :
            /\ w.ns = Namespace
            /\ w.sa = s.sa.core
            /\ VariantLabelKey \in DOMAIN w.labels /\ w.labels[VariantLabelKey] = s.variant.core
            /\ \A key \in DOMAIN labels : key \in DOMAIN w.labels /\ w.labels[key] = labels[key]}

\* A rendered identity reaches exactly the workloads the binding and its pool stand
\* for, and there can be some: contradictory selectors are never rendered
\* (PlanIdentity and validateRenderedSafetySelectors).
RendersIntended ==
    [][\A b \in Bindings : result'[b] # result[b] /\ result'[b].rendered
          => Selected(result'[b]) = Intended(b) /\ Intended(b) # {}]_vars

\* An identity is refused as unsafe only if the pool's selector is malformed or leaves
\* no workload: a pool that already selects on the variant is accepted
\* (UniqueAndSorted before validateRenderedSafetySelectors counts).
RefusesOnlyUnsafe ==
    [][\A b \in Bindings : result'[b] # result[b] /\ result'[b] = Refused("UnsafeSelector", "UnsafeSelector")
          => Intended(b) = {}]_vars

=============================================================================
