------------------------- MODULE IdentityPlanProofs -------------------------
(***************************************************************************)
(* Rendering for every set of bindings, pools, labels and workloads:       *)
(* identities that do not compete reach disjoint workloads, an identity    *)
(* reaches what its binding stands for, and an inspection renders and      *)
(* reports the same.                                                       *)
(***************************************************************************)
EXTENDS BindingInspection, TLAPS

\* A rendered identity selects on the service account and the variant it reports.
Anchored(r) ==
    r.rendered => /\ Selector("sa", "", r.sa) \in r.selectors
                  /\ Selector("pod-label", VariantLabelKey, r.variant) \in r.selectors

\* The inductive invariant: every result is anchored.
PlanInvariant ==
    /\ DOMAIN result = Bindings
    /\ \A b \in Bindings : Anchored(result[b])

\* A refusal is not a rendered identity (newStateError).
LEMMA RefusedAnchored == ASSUME NEW c, NEW r PROVE Anchored(Refused(c, r))
BY Zenon DEF Anchored, Refused

\* PlanIdentity appends the service account and the variant selector.
LEMMA PlanAnchored ==
    ASSUME NEW b, NEW s, NEW pool, NEW derived
    PROVE  Anchored(PlanIdentity(b, s, pool, derived))
<1>. DEFINE selectors == SafetySelectors(s) \cup derived \cup {VariantSelector(s)}
            plan == [rendered |-> TRUE, name |-> OutputName(b, SpiffeID(s, pool)),
                     id |-> SpiffeID(s, pool), sa |-> s.sa.core, variant |-> s.variant.core,
                     selectors |-> selectors]
<1>1. /\ Selector("sa", "", s.sa.core) \in selectors
      /\ Selector("pod-label", VariantLabelKey, s.variant.core) \in selectors
  BY Zenon DEF SafetySelectors, VariantSelector
<1>2. plan.selectors = selectors /\ plan.sa = s.sa.core /\ plan.variant = s.variant.core
  BY Zenon
<1>3. Anchored(plan)
  BY <1>1, <1>2, Zenon DEF Anchored
<1>4. PlanIdentity(b, s, pool, derived) = plan
      \/ \E c, r : PlanIdentity(b, s, pool, derived) = Refused(c, r)
  BY Zenon DEF PlanIdentity
<1>. QED
  BY <1>3, <1>4, RefusedAnchored, Zenon

\* Rendering a binding yields an anchored result (Reconcile, computeDesiredState).
LEMMA RenderedAnchored == ASSUME NEW b PROVE Anchored(Rendered(b))
<1>1. \/ \E c, r : Rendered(b) = Refused(c, r)
      \/ \E s, p, d : Rendered(b) = PlanIdentity(b, s, p, d)
  BY Zenon DEF Rendered, RenderIdentity
<1>. QED
  BY <1>1, RefusedAnchored, PlanAnchored, Zenon

\* A workload an anchored identity reaches has its service account and its variant.
LEMMA SelectedAgree ==
    ASSUME NEW r, Anchored(r), r.rendered, NEW w \in Selected(r)
    PROVE  w.sa = r.sa /\ w.labels[VariantLabelKey] = r.variant
<1>1. /\ Carries(w, Selector("sa", "", r.sa))
      /\ Carries(w, Selector("pod-label", VariantLabelKey, r.variant))
  BY Zenon DEF Anchored, Selected
<1>2. w.sa = r.sa
  BY <1>1 DEF Carries, Selector
<1>3. w.labels[VariantLabelKey] = r.variant
  BY <1>1 DEF Carries, Selector
<1>. QED
  BY <1>2, <1>3

\* The invariant implies the property.
LEMMA AnchoredDisjoint == PlanInvariant => ExclusiveMeansDisjoint
<1>. SUFFICES ASSUME PlanInvariant, NEW b \in RenderedBindings, NEW c \in RenderedBindings,
                     ~Competes(result[b], result[c])
              PROVE  Selected(result[b]) \cap Selected(result[c]) = {}
  BY Zenon DEF ExclusiveMeansDisjoint
<1>. SUFFICES ASSUME NEW w \in Selected(result[b]), w \in Selected(result[c]) PROVE FALSE
  BY Zenon
<1>1. /\ Anchored(result[b]) /\ result[b].rendered
      /\ Anchored(result[c]) /\ result[c].rendered
  BY Zenon DEF PlanInvariant, RenderedBindings
<1>2. result[b].sa = result[c].sa /\ result[b].variant = result[c].variant
  <2>1. w.sa = result[b].sa /\ w.labels[VariantLabelKey] = result[b].variant
    BY <1>1, SelectedAgree
  <2>2. w.sa = result[c].sa /\ w.labels[VariantLabelKey] = result[c].variant
    BY <1>1, SelectedAgree
  <2>. QED
    BY <2>1, <2>2
<1>. QED
  BY <1>2 DEF Competes, PairCause

\* Initially nothing is rendered.
LEMMA PlanInit == Init => PlanInvariant
<1>. SUFFICES ASSUME Init PROVE PlanInvariant
  OBVIOUS
<1>1. result = [b \in Bindings |-> Unrendered]
  BY DEF Init
<1>. QED
  BY <1>1, RefusedAnchored, Zenon DEF PlanInvariant, Unrendered

\* Every step keeps results anchored: only Render changes them.
LEMMA PlanNext == PlanInvariant /\ [Next]_vars => PlanInvariant'
<1>. SUFFICES ASSUME PlanInvariant, [Next]_vars PROVE PlanInvariant'
  OBVIOUS
<1>1. ASSUME NEW b \in Bindings, Render(b) PROVE PlanInvariant'
  <2>1. result' = [result EXCEPT ![b] = Rendered(b)]
    BY <1>1 DEF Render
  <2>2. DOMAIN result' = Bindings
    BY <2>1, Zenon DEF PlanInvariant
  <2>3. ASSUME NEW c \in Bindings PROVE Anchored(result'[c])
    <3>1. result'[c] = IF c = b THEN Rendered(b) ELSE result[c]
      BY <2>1, Zenon DEF PlanInvariant
    <3>2. Anchored(result[c]) /\ Anchored(Rendered(b))
      BY RenderedAnchored, Zenon DEF PlanInvariant
    <3>. QED
      BY <3>1, <3>2, Zenon
  <2>. QED
    BY <2>2, <2>3, Zenon DEF PlanInvariant, Anchored
<1>2. CASE result' = result
  BY <1>2, Zenon DEF PlanInvariant, Anchored
<1>3. \/ \E b \in Bindings : Render(b)
      \/ result' = result
  BY Zenon DEF Next, vars, EditBinding, EditPool, RemoveCRD, InstallCRD
<1>. QED
  BY <1>1, <1>2, <1>3

\* No workload receives the identities of two bindings that do not compete
\* (evaluateVariantPair), for every set of bindings, pools, labels and workloads.
THEOREM Exclusivity == Spec => []ExclusiveMeansDisjoint
<1>1. Spec => []PlanInvariant
  BY PlanInit, PlanNext, PTL DEF Spec
<1>. QED
  BY <1>1, AnchoredDisjoint, PTL

-----------------------------------------------------------------------------
(* What an identity reaches. *)

\* Refusals with different reasons are different.
LEMMA RefusalsDiffer ==
    ASSUME NEW c, NEW d, NEW r, NEW q, r # q PROVE Refused(c, r) # Refused(d, q)
<1>1. Refused(c, r).reason = r /\ Refused(d, q).reason = q
  BY DEF Refused
<1>. QED
  BY <1>1

\* A rendered outcome comes from a plan: all checks were passed, and the selectors are
\* the mandatory ones and the pool's (renderIdentity, PlanIdentity).
LEMMA PlanCases ==
    ASSUME NEW b, NEW s, NEW pool, NEW derived
    PROVE  LET plan == PlanIdentity(b, s, pool, derived)
               all == SafetySelectors(s) \cup derived \cup {VariantSelector(s)}
           IN  /\ plan.rendered => /\ ServiceAccountOK(s.sa) /\ VariantOK(s.variant)
                                   /\ SelectorsSafe(s, all) /\ plan.selectors = all
               /\ plan = Refused("UnsafeSelector", "UnsafeSelector") => ~SelectorsSafe(s, all)
               /\ ~VariantOK(s.variant) => ~plan.rendered
<1>. DEFINE plan == PlanIdentity(b, s, pool, derived)
            all == SafetySelectors(s) \cup derived \cup {VariantSelector(s)}
            id == SpiffeID(s, pool)
            made == [rendered |-> TRUE, name |-> OutputName(b, id), id |-> id, sa |-> s.sa.core,
                     variant |-> s.variant.core, selectors |-> all]
            no == Refused("UnsafeSelector", "UnsafeSelector")
<1>1. \/ plan = Refused("RenderFailure", "MissingTrustDomain")
      \/ plan = Refused("UnsafeSelector", "InvalidIdentityBoundary")
      \/ plan = Refused("RenderFailure", "InvalidServiceAccountName")
      \/ plan = no /\ ~SelectorsSafe(s, all)
      \/ /\ plan = made
         /\ ServiceAccountOK(s.sa) /\ VariantOK(s.variant) /\ SelectorsSafe(s, all)
  BY Zenon DEF PlanIdentity
<1>2. \A c, r : ~Refused(c, r).rendered /\ Refused(c, r).condition = c /\ Refused(c, r).reason = r
  BY DEF Refused
<1>3. made.rendered /\ made.selectors = all
  BY Zenon
<1>. HIDE DEF plan, all, made, no
<1>4. /\ ~no.rendered /\ no.reason = "UnsafeSelector"
  BY <1>2 DEF no
<1>5. /\ plan.rendered => /\ ServiceAccountOK(s.sa) /\ VariantOK(s.variant)
                          /\ SelectorsSafe(s, all) /\ plan.selectors = all
      /\ ~VariantOK(s.variant) => ~plan.rendered
  <2>1. \/ ~plan.rendered
        \/ plan = made /\ ServiceAccountOK(s.sa) /\ VariantOK(s.variant) /\ SelectorsSafe(s, all)
    BY <1>1, <1>2, <1>4
  <2>. QED
    BY <1>3, <2>1, Zenon
<1>6. plan = no => ~SelectorsSafe(s, all)
  <2>1. /\ no # Refused("RenderFailure", "MissingTrustDomain")
        /\ no # Refused("UnsafeSelector", "InvalidIdentityBoundary")
        /\ no # Refused("RenderFailure", "InvalidServiceAccountName")
    <3>1. /\ "UnsafeSelector" # "MissingTrustDomain" /\ "UnsafeSelector" # "InvalidIdentityBoundary"
          /\ "UnsafeSelector" # "InvalidServiceAccountName"
      OBVIOUS
    <3>. QED
      BY <3>1, RefusalsDiffer, Zenon DEF no
  <2>2. no # made
    BY <1>3, <1>4, Zenon
  <2>. QED
    BY <1>1, <2>1, <2>2, Zenon
<1>. QED
  BY <1>5, <1>6 DEF plan, all, no

\* All selectors of a plan for a pool's labels.
AllSelectors(s, selector) == SafetySelectors(s) \cup DerivedSelectors(selector) \cup {VariantSelector(s)}

\* A workload satisfies them if it is one the binding stands for.
StandsFor(w, s, labels) ==
    /\ w.ns = Namespace
    /\ w.sa = s.sa.core
    /\ VariantLabelKey \in DOMAIN w.labels /\ w.labels[VariantLabelKey] = s.variant.core
    /\ \A key \in DOMAIN labels : key \in DOMAIN w.labels /\ w.labels[key] = labels[key]

\* The three forms of selector.
LEMMA CarriesForms ==
    ASSUME NEW w, NEW key, NEW value
    PROVE  /\ Carries(w, Selector("ns", "", value)) <=> w.ns = value
           /\ Carries(w, Selector("sa", "", value)) <=> w.sa = value
           /\ Carries(w, Selector("pod-label", key, value)) <=>
                 key \in DOMAIN w.labels /\ w.labels[key] = value
BY DEF Carries, Selector

\* A workload carries what all selectors ask for exactly if the binding stands for it.
LEMMA CarriesAll ==
    ASSUME NEW w, NEW s, NEW selector
    PROVE  (\A x \in AllSelectors(s, selector) : Carries(w, x)) <=> StandsFor(w, s, selector.labels)
<1>. DEFINE ns == Selector("ns", "", Namespace)
            sa == Selector("sa", "", s.sa.core)
            label(key) == Selector("pod-label", key, selector.labels[key])
<1>1. \A x : x \in AllSelectors(s, selector) <=>
                 \/ x = ns \/ x = sa \/ x = VariantSelector(s)
                 \/ \E key \in DOMAIN selector.labels : x = label(key)
  BY Zenon DEF AllSelectors, SafetySelectors, DerivedSelectors
<1>2. /\ Carries(w, ns) <=> w.ns = Namespace
      /\ Carries(w, sa) <=> w.sa = s.sa.core
  BY CarriesForms, ZenonT(60)
<1>3. Carries(w, VariantSelector(s)) <=>
          VariantLabelKey \in DOMAIN w.labels /\ w.labels[VariantLabelKey] = s.variant.core
  BY CarriesForms, Zenon DEF VariantSelector
<1>4. \A key : Carries(w, label(key)) <=> key \in DOMAIN w.labels /\ w.labels[key] = selector.labels[key]
  BY CarriesForms, ZenonT(60)
<1>. HIDE DEF ns, sa, label
<1>. QED
  BY <1>1, <1>2, <1>3, <1>4, Zenon DEF StandsFor

\* validateRenderedSafetySelectors accepts exactly the selectors of a pool that does not
\* ask for another variant.
LEMMA SafeIffAgreeing ==
    ASSUME NEW s, NEW selector
    PROVE  SelectorsSafe(s, AllSelectors(s, selector)) <=>
               (VariantLabelKey \in DOMAIN selector.labels =>
                   selector.labels[VariantLabelKey] = s.variant.core)
<1>. DEFINE ns == Selector("ns", "", Namespace)
            sa == Selector("sa", "", s.sa.core)
            label(key) == Selector("pod-label", key, selector.labels[key])
            all == AllSelectors(s, selector)
<1>1. \A x : x \in all <=> \/ x = ns \/ x = sa \/ x = VariantSelector(s)
                           \/ \E key \in DOMAIN selector.labels : x = label(key)
  BY Zenon DEF AllSelectors, SafetySelectors, DerivedSelectors
<1>2. /\ ns.on = "ns" /\ sa.on = "sa"
      /\ VariantSelector(s).on = "pod-label" /\ VariantSelector(s).key = VariantLabelKey
      /\ VariantSelector(s).value = s.variant.core
  BY DEF VariantSelector, Selector
<1>3. \A key : label(key).on = "pod-label" /\ label(key).key = key /\ label(key).value = selector.labels[key]
  BY DEF Selector
<1>4. VariantSelector(s) = label(VariantLabelKey) <=> selector.labels[VariantLabelKey] = s.variant.core
  BY <1>2, <1>3, Zenon DEF VariantSelector
<1>. HIDE DEF ns, sa, label, all
<1>5. {x \in all : x.on = "ns"} = {ns} /\ {x \in all : x.on = "sa"} = {sa}
  BY <1>1, <1>2, <1>3
<1>. DEFINE chosen == {x \in all : x.on = "pod-label" /\ x.key = VariantLabelKey}
<1>6. \A x : x \in chosen <=> \/ x = VariantSelector(s)
                              \/ VariantLabelKey \in DOMAIN selector.labels /\ x = label(VariantLabelKey)
  BY <1>1, <1>2, <1>3
<1>. HIDE DEF chosen
<1>7. chosen = {VariantSelector(s)} <=>
          (VariantLabelKey \in DOMAIN selector.labels => selector.labels[VariantLabelKey] = s.variant.core)
  <2>1. chosen = {VariantSelector(s)} <=> \A x : x \in chosen <=> x = VariantSelector(s)
    BY Zenon
  <2>. QED
    BY <1>4, <1>6, <2>1, Zenon
<1>. QED
  BY <1>5, <1>7, Zenon DEF SelectorsSafe, ns, sa, all, chosen

\* What a rendered outcome of a binding rests on.
LEMMA RenderedCases ==
    ASSUME NEW b
    PROVE  LET s == spec[b]
               selector == pools[TrimSpace(s.pool)]
           IN  /\ Rendered(b).rendered =>
                     /\ Derivable(selector) /\ ServiceAccountOK(s.sa) /\ VariantOK(s.variant)
                     /\ SelectorsSafe(s, AllSelectors(s, selector))
                     /\ Rendered(b).selectors = AllSelectors(s, selector)
               /\ Rendered(b) = Refused("UnsafeSelector", "UnsafeSelector") =>
                     ~SelectorsSafe(s, AllSelectors(s, selector))
<1>. DEFINE s == spec[b]
            pool == TrimSpace(s.pool)
            selector == pools[pool]
            plan == PlanIdentity(b, s, pool, DerivedSelectors(selector))
            no == Refused("UnsafeSelector", "UnsafeSelector")
<1>1. \/ Rendered(b) = Refused("UnsafeSelector", "InvalidIdentityBoundary")
      \/ Rendered(b) = Refused("InvalidRef", "InvalidPoolRef")
      \/ Rendered(b) = Refused("InvalidRef", "TargetPoolNotFound")
      \/ Rendered(b) = Refused("InvalidRef", "InferencePoolCRDMissing")
      \/ Rendered(b) = Refused("UnsafeSelector", "InvalidPoolSelector")
      \/ Derivable(selector) /\ Rendered(b) = plan
  BY Zenon DEF Rendered, RenderIdentity, MissingPool
<1>2. /\ plan.rendered => /\ ServiceAccountOK(s.sa) /\ VariantOK(s.variant)
                          /\ SelectorsSafe(s, AllSelectors(s, selector))
                          /\ plan.selectors = AllSelectors(s, selector)
      /\ plan = no => ~SelectorsSafe(s, AllSelectors(s, selector))
  BY PlanCases, Zenon DEF AllSelectors
<1>3. /\ ~Refused("UnsafeSelector", "InvalidIdentityBoundary").rendered
      /\ ~Refused("InvalidRef", "InvalidPoolRef").rendered
      /\ ~Refused("InvalidRef", "TargetPoolNotFound").rendered
      /\ ~Refused("InvalidRef", "InferencePoolCRDMissing").rendered
      /\ ~Refused("UnsafeSelector", "InvalidPoolSelector").rendered
  BY DEF Refused
<1>4. /\ no # Refused("UnsafeSelector", "InvalidIdentityBoundary")
      /\ no # Refused("InvalidRef", "InvalidPoolRef")
      /\ no # Refused("InvalidRef", "TargetPoolNotFound")
      /\ no # Refused("InvalidRef", "InferencePoolCRDMissing")
      /\ no # Refused("UnsafeSelector", "InvalidPoolSelector")
  <2>1. \A r \in {"InvalidIdentityBoundary", "InvalidPoolRef", "TargetPoolNotFound",
                  "InferencePoolCRDMissing", "InvalidPoolSelector"} : "UnsafeSelector" # r
    OBVIOUS
  <2>. QED
    BY <2>1, RefusalsDiffer, Zenon
<1>. HIDE DEF s, pool, selector, plan, no
<1>5. /\ Rendered(b).rendered => Derivable(selector) /\ Rendered(b) = plan
      /\ Rendered(b) = no => Rendered(b) = plan
  BY <1>1, <1>3, <1>4, Zenon
<1>6. /\ Rendered(b).rendered =>
            /\ Derivable(selector) /\ ServiceAccountOK(s.sa) /\ VariantOK(s.variant)
            /\ SelectorsSafe(s, AllSelectors(s, selector))
            /\ Rendered(b).selectors = AllSelectors(s, selector)
      /\ Rendered(b) = no => ~SelectorsSafe(s, AllSelectors(s, selector))
  BY <1>2, <1>5, Zenon
<1>. QED
  BY <1>6, Zenon DEF s, pool, selector, no

\* The workloads a binding stands for.
LEMMA IntendedStandsFor ==
    ASSUME NEW b
    PROVE  Intended(b) = {w \in Workloads : StandsFor(w, spec[b], pools[TrimSpace(spec[b].pool)].labels)}
BY Zenon DEF Intended, StandsFor

\* A pool that agrees with the variant leaves a workload to stand for.
LEMMA SomethingIntended ==
    ASSUME NEW s, NEW selector, Derivable(selector), ServiceAccountOK(s.sa), VariantOK(s.variant),
           VariantLabelKey \in DOMAIN selector.labels => selector.labels[VariantLabelKey] = s.variant.core
    PROVE  \E w \in Workloads : StandsFor(w, s, selector.labels)
<1>. DEFINE keys == DOMAIN selector.labels \cup {VariantLabelKey}
            value(key) == IF key = VariantLabelKey THEN s.variant.core ELSE selector.labels[key]
            labels == [key \in keys |-> value(key)]
            w == [ns |-> Namespace, sa |-> s.sa.core, labels |-> labels]
<1>1. keys \in SUBSET LabelKeys /\ s.sa.core \in Subdomains
  BY PlanAssumption, Zenon DEF Derivable, ServiceAccountOK
<1>2. \A key \in keys : value(key) \in LabelValues
  BY Zenon DEF Derivable, VariantOK
<1>3. labels \in [keys -> LabelValues]
  BY <1>2
<1>4. w \in Workloads
  BY <1>1, <1>3, PlanAssumption, Zenon
<1>5. w.ns = Namespace /\ w.sa = s.sa.core /\ w.labels = labels /\ DOMAIN labels = keys
  BY Zenon
<1>6. \A key \in keys : labels[key] = value(key)
  BY Zenon
<1>7. \A key \in DOMAIN selector.labels : value(key) = selector.labels[key]
  BY Zenon
<1>8. VariantLabelKey \in keys /\ value(VariantLabelKey) = s.variant.core
  BY Zenon
<1>9. \A key \in DOMAIN selector.labels : key \in keys
  BY Zenon
<1>. HIDE DEF keys, value, labels, w
<1>10. StandsFor(w, s, selector.labels)
  BY <1>5, <1>6, <1>7, <1>8, <1>9, Zenon DEF StandsFor
<1>. QED
  BY <1>4, <1>10

\* A rendered identity reaches what its binding stands for, and that is something.
LEMMA RenderedIntended ==
    ASSUME NEW b, Rendered(b).rendered
    PROVE  Selected(Rendered(b)) = Intended(b) /\ Intended(b) # {}
<1>. DEFINE s == spec[b]
            selector == pools[TrimSpace(s.pool)]
<1>1. /\ Derivable(selector) /\ ServiceAccountOK(s.sa) /\ VariantOK(s.variant)
      /\ SelectorsSafe(s, AllSelectors(s, selector))
      /\ Rendered(b).selectors = AllSelectors(s, selector)
  BY RenderedCases, Zenon
<1>2. Intended(b) = {w \in Workloads : StandsFor(w, s, selector.labels)}
  BY IntendedStandsFor, Zenon
<1>. HIDE DEF s, selector
<1>3. Selected(Rendered(b)) = {w \in Workloads : \A x \in AllSelectors(s, selector) : Carries(w, x)}
  BY <1>1, Zenon DEF Selected
<1>4. \A w : (\A x \in AllSelectors(s, selector) : Carries(w, x)) <=> StandsFor(w, s, selector.labels)
  BY CarriesAll, Zenon
<1>5. Selected(Rendered(b)) = Intended(b)
  BY <1>2, <1>3, <1>4, Zenon
<1>6. VariantLabelKey \in DOMAIN selector.labels => selector.labels[VariantLabelKey] = s.variant.core
  BY <1>1, SafeIffAgreeing, Zenon
<1>7. \E w \in Workloads : StandsFor(w, s, selector.labels)
  BY <1>1, <1>6, SomethingIntended, Zenon
<1>. QED
  BY <1>2, <1>5, <1>7, Zenon

\* Selectors that are refused as unsafe leave nothing to stand for.
LEMMA RefusedIntended ==
    ASSUME NEW b, Rendered(b) = Refused("UnsafeSelector", "UnsafeSelector")
    PROVE  Intended(b) = {}
<1>. DEFINE s == spec[b]
            selector == pools[TrimSpace(s.pool)]
<1>1. ~SelectorsSafe(s, AllSelectors(s, selector))
  BY RenderedCases, Zenon
<1>2. Intended(b) = {w \in Workloads : StandsFor(w, s, selector.labels)}
  BY IntendedStandsFor, Zenon
<1>. HIDE DEF s, selector
<1>3. VariantLabelKey \in DOMAIN selector.labels /\ selector.labels[VariantLabelKey] # s.variant.core
  BY <1>1, SafeIffAgreeing, Zenon
<1>4. \A w : ~StandsFor(w, s, selector.labels)
  BY <1>3, Zenon DEF StandsFor
<1>. QED
  BY <1>2, <1>4, Zenon

\* A result that changes is one that was rendered now.
LEMMA ChangedIsRendered ==
    ASSUME PlanInvariant, [Next]_vars, NEW b \in Bindings, result'[b] # result[b]
    PROVE  result'[b] = Rendered(b)
<1>1. PICK c \in Bindings : Render(c)
  BY Zenon DEF Next, vars, EditBinding, EditPool, RemoveCRD, InstallCRD
<1>2. result' = [result EXCEPT ![c] = Rendered(c)]
  BY <1>1 DEF Render
<1>. QED
  BY <1>2, Zenon DEF PlanInvariant

\* A rendered identity reaches exactly the workloads its binding and pool stand for, and
\* there can be some (PlanIdentity, validateRenderedSafetySelectors).
THEOREM IntendedReached == Spec => RendersIntended
<1>1. Spec => []PlanInvariant
  BY PlanInit, PlanNext, PTL DEF Spec
<1>2. PlanInvariant /\ [Next]_vars =>
          [\A b \in Bindings : result'[b] # result[b] /\ result'[b].rendered
              => Selected(result'[b]) = Intended(b) /\ Intended(b) # {}]_vars
  <2>. SUFFICES ASSUME PlanInvariant, [Next]_vars, NEW b \in Bindings,
                       result'[b] # result[b], result'[b].rendered
                PROVE  Selected(result'[b]) = Intended(b) /\ Intended(b) # {}
    BY Zenon
  <2>1. result'[b] = Rendered(b)
    BY ChangedIsRendered, Zenon
  <2>. QED
    BY <2>1, RenderedIntended, Zenon
<1>. QED
  BY <1>1, <1>2, PTL DEF Spec, RendersIntended

\* An identity refused as unsafe is one that no workload could receive: a pool that
\* selects on the same variant is accepted (UniqueAndSorted).
THEOREM OnlyUnsafeRefused == Spec => RefusesOnlyUnsafe
<1>1. Spec => []PlanInvariant
  BY PlanInit, PlanNext, PTL DEF Spec
<1>2. PlanInvariant /\ [Next]_vars =>
          [\A b \in Bindings :
              result'[b] # result[b] /\ result'[b] = Refused("UnsafeSelector", "UnsafeSelector")
              => Intended(b) = {}]_vars
  <2>. SUFFICES ASSUME PlanInvariant, [Next]_vars, NEW b \in Bindings, result'[b] # result[b],
                       result'[b] = Refused("UnsafeSelector", "UnsafeSelector")
                PROVE  Intended(b) = {}
    BY Zenon
  <2>1. result'[b] = Rendered(b)
    BY ChangedIsRendered, Zenon
  <2>. QED
    BY <2>1, RefusedIntended, Zenon
<1>. QED
  BY <1>1, <1>2, PTL DEF Spec, RefusesOnlyUnsafe

-----------------------------------------------------------------------------
(* Inspections. *)

\* An inspection and a reconcile of the same state agree (inspectRenderedIdentity).
LEMMA SameOutcome ==
    ASSUME NEW b
    PROVE  /\ InspectedIdentity(b).rendered = Rendered(b).rendered
           /\ InspectedIdentity(b).rendered => InspectedIdentity(b) = Rendered(b)
           /\ VariantOK(spec[b].variant) => FindingID(InspectedIdentity(b)) = FindingID(Rendered(b))
<1>. DEFINE s == spec[b]
            pool == TrimSpace(s.pool)
            selector == pools[pool]
            plan == PlanIdentity(b, s, pool, DerivedSelectors(selector))
            badRef == Refused("InvalidRef", "InspectionFailed")
            badPoolRef == Refused("InvalidRef", "InvalidPoolRef")
<1>1. \A c, r : Refused(c, r).rendered = FALSE
  BY DEF Refused
<1>2. CASE VariantOK(s.variant)
  <2>1. \/ Rendered(b) = InspectedIdentity(b)
        \/ Rendered(b) = badPoolRef /\ InspectedIdentity(b) = badRef
    BY <1>2, Zenon DEF Rendered, RenderIdentity, InspectedIdentity
  <2>2. FindingID(badRef) = "InvalidRef" /\ FindingID(badPoolRef) = "InvalidRef"
    BY DEF FindingID, Refused
  <2>. QED
    BY <1>1, <1>2, <2>1, <2>2, Zenon
<1>3. CASE ~VariantOK(s.variant)
  <2>1. Rendered(b) = Refused("UnsafeSelector", "InvalidIdentityBoundary")
    BY <1>3, Zenon DEF Rendered
  <2>2. \/ \E c, r : InspectedIdentity(b) = Refused(c, r)
        \/ InspectedIdentity(b) = plan
    BY Zenon DEF InspectedIdentity
  <2>3. \E c, r : plan = Refused(c, r)
    BY <1>3, Zenon DEF PlanIdentity
  <2>4. InspectedIdentity(b).rendered = FALSE
    BY <1>1, <2>2, <2>3, Zenon
  <2>. QED
    BY <1>1, <1>3, <2>1, <2>4, Zenon
<1>. QED
  BY <1>2, <1>3

\* An inspection renders what the operator renders and refuses what it refuses, in every
\* state, for all specs, pools and selectors.
THEOREM InspectionFaithful == Spec => []InspectionAgrees
<1>1. InspectionAgrees
  BY SameOutcome, Zenon DEF InspectionAgrees
<1>. QED
  BY <1>1, PTL

\* Safe selectors ask for one value of every label, so that turning them into a map of
\* labels loses none (workloadSelectionFromSelectors).
LEMMA PodLabelsOfSafe ==
    ASSUME NEW s, NEW selector, SelectorsSafe(s, AllSelectors(s, selector))
    PROVE  LET labels == PodLabels(AllSelectors(s, selector))
           IN  /\ DOMAIN labels = DOMAIN selector.labels \cup {VariantLabelKey}
               /\ \A key \in DOMAIN selector.labels : labels[key] = selector.labels[key]
               /\ labels[VariantLabelKey] = s.variant.core
<1>. DEFINE all == AllSelectors(s, selector)
            label(key) == Selector("pod-label", key, selector.labels[key])
            wanted == {x \in all : x.on = "pod-label"}
            of(key) == CHOOSE x \in wanted : x.key = key
<1>1. \A x : x \in all <=> \/ x = Selector("ns", "", Namespace) \/ x = Selector("sa", "", s.sa.core)
                           \/ x = VariantSelector(s)
                           \/ \E key \in DOMAIN selector.labels : x = label(key)
  BY Zenon DEF AllSelectors, SafetySelectors, DerivedSelectors
<1>2. /\ Selector("ns", "", Namespace).on = "ns" /\ Selector("sa", "", s.sa.core).on = "sa"
      /\ VariantSelector(s).on = "pod-label" /\ VariantSelector(s).key = VariantLabelKey
      /\ VariantSelector(s).value = s.variant.core
  BY DEF VariantSelector, Selector
<1>3. \A key : label(key).on = "pod-label" /\ label(key).key = key /\ label(key).value = selector.labels[key]
  BY DEF Selector
<1>4. VariantLabelKey \in DOMAIN selector.labels => selector.labels[VariantLabelKey] = s.variant.core
  BY SafeIffAgreeing, Zenon
<1>5. PodLabels(all) = [key \in {x.key : x \in wanted} |-> of(key).value]
  BY Zenon DEF PodLabels
<1>. HIDE DEF all, label
<1>6. \A x : x \in wanted <=> \/ x = VariantSelector(s)
                              \/ \E key \in DOMAIN selector.labels : x = label(key)
  BY <1>1, <1>2, <1>3, ZenonT(60)
<1>7. \A k : k \in {x.key : x \in wanted} <=> k \in DOMAIN selector.labels \cup {VariantLabelKey}
  <2>. HIDE DEF wanted
  <2>1. \A k \in DOMAIN selector.labels : label(k) \in wanted /\ label(k).key = k
    BY <1>3, <1>6
  <2>2. VariantSelector(s) \in wanted /\ VariantSelector(s).key = VariantLabelKey
    BY <1>2, <1>6, ZenonT(60)
  <2>3. ASSUME NEW x \in wanted PROVE x.key \in DOMAIN selector.labels \cup {VariantLabelKey}
    <3>1. CASE x = VariantSelector(s)
      BY <1>2, <3>1, ZenonT(60)
    <3>2. CASE \E key \in DOMAIN selector.labels : x = label(key)
      <4>1. PICK key \in DOMAIN selector.labels : x = label(key)
        BY <3>2
      <4>. QED
        BY <1>3, <4>1
    <3>. QED
      BY <1>6, <3>1, <3>2
  <2>. QED
    BY <2>1, <2>2, <2>3, Zenon
<1>8. ASSUME NEW key \in DOMAIN selector.labels PROVE of(key).value = selector.labels[key]
  <2>1. label(key) \in wanted /\ label(key).key = key
    BY <1>3, <1>6, <1>8
  <2>. HIDE DEF wanted
  <2>2. of(key) \in wanted /\ of(key).key = key
    BY <2>1
  <2>. HIDE DEF of
  <2>3. CASE of(key) = VariantSelector(s)
    BY <1>2, <1>4, <1>8, <2>2, <2>3, ZenonT(60)
  <2>4. CASE \E k \in DOMAIN selector.labels : of(key) = label(k)
    <3>1. PICK k \in DOMAIN selector.labels : of(key) = label(k)
      BY <2>4
    <3>2. k = key
      BY <1>3, <2>2, <3>1
    <3>. QED
      BY <1>3, <3>1, <3>2
  <2>. QED
    BY <1>6, <2>2, <2>3, <2>4
<1>9. of(VariantLabelKey).value = s.variant.core
  <2>1. VariantSelector(s) \in wanted /\ VariantSelector(s).key = VariantLabelKey
    BY <1>2, <1>6, ZenonT(60)
  <2>. HIDE DEF wanted
  <2>2. of(VariantLabelKey) \in wanted /\ of(VariantLabelKey).key = VariantLabelKey
    BY <2>1
  <2>. HIDE DEF of
  <2>3. CASE of(VariantLabelKey) = VariantSelector(s)
    BY <1>2, <2>3, Zenon
  <2>4. CASE \E k \in DOMAIN selector.labels : of(VariantLabelKey) = label(k)
    <3>1. PICK k \in DOMAIN selector.labels : of(VariantLabelKey) = label(k)
      BY <2>4
    <3>2. k = VariantLabelKey
      BY <1>3, <2>2, <3>1
    <3>. QED
      BY <1>3, <1>4, <3>1, <3>2
  <2>. QED
    BY <1>6, <2>2, <2>3, <2>4
<1>. HIDE DEF wanted, of
<1>10. DOMAIN PodLabels(all) = DOMAIN selector.labels \cup {VariantLabelKey}
  BY <1>5, <1>7, Zenon
<1>11. \A key \in DOMAIN selector.labels \cup {VariantLabelKey} : PodLabels(all)[key] = of(key).value
  BY <1>5, <1>7, Zenon
<1>. QED
  BY <1>8, <1>9, <1>10, <1>11, Zenon DEF all

\* The only selector of a kind is the one that is chosen.
LEMMA ChosenOnly ==
    ASSUME NEW selectors, NEW on, NEW only, {x \in selectors : x.on = on} = {only}
    PROVE  (CHOOSE x \in selectors : x.on = on) = only
<1>1. \A x : x \in selectors /\ x.on = on <=> x = only
  BY Zenon
<1>. QED
  BY <1>1

\* A Pod matches the safe selectors exactly if the binding stands for it
\* (podMatchesSelection).
LEMMA MatchesIffStandsFor ==
    ASSUME NEW s, NEW selector, SelectorsSafe(s, AllSelectors(s, selector)), NEW pod
    PROVE  PodMatchesSelection(pod, AllSelectors(s, selector)) <=> StandsFor(pod, s, selector.labels)
<1>. DEFINE all == AllSelectors(s, selector)
            labels == PodLabels(all)
<1>1. /\ DOMAIN labels = DOMAIN selector.labels \cup {VariantLabelKey}
      /\ \A key \in DOMAIN selector.labels : labels[key] = selector.labels[key]
      /\ labels[VariantLabelKey] = s.variant.core
  BY PodLabelsOfSafe, Zenon
<1>2. /\ {x \in all : x.on = "ns"} = {Selector("ns", "", Namespace)}
      /\ {x \in all : x.on = "sa"} = {Selector("sa", "", s.sa.core)}
  BY Zenon DEF SelectorsSafe
<1>3. Selector("ns", "", Namespace).value = Namespace /\ Selector("sa", "", s.sa.core).value = s.sa.core
  BY DEF Selector
<1>. HIDE DEF all
<1>4. Only(all, "ns") = Namespace
  <2>1. (CHOOSE x \in all : x.on = "ns") = Selector("ns", "", Namespace)
    BY <1>2, ChosenOnly, Zenon
  <2>. QED
    BY <1>3, <2>1, Zenon DEF Only
<1>5. Only(all, "sa") = s.sa.core
  <2>1. (CHOOSE x \in all : x.on = "sa") = Selector("sa", "", s.sa.core)
    BY <1>2, ChosenOnly, Zenon
  <2>. QED
    BY <1>3, <2>1, Zenon DEF Only
<1>6. PodMatchesSelection(pod, all) <=>
          /\ pod.ns = Namespace /\ pod.sa = s.sa.core
          /\ \A key \in DOMAIN labels : key \in DOMAIN pod.labels /\ pod.labels[key] = labels[key]
  BY <1>4, <1>5, Zenon DEF PodMatchesSelection
<1>. HIDE DEF labels
<1>7. PodMatchesSelection(pod, all) <=> StandsFor(pod, s, selector.labels)
  BY <1>1, <1>6, Zenon DEF StandsFor
<1>. QED
  BY <1>7, Zenon DEF all

\* The Pods an inspection reports are those that SPIRE gives the identity to, although
\* it looks them up in another way (listMatchingPods, matchedPodsFromPods).
THEOREM MatchedPodsFaithful == Spec => []MatchedPodsAreSelected
<1>1. MatchedPodsAreSelected
  <2>. SUFFICES ASSUME NEW b \in Bindings, InspectedIdentity(b).rendered
                PROVE  MatchedPods(b) = Selected(InspectedIdentity(b))
    BY Zenon DEF MatchedPodsAreSelected
  <2>. DEFINE s == spec[b]
              selector == pools[TrimSpace(s.pool)]
  <2>1. InspectedIdentity(b) = Rendered(b) /\ Rendered(b).rendered
    BY SameOutcome, Zenon
  <2>2. /\ SelectorsSafe(s, AllSelectors(s, selector))
        /\ Rendered(b).selectors = AllSelectors(s, selector)
    BY <2>1, RenderedCases, Zenon
  <2>3. Selected(Rendered(b)) = Intended(b)
    BY <2>1, RenderedIntended, Zenon
  <2>4. Intended(b) = {w \in Workloads : StandsFor(w, s, selector.labels)}
    BY IntendedStandsFor, Zenon
  <2>5. \A pod : pod \in MatchedPods(b) <=>
            /\ pod \in Workloads /\ pod.ns = Namespace
            /\ \A key \in DOMAIN selector.labels :
                  key \in DOMAIN pod.labels /\ pod.labels[key] = selector.labels[key]
            /\ PodMatchesSelection(pod, AllSelectors(s, selector))
    BY <2>1, <2>2, Zenon DEF MatchedPods, ListMatchingPods
  <2>. HIDE DEF s, selector
  <2>6. \A pod : PodMatchesSelection(pod, AllSelectors(s, selector)) <=> StandsFor(pod, s, selector.labels)
    BY <2>2, MatchesIffStandsFor, Zenon
  <2>7. \A pod : pod \in MatchedPods(b) <=> pod \in Workloads /\ StandsFor(pod, s, selector.labels)
    BY <2>5, <2>6, Zenon DEF StandsFor
  <2>. QED
    BY <2>1, <2>3, <2>4, <2>7, Zenon
<1>. QED
  BY <1>1, PTL
=============================================================================
