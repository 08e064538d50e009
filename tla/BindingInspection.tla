------------------------- MODULE BindingInspection -------------------------
(***************************************************************************)
(* What `kleym inspect binding' renders and which Pods it reports          *)
(* (internal/inspection), beside what the operator renders from the same   *)
(* binding and pool.  The command changes nothing: its report is a         *)
(* function of the state it reads.                                         *)
(***************************************************************************)
EXTENDS IdentityPlan

-----------------------------------------------------------------------------
(* inspectRenderedIdentity *)

\* Mutant of InspectedIdentity: the pool's selector is not validated.
InspectUnderivable(b) ==
    LET s == spec[b]
        pool == TrimSpace(s.pool)
    IN  IF ~PoolRefOK(s) THEN Refused("InvalidRef", "InspectionFailed")
        ELSE IF pools[pool] = NoPool THEN Refused("InvalidRef", MissingPool)
        ELSE PlanIdentity(b, s, pool, DerivedSelectors(pools[pool]))

\* The variant is validated by PlanIdentity only, after the pool was read, and the
\* error of a refused poolRef carries no reason.
InspectedIdentity(b) ==
    LET s == spec[b]
        pool == TrimSpace(s.pool)
    IN  IF ~PoolRefOK(s) THEN Refused("InvalidRef", "InspectionFailed")
        ELSE IF pools[pool] = NoPool THEN Refused("InvalidRef", MissingPool)
        ELSE IF ~Derivable(pools[pool]) THEN Refused("UnsafeSelector", "InvalidPoolSelector")
        ELSE PlanIdentity(b, s, pool, DerivedSelectors(pools[pool]))

\* findingForError, findingIDForStateError and findingIDForGAIEStateError.
FindingID(refused) ==
    IF refused.reason = "InferencePoolCRDMissing" THEN "DependencyMissing"
    ELSE refused.condition

-----------------------------------------------------------------------------
(* inspectMatchedPods *)

\* workloadSelectionFromSelectors: pod labels become a map, so a key keeps one value.
PodLabels(selectors) ==
    LET wanted == {x \in selectors : x.on = "pod-label"}
    IN  [key \in {x.key : x \in wanted} |-> (CHOOSE x \in wanted : x.key = key).value]

Only(selectors, on) == (CHOOSE x \in selectors : x.on = on).value

\* Mutant of PodMatchesSelection: the service account is not compared.
PodMatchesLabels(pod, selectors) ==
    /\ pod.ns = Only(selectors, "ns")
    /\ \A key \in DOMAIN PodLabels(selectors) :
          key \in DOMAIN pod.labels /\ pod.labels[key] = PodLabels(selectors)[key]

\* podMatchesSelection.  Label values are not empty, so a Pod without the key, for
\* which Go's map yields "", does not match.
PodMatchesSelection(pod, selectors) ==
    /\ pod.ns = Only(selectors, "ns")
    /\ pod.sa = Only(selectors, "sa")
    /\ \A key \in DOMAIN PodLabels(selectors) :
          key \in DOMAIN pod.labels /\ pod.labels[key] = PodLabels(selectors)[key]

\* listMatchingPods: the Pods of the namespace that the pool's selector matches.
ListMatchingPods(b) ==
    LET labels == pools[TrimSpace(spec[b].pool)].labels
    IN  {pod \in Workloads :
            /\ pod.ns = Namespace
            /\ \A key \in DOMAIN labels : key \in DOMAIN pod.labels /\ pod.labels[key] = labels[key]}

\* matchedPodsFromPods.  No selector Kleym renders names a container or has another
\* form, so whole Pods are reported and none is unsupported.
MatchedPods(b) ==
    {pod \in ListMatchingPods(b) : PodMatchesSelection(pod, InspectedIdentity(b).selectors)}

-----------------------------------------------------------------------------
(* Properties. *)

\* An inspection renders what the operator would render from the same binding and pool,
\* to the last selector and the name of the output, and refuses what the operator
\* refuses.  Unless the variant is invalid, which an inspection notices after it looked
\* up the pool, its finding is the one for the operator's condition
\* (docs/spec/cli.md: "Resolve the pool to the same inference target identity model used
\* by the operator, then render identity and deterministic `ClusterSPIFFEID` output with
\* shared Kleym logic").
InspectionAgrees ==
    \A b \in Bindings :
        LET inspected == InspectedIdentity(b)
            operator == Rendered(b)
        IN  /\ inspected.rendered = operator.rendered
            /\ inspected.rendered => inspected = operator
            /\ ~inspected.rendered /\ VariantOK(spec[b].variant) =>
                  FindingID(inspected) = FindingID(operator)

\* The Pods an inspection reports are exactly those SPIRE would give the identity to,
\* although it reads them through the pool's selector and turns the rendered selectors
\* back into a map of labels.
MatchedPodsAreSelected ==
    \A b \in Bindings :
        InspectedIdentity(b).rendered => MatchedPods(b) = Selected(InspectedIdentity(b))
=============================================================================
