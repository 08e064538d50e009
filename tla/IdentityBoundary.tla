-------------------------- MODULE IdentityBoundary --------------------------
(***************************************************************************)
(* The pairwise exclusivity rule of internal/identity/boundary.go.         *)
(*                                                                         *)
(* A record stands for a rendered identity: the SPIFFE ID it registers     *)
(* (`id'), the service account (`sa') and the variant (`variant') that     *)
(* select the workloads receiving it.  The bindings that are compared live *)
(* in one namespace (the reconciler lists its own namespace only), so the  *)
(* namespace test of evaluateVariantPair always succeeds and is left out.  *)
(***************************************************************************)

\* Mutant of PairCause: only equal SPIFFE IDs conflict.
PairDuplicates(left, right) == IF left.id = right.id THEN "DuplicateSPIFFEID" ELSE "None"

\* evaluateVariantPair: the cause for which two identities are not exclusive.
\* Equal SPIFFE IDs are reported as duplicates before the boundary is looked at.
PairCause(left, right) ==
    IF left.id = right.id
    THEN "DuplicateSPIFFEID"
    ELSE IF left.sa = right.sa /\ left.variant = right.variant
         THEN "VariantReuse"
         ELSE "None"

\* Two rendered identities compete for the same workloads or the same SPIFFE ID.
Competes(left, right) == PairCause(left, right) # "None"

\* EvaluateVariantConflicts, restricted to one binding: the other bindings of
\* the collected records `plans' (a function on the bindings that rendered)
\* that compete with `self'.  A binding that was not collected has no conflicts.
ConflictPeers(plans, self) ==
    IF self \in DOMAIN plans
    THEN {peer \in DOMAIN plans \ {self} : Competes(plans[self], plans[peer])}
    ELSE {}

=============================================================================
