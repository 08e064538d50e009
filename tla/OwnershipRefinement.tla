------------------------ MODULE OwnershipRefinement ------------------------
(***************************************************************************)
(* The reconciler implements OutputOwnership: the records are those in     *)
(* the stored statuses, the outputs are the stored ClusterSPIFFEIDs.       *)
(***************************************************************************)
EXTENDS BindingReconciler

Ownership == INSTANCE OutputOwnership WITH
    record <- [b \in Bindings |-> live[b].rec],
    output <- object,
    uids <- nextUid,
    claims <- nextClaim,
    memory <- op,
    Late <- LateCreates

\* Whatever the operator's copies of bindings say, and wherever a call fails or the
\* operator restarts, stored records and outputs change only as OutputOwnership
\* promises (internal/controller: ownership.go and spiffe.go).
ImplementsOwnership == Ownership!Spec

=============================================================================
