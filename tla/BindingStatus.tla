--------------------------- MODULE BindingStatus ---------------------------
(***************************************************************************)
(* The status of one InferenceIdentityBinding: what the reconciler writes  *)
(* into it, call by call, and what the metrics read out of it.             *)
(*                                                                         *)
(* BindingReconciler follows the ownership record and treats a status as   *)
(* one value; here the status has its five conditions, each stamped with   *)
(* the generation it was evaluated for, the rendered identity, the         *)
(* conflicts and the operator's configuration, and the two ways it is      *)
(* persisted are kept apart.  patchOwnershipStatus sends the difference    *)
(* between two in-memory copies, patchStatus the whole status over the     *)
(* copy the cache returns.  What the calls on ClusterSPIFFEIDs find is     *)
(* left open here, so every path of BindingReconciler is one of these.     *)
(*                                                                         *)
(* The finalizer is left to BindingReconciler: its updates change neither  *)
(* the status nor the generation.                                          *)
(***************************************************************************)
EXTENDS Naturals, FiniteSets

CONSTANTS
    Specs,          \* binding specs a user may declare
    Configs,        \* operator configurations: records with td and class
    StateErrors,    \* errors of rendering: records with type and reason
    ConflictCauses, \* causes of the conflicts that an evaluation may find together
    None,           \* no rendered identity, no spec
    CacheLag,       \* whether the manager's cache may lag behind the API server
    MaxMoves,       \* bound on the changes users make
    MaxFaults       \* bound on failed or unanswered calls, and restarts

FailureTypes == {"InvalidRef", "UnsafeSelector", "Conflict", "RenderFailure"}
ConditionTypes == {"Ready"} \cup FailureTypes

ASSUME StatusConstants ==
    /\ Specs # {}
    /\ None \notin Specs
    /\ Configs # {}
    \* OperatorConfig.Validate: the operator does not start without a trust domain.
    /\ \A c \in Configs : c = [td |-> c.td, class |-> c.class] /\ c.td # ""
    /\ \A s \in Specs, c \in Configs : [spec |-> s, td |-> c.td] # None
    /\ ConflictCauses \subseteq (SUBSET {"VariantReuse", "DuplicateSPIFFEID"}) \ {{}}
    \* newStateError: the reasons are those of rendering, not those of the metrics.
    /\ \A e \in StateErrors : /\ e.type \in FailureTypes \ {"Conflict"}
                             /\ e.reason \notin {"Initializing", "UnclassifiedFailure"}
    /\ CacheLag \in BOOLEAN
    /\ MaxMoves \in Nat
    /\ MaxFaults \in Nat

VARIABLES
    live,       \* the binding as the API server stores it
    cache,      \* the binding as the manager's cache shows it
    config,     \* the configuration of the running operator
    op,         \* the operator's memory
    outcome,    \* labels the last reconcile incremented the outcome counter for
    moves,      \* changes users made so far
    faults      \* failures so far

statusVars == <<live, cache, config, op, outcome, moves, faults>>

-----------------------------------------------------------------------------
(* Statuses. *)

\* One condition.  `note' stands for its message.
Condition(is, reason, note) == [is |-> is, reason |-> reason, note |-> note, gen |-> 0]

Missing == Condition("Missing", "", "")

NoConfig == [td |-> "", class |-> ""]

\* The status of a binding that was never reconciled.  `rec' is the kind of the
\* ownership record, `id' the rendered output (computedSpiffeIDs, renderedSelectors
\* and renderedClusterSPIFFEID, which are always set together).
NewStatus ==
    [conds |-> [t \in ConditionTypes |-> Missing], id |-> None, conflicts |-> {},
     config |-> NoConfig, rec |-> "unclaimed"]

\* initializeConditions: conditions that exist keep their value and are stamped
\* with the new generation all the same.
InitializeConditions(s, g) ==
    [s EXCEPT !.conds = [t \in ConditionTypes |->
        IF s.conds[t] = Missing
        THEN [Condition("Unknown", "Initializing", "unevaluated") EXCEPT !.gen = g]
        ELSE [s.conds[t] EXCEPT !.gen = g]]]

\* Mutant of ApplyOperatorConfig: the class name is not recorded.
RecordDomainOnly(s, c) == [s EXCEPT !.config = [@ EXCEPT !.td = c.td]]

\* Mutant of ApplyOperatorConfig: nothing is recorded.
RecordNothing(s, c) == s

\* applyOperatorConfig.
ApplyOperatorConfig(s, c) == [s EXCEPT !.config = c]

\* setCondition for all five types, as every writer below calls it: the ones in
\* `raised' as given, the others False and Resolved.  All writers but those of
\* success and conflict clear what the status reports besides.
Evaluated(s, g, raised) ==
    [s EXCEPT !.conds = [t \in ConditionTypes |->
                            [(IF t \in DOMAIN raised THEN raised[t]
                              ELSE Condition("False", "Resolved", "resolved")) EXCEPT !.gen = g]],
              !.id = None, !.conflicts = {}]

ApplySuccess(s, g, id) ==
    [Evaluated(s, g, [Ready |-> Condition("True", "Reconciled", "reconciled")]) EXCEPT !.id = id]

\* Mutant of ApplyConflict: the rendered output of an earlier write is kept.
KeepRenderedOnConflict(s, g, causes) ==
    [Evaluated(s, g, [t \in {"Ready", "Conflict"} |->
        Condition(IF t = "Ready" THEN "False" ELSE "True", "VariantConflict", "conflict")])
     EXCEPT !.id = s.id, !.conflicts = causes]

ApplyConflict(s, g, causes) ==
    LET reason == IF "DuplicateSPIFFEID" \in causes THEN "DuplicateSPIFFEID" ELSE "VariantConflict"
    IN  [Evaluated(s, g, [t \in {"Ready", "Conflict"} |->
            Condition(IF t = "Ready" THEN "False" ELSE "True", reason, "conflict")])
         EXCEPT !.conflicts = causes]

ApplyPendingOutput(s, g) ==
    Evaluated(s, g, [Ready |-> Condition("Unknown", "Initializing", "creating")])

ApplyPendingConflict(s, g) ==
    Evaluated(s, g, [t \in {"Ready", "Conflict"} |->
        Condition("Unknown", "Initializing", "absence")])

ApplyPendingReplacement(s, g) ==
    Evaluated(s, g, [Ready |-> Condition("Unknown", "Initializing", "replacing")])

\* Mutant of ApplyFailure: a condition that is already True is not reset.
KeepOlderFailure(s, g, e) ==
    LET failed == Evaluated(s, g, [t \in {"Ready", e.type} |->
                      Condition(IF t = "Ready" THEN "False" ELSE "True", e.reason, e.reason)])
    IN  [failed EXCEPT !.conds = [t \in ConditionTypes |->
            IF t # "Ready" /\ s.conds[t].is = "True" THEN s.conds[t] ELSE failed.conds[t]]]

ApplyFailure(s, g, e) ==
    Evaluated(s, g, [t \in {"Ready", e.type} |->
        Condition(IF t = "Ready" THEN "False" ELSE "True", e.reason, e.reason)])

ApplyFailed == [type |-> "RenderFailure", reason |-> "ManagedOutputApplyFailed"]
CRDMissing == [type |-> "RenderFailure", reason |-> "ClusterSPIFFEIDCRDMissing"]

-----------------------------------------------------------------------------
(* Metrics. *)

NoLabels == [condition |-> "", reason |-> ""]

\* Mutant of FailureOrder: conflicts are forgotten.
OrderWithoutConflict == <<"InvalidRef", "UnsafeSelector", "RenderFailure">>

\* failureOutcomeConditionOrder: the failure conditions that are True and have
\* none before them in that order.
FailureOrder == <<"InvalidRef", "UnsafeSelector", "Conflict", "RenderFailure">>

FirstFailure(s) ==
    {i \in DOMAIN FailureOrder :
        /\ s.conds[FailureOrder[i]].is = "True"
        /\ \A j \in 1..(i - 1) : s.conds[FailureOrder[j]].is # "True"}

\* deriveBindingOutcomeLabels.
OutcomeLabels(s, allowInitializing) ==
    LET ready == s.conds["Ready"]
        starting == ready.is = "Unknown" /\ ready.reason = "Initializing"
    IN  IF ready.is = "True" \/ (allowInitializing /\ starting)
        THEN [condition |-> "Ready", reason |-> ready.reason]
        ELSE IF FirstFailure(s) # {}
        THEN LET t == FailureOrder[CHOOSE i \in FirstFailure(s) : TRUE]
             IN  [condition |-> t, reason |-> s.conds[t].reason]
        ELSE IF ready.is = "False"
        THEN [condition |-> "Ready", reason |-> "UnclassifiedFailure"]
        ELSE NoLabels

\* The sample of the gauge for this binding: Collect lists bindings from the cache.
Gauge == IF cache.there THEN OutcomeLabels(cache.status, TRUE) ELSE NoLabels

-----------------------------------------------------------------------------
(* The binding and the operator's memory. *)

\* `fresh' tells of a copy whether its resourceVersion is still the current one,
\* which is all that an optimistic lock compares.
Absent ==
    [there |-> FALSE, deleting |-> FALSE, gen |-> 0, spec |-> None,
     status |-> NewStatus, fresh |-> TRUE]

Created(spec) == [Absent EXCEPT !.there = TRUE, !.gen = 1, !.spec = spec]

\* The operator's memory: the copy of the binding it fetched, the rendered identity,
\* what a cleanup is for (a state error, or one of the goals below), whether a condition
\* changed in memory since the fetch, which gives it a new lastTransitionTime, and
\* whether the status to be patched is a terminal outcome.
NoGoal == [type |-> "", reason |-> ""]
Finalize == [type |-> "", reason |-> "finalize"]
Rename == [type |-> "", reason |-> "rename"]

IdleOp ==
    [pc |-> "idle", copy |-> Absent, id |-> None, goal |-> NoGoal, moved |-> FALSE, ends |-> FALSE]

St == op.copy.status
Gen == op.copy.gen

WithStatus(o, s) ==
    [o EXCEPT !.copy = [@ EXCEPT !.status = s],
              !.moved = @ \/ \E t \in ConditionTypes : s.conds[t].is # o.copy.status.conds[t].is]

\* The reconcile ends by patching status s; its other locals are out of scope.
Finish(s, ends) ==
    [IdleOp EXCEPT !.pc = "status", !.copy = [Absent EXCEPT !.status = s],
                   !.moved = WithStatus(op, s).moved, !.ends = ends]

\* patchManagedOutputApplyFailureStatus, after a call that failed.
FinishFailed == Finish(ApplyFailure(St, Gen, ApplyFailed), TRUE)

\* The binding changes in the API server to `new': every other copy is outdated.
Store(new) ==
    /\ live' = new
    /\ cache' = IF CacheLag THEN [cache EXCEPT !.fresh = FALSE] ELSE new

Keep == UNCHANGED <<live, cache>>

\* What somebody else stores outdates the operator's copy too.
OutdateCopy == op' = IF op.pc \in {"idle", "status"} THEN op
                     ELSE [op EXCEPT !.copy = [@ EXCEPT !.fresh = FALSE]]

\* A call is answered ("ok"), fails without effect ("fail"), or takes effect and
\* is reported as failed ("lost").
Replies == {"ok", "fail", "lost"}

Answer(r) ==
    \/ r = "ok" /\ UNCHANGED faults
    \/ r # "ok" /\ faults < MaxFaults /\ faults' = faults + 1

-----------------------------------------------------------------------------
(* Persisting a status. *)

\* Mutant of Merge: the patch carries the whole in-memory status.
SendWholeStatus(base, target, stored) == target

\* A JSON merge patch from base to target, applied to `stored': it names the
\* fields in which the two differ, the list of conditions as a whole.
Merge(base, target, stored) ==
    [f \in DOMAIN stored |-> IF base[f] # target[f] THEN target[f] ELSE stored[f]]

\* patchOwnershipStatus: the fetched copy's status becomes `target', provided that
\* copy is still current.  A failed patch leaves the copy as it was, and the
\* callers report it with patchManagedOutputApplyFailureStatus.
PatchOwnership(r, target) ==
    /\ Answer(r)
    /\ IF op.copy.fresh /\ r # "fail"
       THEN Store([live EXCEPT !.status = Merge(St, target, @)])
       ELSE Keep
    /\ op' = IF op.copy.fresh /\ r = "ok" THEN WithStatus(op, target) ELSE FinishFailed
    /\ UNCHANGED <<config, outcome, moves>>

\* patchStatus: the status goes over the copy that the cache returns now, keeping
\* that copy's ownership record; without a difference to that copy nothing is sent.
\* A patch that meets a newer resourceVersion is retried until the retries are
\* used up, and a terminal outcome is counted after the patch succeeded.
PatchStatus(r) ==
    /\ op.pc = "status"
    /\ Answer(r)
    /\ LET target == [St EXCEPT !.rec = cache.status.rec]
           same == cache.there /\ cache.status = target /\ ~op.moved
           sent == cache.there /\ cache.fresh /\ ~same /\ r # "fail"
           done == r = "ok" /\ (same \/ sent)
       IN  /\ same => r = "ok"
           /\ IF sent THEN Store([live EXCEPT !.status = target]) ELSE Keep
           /\ outcome' = IF done /\ op.ends THEN OutcomeLabels(target, FALSE) ELSE NoLabels
    /\ op' = IdleOp
    /\ UNCHANGED <<config, moves>>

-----------------------------------------------------------------------------
(* Reconcile. *)

\* The copy that Reconcile goes on with.  A binding that is being deleted goes to
\* reconcileDelete as it is; the conditions of any other one are initialized first.
Fetched ==
    LET o == [IdleOp EXCEPT !.copy = cache]
    IN  IF cache.deleting THEN o
        ELSE WithStatus(o, ApplyOperatorConfig(InitializeConditions(cache.status, cache.gen), config))

\* Fetch.  What follows up to the conflict evaluation reads the spec and the live pool
\* only, so it is one step with the fetch: the reconcile goes on as `next'.
Fetch(next) ==
    /\ op.pc = "idle"
    /\ cache.there
    /\ op' = next
    /\ outcome' = NoLabels
    /\ UNCHANGED <<live, cache, config, moves>>

FetchDeleting ==
    /\ cache.deleting
    /\ Fetch([Fetched EXCEPT !.pc = "cleanup", !.goal = Finalize])
    /\ UNCHANGED faults

\* bindingIdentityVariant and computeDesiredState succeed: the SPIFFE ID and the name
\* of the output are functions of the spec and the trust domain.
Render ==
    /\ ~cache.deleting
    /\ Fetch([Fetched EXCEPT !.pc = "conflicts", !.id = [spec |-> cache.spec, td |-> config.td]])
    /\ UNCHANGED faults

\* They fail with an error that carries a condition: applyStateError cleans up first.
StateError(e) ==
    /\ ~cache.deleting
    /\ Fetch([Fetched EXCEPT !.pc = "cleanup", !.goal = e])
    /\ UNCHANGED faults

\* They fail in any other way, which leaves the status alone.
OtherError ==
    /\ ~cache.deleting
    /\ Fetch(IdleOp)
    /\ Answer("fail")

\* reconcileConflictState finds the variant exclusive, and so goes on with
\* cleanupChangedClusterSPIFFEIDName if an output of another name is recorded.
Exclusive(renamed) ==
    /\ op.pc = "conflicts"
    /\ renamed => St.rec # "unclaimed"
    /\ op' = [op EXCEPT !.pc = IF renamed THEN "cleanup" ELSE "apply",
                        !.goal = IF renamed THEN Rename ELSE NoGoal]
    /\ UNCHANGED <<live, cache, config, outcome, moves, faults>>

\* It reports a conflict, once the outputs of all members are confirmed absent.  For this
\* binding that clears the record, unless a stale copy shows none.
Conflicting(causes) ==
    /\ op.pc = "conflicts"
    /\ "unclaimed" \in {live.status.rec, St.rec}
    /\ op' = Finish(ApplyConflict(St, Gen, causes), TRUE)
    /\ UNCHANGED <<live, cache, config, outcome, moves, faults>>

\* An output of a member is still there, or a peer that cannot be rendered blocks.
ConflictPending ==
    /\ op.pc = "conflicts"
    /\ op' = Finish(ApplyPendingConflict(St, Gen), FALSE)
    /\ UNCHANGED <<live, cache, config, outcome, moves, faults>>

\* A call of any of the phases on the outputs fails, or finds a foreign object.
OutputCallFailed ==
    /\ op.pc \in {"conflicts", "cleanup", "apply"}
    /\ Answer("fail")
    /\ op' = FinishFailed
    /\ UNCHANGED <<live, cache, config, outcome, moves>>

\* reserveClusterSPIFFEIDClaim.
Reserve(r) ==
    /\ op.pc = "apply"
    /\ St.rec = "unclaimed"
    /\ PatchOwnership(r, [ApplyPendingOutput(St, Gen) EXCEPT !.rec = "pending"])

\* confirmClusterSPIFFEIDOwnership and clearClusterSPIFFEIDOwnership, as cleanup, list
\* and apply call them after looking at the recorded output.
Confirm(r) ==
    /\ op.pc \in {"cleanup", "apply"}
    /\ St.rec = "pending"
    /\ PatchOwnership(r, [St EXCEPT !.rec = "confirmed"])

Clear(r) ==
    /\ op.pc \in {"cleanup", "apply"}
    /\ St.rec # "unclaimed"
    /\ PatchOwnership(r, [St EXCEPT !.rec = "unclaimed"])

\* The cleanup is over: the record is clear, or the confirmed output is still there.
CleanedUp ==
    /\ op.pc = "cleanup"
    /\ St.rec # "pending"
    /\ op.goal = Finalize => St.rec = "confirmed"
    /\ op' = CASE op.goal = Finalize -> IdleOp
              [] op.goal = Rename ->
                    IF St.rec = "confirmed" THEN Finish(ApplyPendingReplacement(St, Gen), FALSE)
                    ELSE [op EXCEPT !.pc = "apply", !.goal = NoGoal]
              [] OTHER -> Finish(ApplyFailure(St, Gen, op.goal), TRUE)
    /\ UNCHANGED <<live, cache, config, outcome, moves, faults>>

\* reconcileDelete removes the finalizer, and the binding goes away.
RemoveFinalizer(r) ==
    /\ op.pc = "cleanup"
    /\ op.goal = Finalize
    /\ St.rec = "unclaimed"
    /\ Answer(r)
    /\ IF op.copy.fresh /\ r # "fail" THEN Store(Absent) ELSE Keep
    /\ op' = IdleOp
    /\ UNCHANGED <<config, outcome, moves>>

\* reconcileClusterSPIFFEIDs finds the CRD missing, which asks for a cleanup as well.
OutputCRDMissing ==
    /\ op.pc = "apply"
    /\ op' = [op EXCEPT !.pc = "cleanup", !.goal = CRDMissing]
    /\ UNCHANGED <<live, cache, config, outcome, moves, faults>>

\* reconcileClusterSPIFFEIDs returns with the output confirmed and up to date.
Applied ==
    /\ op.pc = "apply"
    /\ St.rec = "confirmed"
    /\ op' = Finish(ApplySuccess(St, Gen, op.id), TRUE)
    /\ UNCHANGED <<live, cache, config, outcome, moves, faults>>

-----------------------------------------------------------------------------
(* Everything else. *)

\* withdrawConflictOutputs and the evaluation before it confirm or clear the record of
\* this binding, in its own reconcileConflictState or in that of a peer.
RecordElsewhere(rec) ==
    /\ op.pc \in {"idle", "conflicts"}
    /\ live.there
    /\ \/ live.status.rec = "pending" /\ rec = "confirmed"
       \/ live.status.rec # "unclaimed" /\ rec = "unclaimed"
    /\ Store([live EXCEPT !.status = [@ EXCEPT !.rec = rec]])
    /\ OutdateCopy
    /\ UNCHANGED <<config, outcome, moves, faults>>

\* A user creates the binding, edits its spec or deletes it.
Move(new) ==
    /\ moves < MaxMoves
    /\ moves' = moves + 1
    /\ Store(new)
    /\ OutdateCopy
    /\ UNCHANGED <<config, outcome, faults>>

CreateBinding(spec) == ~live.there /\ Move(Created(spec))

EditSpec(spec) ==
    /\ live.there /\ ~live.deleting /\ live.spec # spec
    /\ Move([live EXCEPT !.spec = spec, !.gen = @ + 1])

DeleteBinding ==
    /\ live.there /\ ~live.deleting
    /\ Move([live EXCEPT !.deleting = TRUE, !.gen = @ + 1])

\* The watch of the manager's cache catches up.
SyncCache ==
    /\ ~cache.fresh
    /\ cache' = live
    /\ UNCHANGED <<live, config, op, outcome, moves, faults>>

\* The operator stops anywhere and starts again, with this or another configuration.
Restart(c) ==
    /\ faults < MaxFaults
    /\ faults' = faults + 1
    /\ config' = c
    /\ op' = IdleOp
    /\ outcome' = NoLabels
    /\ UNCHANGED <<live, cache, moves>>

StatusInit ==
    /\ live = Absent
    /\ cache = Absent
    /\ config \in Configs
    /\ op = IdleOp
    /\ outcome = NoLabels
    /\ moves = 0
    /\ faults = 0

Reconcile ==
    \/ FetchDeleting
    \/ Render
    \/ \E e \in StateErrors : StateError(e)
    \/ OtherError
    \/ \E renamed \in BOOLEAN : Exclusive(renamed)
    \/ \E causes \in ConflictCauses : Conflicting(causes)
    \/ ConflictPending
    \/ OutputCallFailed
    \/ \E r \in Replies : Reserve(r) \/ Confirm(r) \/ Clear(r)
    \/ CleanedUp
    \/ \E r \in Replies : RemoveFinalizer(r) \/ PatchStatus(r)
    \/ OutputCRDMissing
    \/ Applied

StatusNext ==
    \/ Reconcile
    \/ \E rec \in {"confirmed", "unclaimed"} : RecordElsewhere(rec)
    \/ \E s \in Specs : CreateBinding(s) \/ EditSpec(s)
    \/ DeleteBinding
    \/ SyncCache
    \/ \E c \in Configs : Restart(c)

StatusSpec == StatusInit /\ [][StatusNext]_statusVars

-----------------------------------------------------------------------------
(* Properties. *)

Reasons == {"", "Initializing", "Resolved", "Reconciled", "DuplicateSPIFFEID", "VariantConflict",
            ApplyFailed.reason, CRDMissing.reason} \cup {e.reason : e \in StateErrors}

Notes == Reasons \cup {"unevaluated", "resolved", "reconciled", "conflict", "creating", "absence", "replacing"}

Conditions == [is : {"Missing", "True", "False", "Unknown"}, reason : Reasons, note : Notes, gen : Nat]

Identities == {None} \cup [spec : Specs, td : {c.td : c \in Configs}]

Statuses ==
    [conds : [ConditionTypes -> Conditions], id : Identities, conflicts : ConflictCauses \cup {{}},
     config : Configs \cup {NoConfig}, rec : {"unclaimed", "pending", "confirmed"}]

Copies ==
    [there : BOOLEAN, deleting : BOOLEAN, gen : Nat, spec : Specs \cup {None}, status : Statuses,
     fresh : BOOLEAN]

Memories ==
    [pc : {"idle", "conflicts", "cleanup", "apply", "status"}, copy : Copies, id : Identities,
     goal : StateErrors \cup {NoGoal, Finalize, Rename, CRDMissing}, moved : BOOLEAN, ends : BOOLEAN]

\* Type invariant: what is stored, cached and held in memory.
StatusTypeOK ==
    /\ live \in Copies /\ cache \in Copies
    /\ config \in Configs
    /\ op \in Memories
    /\ outcome \in [condition : ConditionTypes \cup {""}, reason : Reasons \cup {"UnclassifiedFailure"}]
    /\ moves \in 0 .. MaxMoves
    /\ faults \in 0 .. MaxFaults

Ready(s) == s.conds["Ready"]

\* A stored status that says Ready=True for the current generation shows the identity
\* of the current spec, rendered under the trust domain which that same status
\* records.  The conditions of an outdated status are stamped with the new generation
\* in memory on every reconcile (initializeConditions), and several patches follow
\* before the status is written: none of them may carry the stamp along.
ReadyIsCurrent ==
    live.there /\ Ready(live.status).is = "True" /\ Ready(live.status).gen = live.gen =>
        live.status.id = [spec |-> live.spec, td |-> live.status.config.td]

OneFailure(s) ==
    LET raised == {t \in FailureTypes : s.conds[t].is = "True"}
    IN  IF Ready(s).is = "False"
        THEN \E t \in FailureTypes :
                /\ raised = {t}
                /\ s.conds[t].reason = Ready(s).reason
                /\ s.conds[t].note = Ready(s).note
        ELSE raised = {}

\* Exactly one failure condition is True when Ready is False, with Ready's reason and
\* message, and none otherwise: docs/spec/operator.md ("Exactly one primary failure
\* condition is True. Ready=False uses the same reason and message.").
OnePrimaryFailure == OneFailure(live.status)

Shown(s) ==
    /\ s.id # None <=> Ready(s).is = "True"
    /\ s.conflicts # {} <=> s.conds["Conflict"].is = "True"
    /\ \A t \in ConditionTypes : s.conds[t].gen = Ready(s).gen

\* Rendered output is shown exactly while Ready=True, conflicts exactly while
\* Conflict=True, and conditions that were evaluated carry one generation: whatever
\* sequence of partial patches produced the status.
ShownWithItsCondition == Shown(live.status)

\* The metrics can classify every status: a binding whose conditions were written has
\* a gauge sample, no sample and no counted outcome is an UnclassifiedFailure, and an
\* outcome that is not terminal is never counted.
OutcomesClassified ==
    /\ cache.there /\ Ready(cache.status) # Missing => Gauge # NoLabels
    /\ Gauge.reason # "UnclassifiedFailure"
    /\ outcome.reason \notin {"UnclassifiedFailure", "Initializing"}

\* After a reconcile that ended in success the stored status shows what it rendered:
\* docs/spec/operator.md ("On successful reconciliation,
\* `status.renderedClusterSPIFFEID` exposes the deterministic managed `ClusterSPIFFEID`
\* name").  It does not hold: patchStatus compares with a cache that may still show the
\* success before last.
SuccessIsPublished == outcome.condition = "Ready" => live.status.id # None

-----------------------------------------------------------------------------
(* The inductive invariant behind them. *)

\* The conditions of a status exist together or not at all, a Ready that is unknown is
\* still initializing, a success was written under some configuration, and no failure
\* has a reason of the metrics.
Written(s) ==
    /\ OneFailure(s)
    /\ Shown(s)
    /\ \/ \A t \in ConditionTypes : s.conds[t] = Missing
       \/ \A t \in ConditionTypes : s.conds[t].is # "Missing"
    /\ Ready(s).is = "Unknown" => Ready(s).reason = "Initializing"
    /\ Ready(s).is = "True" => Ready(s).reason = "Reconciled" /\ s.config \in Configs
    /\ \A t \in FailureTypes :
          s.conds[t].is = "True" => s.conds[t].reason \notin {"Initializing", "UnclassifiedFailure"}

\* A success that status s shows is one of the stored binding, for an earlier generation
\* or for what its spec still asks for.
ShowsStored(s) ==
    Ready(s).is = "True" =>
        /\ live.there
        /\ Ready(s).gen <= live.gen
        /\ Ready(s).gen = live.gen => s.id = [spec |-> live.spec, td |-> s.config.td]

\* A copy that shows a binding not being deleted is one of the stored binding: it is
\* of an earlier generation or has the same spec.
Follows(c) ==
    c.there =>
        /\ c.spec \in Specs
        /\ ~c.deleting => /\ live.there /\ c.gen <= live.gen
                          /\ c.gen = live.gen => c.spec = live.spec

\* What the fetched copy adds to the stored status: new conditions and new stamps, none
\* of which a patch of the ownership record carries along.
Stamped(c) ==
    /\ \A t \in ConditionTypes :
          \/ c.conds[t].is = live.status.conds[t].is
          \/ live.status.conds[t] = Missing /\ c.conds[t].is = "Unknown"
    /\ c.id = live.status.id
    /\ c.conflicts = live.status.conflicts
    /\ c.rec = live.status.rec

\* The copy that a reconcile works with.
Working ==
    /\ op.copy.there
    /\ Follows(op.copy)
    /\ op.copy.deleting <=> op.goal = Finalize
    /\ op.goal = Finalize \/ St.config = config
    /\ op.copy.fresh =>
          /\ live.there /\ live.deleting = op.copy.deleting
          /\ live.gen = op.copy.gen /\ live.spec = op.copy.spec
          /\ Stamped(St)
          /\ op.copy.deleting => (cache.there => cache.deleting)
    /\ op.pc = "cleanup" <=> op.goal # NoGoal
    /\ op.goal \in {NoGoal, Rename} => op.id = [spec |-> op.copy.spec, td |-> config.td]

\* The inductive invariant: the statuses that are stored, cached and held in memory are
\* each as if written at once, and what they show for the current generation belongs to
\* the current spec, however the copies lag behind.
StatusInvariant ==
    /\ StatusTypeOK
    /\ \A s \in {live.status, cache.status, St} : Written(s)
    /\ live.fresh /\ Follows(live) /\ ShowsStored(live.status)
    /\ cache.fresh => cache = live
    /\ Follows(cache)
    /\ op.pc \in {"conflicts", "cleanup", "apply"} => Working
    /\ op.pc = "status" => ShowsStored(St)
    /\ outcome.reason \notin {"UnclassifiedFailure", "Initializing"}

=============================================================================
