# A TLA+ model of kleym

kleym turns `InferenceIdentityBinding` resources into SPIRE `ClusterSPIFFEID`
resources: a binding names an `InferencePool`, a service account and a variant,
and the operator registers the SPIFFE ID that the Pods of that pool, account and
variant receive. This directory models the operator, checks the model with TLC
on small instances and proves its central safety properties with TLAPS.

    tlc -config SingleFaults.cfg MCSingle      # any run of the table below
    tlapm BindingReconcilerProofs.tla          # any module of the table of theorems

`PROJECT.json` maps every definition to the source lines it stands for.

## Inventory

| Part | Source | State and operations | Model |
|---|---|---|---|
| Binding reconciler | `internal/controller/*_{controller,spiffe,ownership,conflict,status}.go` | stored binding (spec, finalizer, ownership record, status), outputs by name, memory of one reconcile; one operation per API call | `BindingReconciler` |
| Ownership protocol | `*_ownership.go`, `*_spiffe.go`, `api/v1alpha1` | pending claim, confirmed UID; reserve, create, confirm, clear, delete | `OutputOwnership` (the promise), `BindingReconciler` (the steps), `OwnershipRefinement` |
| Conflict evaluation | `*_conflict.go`, `internal/identity/boundary.go` | records of peers; evaluate, withdraw, settle | `IdentityBoundary` (the rule), `BindingReconciler` (the steps) |
| Rendering | `internal/identity`, `internal/gaie`, `internal/spirecm`, `*_render.go`, `*_resolver.go` | pure functions of a binding and its pool | `IdentityPlan` |
| Watches and workqueue | `*_watch.go`, `SetupWithManager` | cache, indexes, events under way, queue, timers | `BindingWatch` |
| Status conditions | `*_status.go`, `*_ownership.go` | five conditions with generation, rendered identity, conflicts, configuration; writers in memory, merge patches, rebase | `BindingStatus` |
| Metrics | `*_metrics.go` | labels derived from cached and patched conditions | `BindingStatus` |
| Start-up, configuration | `operator_config.go`, `cmd/kleym-operator` | what is watched and cached; trust domain and class across restarts | partly, in `BindingWatch` and `BindingStatus` |
| Inspection | `internal/inspection` | rendering and Pod matching; configuration, findings and results as functions of the status | `BindingInspection`, `StatusInspection` |
| Command line | `internal/cli` | overriding flags, `--strict`, exit codes | partly, in `StatusInspection` |
| Deep copies | `zz_generated.deepcopy.go` | | generated, not modelled |

Concurrency: the operator is leader-elected and its controller has the default of
one worker, so one reconcile runs at a time. It is interleaved, between any two of
its API calls, with users, other controllers, the SPIRE controller's finalizers,
the watches that fill its cache, failures and restarts. Bindings are read from the
cache; pools and `ClusterSPIFFEID`s are unstructured and read live
(`managerCacheOptions` and the client's defaults).

## Modules

**`IdentityBoundary`** is the rule of `evaluateVariantPair`: whether two identities
compete, and why.

**`IdentityPlan`** renders bindings while users edit bindings and pools and the pool
CRD comes and goes. `Rendered(b)` follows the code's order of checks. Texts are
records of what `TrimSpace` leaves and whether it removed something; label keys,
label values and DNS names are valid if they are in a set. The hash that ends an output
name is a constant function, in `plan` one with collisions. The properties are
stated about workloads, that is Pods with namespace, account and labels, which the
code never sees.

**`BindingReconciler`** is the reconciler. One action is one API call and the local
computation up to the next one; `op.pc` names the call that comes next and
`op.who` the copy of a binding (fetched or listed) a helper works on. Every call
answers `ok`, `fail` (no effect) or `lost` (effect, but an error). `Render` is a
constant function from binding, spec and state of the pools to an identity or an
error, so the module does not depend on how identities are rendered.

| Action | Code |
|---|---|
| `StartReconcile`, `AddFinalizer`, `RenderOwn` | `Reconcile`, `computeDesiredState` |
| `ListBindings`, `LookUpDeleting`, `RenderPeer`, `DecideConflict` | `evaluateBindingConflicts`, `identityForConflictEvaluation` |
| `WithdrawMember`, `ConfirmAbsent`, `WithdrawnAll`, `SettleConflict` | `withdrawConflictOutputs`, `reconcileConflictState` |
| `Observe`, `Confirm`, `Clear`, `Delete` | `listManagedClusterSPIFFEIDs`, `cleanupManagedClusterSPIFFEIDs` and the ownership patches |
| `ObserveDesired`, `Reserve`, `Create`, `UpdateOutput` | `reconcileClusterSPIFFEIDs` and its helpers |
| `RemoveFinalizer`, `PatchStatus`, `CRDMissing` | `reconcileDelete`, `patchStatus`, the no-match paths |
| `DelayCreate`, `LandCreate`, `Crash`, `SyncCache` | a Create that lands late, a restart, the cache catching up |
| `Users`, `Others` | what the API server accepts from anyone else |

Reconciles may start at any time for any cached binding, so safety does not rest on
which events wake the operator.

**`OutputOwnership`** is the abstract specification of the ownership protocol: records,
outputs and two counters, and no copies, caches or program steps. `Reserve`, `Create`,
`Confirm`, `Release` and `Change` are all the operator may do to them; `OthersChange`
and `OthersCreate` are what everyone else may do, in steps that leave the operator's
memory alone. **`OwnershipRefinement`** maps the stored records and objects of
`BindingReconciler` to it (`INSTANCE OutputOwnership WITH`).

**`BindingWatch`** asks which events do wake it. Its reconcile is coarser (fetch, decide,
withdraw, apply, patch status), no call fails except on a stale copy, and the
watches, mapping functions, predicate, workqueue and `RequeueAfter` are explicit.
Whether a copy in memory can still be written is kept as a set (`op.fresh`) in place
of resource versions. A restart wakes every binding and replays no pool or output
events, fewer wake-ups than the real informers give.

**`BindingStatus`** follows the status of one binding field by field. In the other two
modules a status is one value; here it has its five conditions, each with the
generation it was evaluated for, and the two ways of persisting it are kept apart:
`PatchOwnership` sends what differs between two copies in memory, under the optimistic
lock, and `PatchStatus` puts the whole status over whatever the cache returns, or sends
nothing if there is no difference. `InitializeConditions`, `ApplySuccess`,
`ApplyConflict`, `ApplyPendingOutput`, `ApplyFailure` and so on are the writers of
`*_status.go`. Which calls on outputs succeed is left open, so the sequences of writers
include those of the reconciler. `OutcomeLabels` and `Gauge` are the metrics.

**`StatusInspection`** reads such statuses as `kleym inspect binding` and `kleym status`
do: which configuration they resolve, which findings and results they report, and the
exit code. Whether a flag was given is kept apart from its value, as in the code, where an
empty class name that is given overrides the recorded one. The commands change nothing and
read the binding once, so they are operators over the state and over what their other
reads return.

**`BindingInspection`** puts the inspection's own rendering and Pod matching
(`inspectRenderedIdentity`, `matchedPodsFromPods`) beside those of `IdentityPlan`.

`MCSingle`, `MCPair`, `MCPlan`, `MCWatch` and `MCStatus` give the constants values.
The theorems are in `BindingReconcilerProofs` (ownership as stored and as copied),
`PublicationProofs` (what the reconciler publishes and what it leaves behind),
`ExclusionProofs` (that competing bindings have no outputs together),
`OutputOwnership` and `OwnershipProofs` (the promise, and that it is kept),
`IdentityPlanProofs` (rendering, and the inspection beside it), `WatchProofs` (which
copies the operator may write from, and that no wake-up is lost) and `StatusProofs`
(conditions, metrics and the status an inspection reads).

## Runs

| Run | Instance | Result |
|---|---|---|
| `single_faults` | one binding, two specs, cache lag, 2 changes by others, 1 fault, Creates that land late, a shared output name | `NeverAdopts`, `MutationAuthorized`, `ReadyIsConfirmed`, `ImplementsOwnership` hold (2.4M states) |
| `pair_conflicts` | two bindings, competing or unrenderable specs, 1 fault, no lag | `TypeOK`, `ConflictSettlesOnAbsence`, `OwnershipRetained`, `OrphansUnclaimed`, `ReconcilerInvariant`, `PublicationInvariant` hold (1.4M) |
| `pair_exclusive` | two bindings that compete, cache lag, no faults | `ExclusiveOutputs`, `ExclusionInvariant` hold (1.4M) |
| `plan` | two bindings, 9 specs, 6 selectors, 2 edits | `ExclusiveMeansDisjoint`, `RendersIntended`, `RefusesOnlyUnsafe`, `InspectionAgrees`, `MatchedPodsAreSelected` hold (0.3M) |
| `watch` | two bindings, two pools, one variant, 1 change, 1 delete held by another finalizer | `TypeOK`, `NoLostWakeup`, `WatchInvariant`, `UserWritesKept` hold (0.7M) |
| `watch_fair` | two bindings, each absent or settled on a pool of its own, 1 change, 1 delete held by another finalizer, weak fairness | `WakeInvariant`, `Converges` hold (0.2M) |
| `status` | one binding, two specs, two configurations, cache lag, 2 changes, 2 faults or restarts | `StatusTypeOK`, `StatusInvariant`, `ReadyIsCurrent`, `OnePrimaryFailure`, `ShownWithItsCondition`, `OutcomesClassified`, `InspectionReproduces`, `OKPassesStrict`, `ResultIsExplained`, `CommandsAgree` hold (0.5M) |
| `single_delete_race` | one binding, no lag | `CreateUnderClaim` is violated |
| `pair_stale_conflict` | two bindings, cache lag | `ConflictSettlesOnAbsence` is violated |
| `pair_edited` | two bindings, two variants, no lag | `ExclusiveOutputs` is violated |
| `watch_overtaken` | output events may overtake binding events | `NoLostWakeup` is violated |
| `status_stale` | the instance of `status` | `SuccessIsPublished` is violated |

### Bounds

`MaxMoves` bounds what users and others change, `MaxFaults` failed, unanswered or
late calls and crashes, `MaxEdits` the edits in `plan`, `MaxLag` the binding events
under way, `MaxHolds` the deletes another finalizer delays. Reconciles are not
bounded. In the runs of the reconciler bindings may exist before the operator starts, so
no move is spent on creating them: two moves are enough to delete and create again, to
edit and delete, or to replace an object between a read and the write that follows it;
one fault is enough to lose the reply of any one call or to restart between any two.
Two bindings are enough for a conflict; groups of three, where only some pairs compete, are left to
the proofs, which do not bound the number of bindings. `pair_exclusive` exchanges the two
bindings, with the names of their outputs, as a symmetry: no action orders bindings or
names. In `status`
two changes and two faults are enough to create and edit a binding, lose the reply of
one patch and restart with another configuration before the next; its specs are
symmetric, since no action compares them with anything but equality. The binding is
absent at first, so a second incarnation of it takes three changes and is left to
`StatusProofs`, which bounds none of this.

`watch_fair` starts from bindings that are absent or have come to rest on pools of their
own (`Settled`), because from there one change leads furthest: a pool that is deleted
breaks its binding, whose output the other finalizer holds, so that its peer is blocked,
withdraws and waits on its timer, and comes back when the output is gone. `Edits = FALSE`
leaves edits of a spec out of this run; `watch` has them, for safety.

Deadlock checking is off where the system may rightly come to rest, when no binding
exists or nothing is left to do and the bounds are used up. `plan` checks it.

### Fairness

`watch_fair` assumes weak fairness of: taking a request off the queue, every step of
the worker, the delivery of binding, pool and output events, the expiry of timers,
and the removal of finalizers by their owners. client-go's informers, delaying queue
and worker loop provide the first ones; the last is the SPIRE controller's (or any
other finalizer owner's) duty. Nothing is assumed of users. Changes are bounded, so
`Converges` says what happens once they stop.

The passing watch runs also assume that the event of an output reaches the mapping
function only when no event of the output's own binding is under way, so that the cache
shows what is stored of it (`Overtaking = FALSE`). That is more than the order in which
the two were written would ask, and less than waiting for the events of other bindings.
Two independent watches guarantee neither;
`watch_overtaken` shows what can happen without it.

## What the failing runs show

1. `single_delete_race` (`conflict.go:87`). A reconcile fetches a binding that has a
   pending claim. The binding is deleted, and the List of the same reconcile already
   shows it so. Looking up the listed copy finds no output and clears the claim in
   the API; the reconcile goes on with the fetched copy, which still holds it, and
   creates the output. The confirming patch conflicts, and finalization finds an
   unclaimed binding. `docs/spec/operator.md:155` requires the stored claim.
2. `pair_stale_conflict` (`conflict.go:182`). A listed copy without a record counts as
   absent output without a read. With a lagging cache, `Conflict=True` is published
   while a member has output. `operator.md:132` says absence is confirmed first.
3. `pair_edited` (`conflict.go:99`). Peers take part with the identity their spec
   declares now. A binding edited to another variant no longer competes, though its
   old output is live until its own reconcile withdraws it. `operator.md:237`.
4. `watch_overtaken` (`watch.go:208`). The create event of an output comes before the
   cache shows its record, and wakes nobody. The pool is deleted; the reconcile that
   follows still works from a copy without the record and withdraws nothing;
   `patchStatus` then rebases the state error onto the newer binding that has the
   record. That update is status-only and filtered. The output stays although its
   pool is gone, until some other event of the namespace. `operator.md:134`,
   `docs/design/reconciliation.md:40`.

5. `status_stale` (`status.go:237`). A binding is Ready. A reconcile finds a conflict
   whose outputs are not yet gone and stores the pending status, which shows no rendered
   output. The peer goes away. The next reconcile fetches the copy from before that
   write and finds its own output still there, if only because another finalizer holds
   the deleted object, which counts as matched all the same; so it succeeds. `patchStatus`
   compares with the same old copy, finds no difference and sends nothing: the outcome
   counts as Ready while the stored status says pending, and the status-only event that
   follows is filtered. `operator.md:180`.

Weaker observations, without a run of their own:

- `docs/design/reconciliation.md:34` says a pool change requeues only bindings that
  reference the pool. The code requeues the whole namespace if one does, and has to:
  the mutant `PoolReferences` of `watch` loses wake-ups.
- A pending record is cleared on NotFound (`spiffe.go:253`). If its Create is still
  under way and lands afterwards, no record leads to the object. `OwnershipRetained`
  and `OrphansUnclaimed` are therefore claimed only without late Creates.
- `NoOrphan`, that a record leads to every output of the operator's, is not claimed as
  it stands. Apart from Creates that land late, a Create whose claim is no longer stored
  breaks it. Finding 1 is one way there: one failure or crash leaves the claim pending,
  and the race with the deletion does the rest. A cached copy that is still pending after
  its claim was cleared is another (edit between reserve and confirm, pool gone and back,
  with a lagging cache). There is no other: see `NothingLost` and `NoOrphans` below.
- A peer with a blank `poolRef` fails every reconcile of its namespace that reaches
  the evaluation (`render.go:58`); a peer that cannot be rendered but has output makes
  all others withdraw theirs (`conflict.go:69`) until that output is gone.
- `kleym status` reads the operator's arguments and not its environment
  (`status.go:292` of the inspection). With the arguments of the shipped Deployment, a
  trust domain and no class (`config/manager/manager.yaml:46`), it takes the class as
  empty whatever the bindings record, so a class set by environment variable is reported
  as unset. `CommandsAgree` leaves out this one case; with any other arguments the report
  agrees with that of an inspection.
- `docs/spec/cli.md:73` says `kleym status` takes the configuration "from binding status,
  with operator Deployment args as fallback". The code reads the arguments first and
  fills only what they leave open from the statuses (`ReportedConfig`).

## Proofs

All theorems hold for every value of the constants that satisfies
`ConstantsAssumption`, `PlanAssumption`, `WatchAssumption` or `StatusConstants`: any
number of bindings, specs, names, configurations, changes and faults. `RecordAssumption`
says that an empty record is none of the records. `PlanAssumption` asks that the
workloads include one for every account and every set of valid labels, since
`RendersIntended` says that a rendered identity can be received.

| Module | Theorem | States |
|---|---|---|
| `BindingReconcilerProofs` | `Invariance` | `Spec => []ReconcilerInvariant` |
| | `TypeCorrect` | `Spec => []TypeOK`, the validation rules of the stored record included |
| | `Authorization` | `Spec => MutationAuthorized` |
| | `Retention` | `~LateCreates => (Spec => OwnershipRetained)` |
| `PublicationProofs` | `Publication` | `Spec => []PublicationInvariant` |
| | `ReadyOnConfirmed` | `Spec => ReadyIsConfirmed` |
| | `ConflictOnAbsence` | `~CacheLag => (Spec => ConflictSettlesOnAbsence)` |
| | `NothingLost` | `~LateCreates => (Spec => OrphansUnclaimed)` |
| | `NoOrphans` | `~LateCreates => (Spec /\ CreateUnderClaim => []NoOrphan)` |
| | `NoAdoption` | `Spec => []NeverAdopts` |
| `OutputOwnership` | `OwnersMadeClaims` | the abstract specification implies `[]OwnerMadeClaim` |
| `OwnershipProofs` | `Implementation` | `Spec => ImplementsOwnership` |
| `ExclusionProofs` | `Exclusion` | `~LateCreates => (Spec /\ CreateUnderClaim => []ExclusionInvariant)` |
| | `ExclusiveIdentities` | `~LateCreates /\ FixedRivalry => (Spec /\ CreateUnderClaim => []ExclusiveOutputs)` |
| `IdentityPlanProofs` | `Exclusivity` | `Spec => []ExclusiveMeansDisjoint` |
| | `IntendedReached` | `Spec => RendersIntended` |
| | `OnlyUnsafeRefused` | `Spec => RefusesOnlyUnsafe` |
| | `InspectionFaithful` | `Spec => []InspectionAgrees` |
| | `MatchedPodsFaithful` | `Spec => []MatchedPodsAreSelected` |
| `WatchProofs` | `WatchInductive` | `Spec => []WatchInvariant` |
| | `WatchTypes` | `Spec => []TypeOK` |
| | `UserWrites` | `Spec => UserWritesKept` |
| | `WakeInductive` | `~Overtaking => (Spec => []WakeInvariant)` |
| | `WakeUps` | `~Overtaking => (Spec => []NoLostWakeup)` |
| `StatusProofs` | `StatusInductive` | `StatusSpec => []StatusInvariant` |
| | `StatusTypes`, `ReadyStatusIsCurrent`, `FailureIsPrimary`, `OutputShownWithReady` | `[]StatusTypeOK`, `[]ReadyIsCurrent`, `[]OnePrimaryFailure`, `[]ShownWithItsCondition` |
| | `MetricsClassify` | `StatusSpec => []OutcomesClassified` |
| | `InspectionRenders`, `StrictInspection` | `[]InspectionReproduces`, `[]OKPassesStrict` |
| | `StatusResultExplained`, `ConfigReported` | `[]ResultIsExplained`, `[]CommandsAgree` |

### Ownership

`MutationAuthorized` speaks of the record in the API server, while the operator acts
on copies that may be old. `ReconcilerInvariant` closes that gap. `Copies`: a copy
has an earlier resource version or is exact, and an incarnation it records as
confirmed is gone unless the stored record is still the same; this survives patches
from stale copies because of the optimistic lock, and recreated objects because UIDs
are fresh. `Shape`: the record a helper was entered with, by program step.
`StoredOK`: records exist only under the finalizer, so a binding cannot disappear with
one. `Pursued`: a record about to be cleared matches no object the operator created,
and one about to be confirmed matches no other object than the one seen. Each action
has a named step that it preserves the invariant; the steps are grouped by what they
write, in four lemmas (`EnvironmentOK`, `EvaluationOK`, `RecordingOK`, `OutputOK`).
`pair_conflicts` checks the same invariant with TLC.

`Implementation` needs one more fact, `Traced`: the object about to be confirmed still
carries the claim of the record if it is still the incarnation that was seen, and a
Create under way is for an object of the operator's own. `RefinementInvariant` is
`ReconcilerInvariant` with `Traced`. Each action then has a lemma that names the abstract
step it takes: a patch of the record is a `Reserve`, `Confirm` or `Release` because the
optimistic lock makes the copy it started from the stored one; a call on an output is a
`Create` or a `Change`; everything else leaves records and outputs alone. A late Create
is a `Create` of its own. With `Late` the abstract `Release` allows what the code does
not prevent, the loss of an object that lands after its record was cleared.
`OwnersMadeClaims` is proved of the abstract specification alone, where no copies are in
the way. `NoAdoption` is the same promise for the objects themselves. It is proved from
`RefinementInvariant` directly: `Kept` says what a step may do to a record, and a record
that a step confirms names an object with the claim the record had.

### Publication

`ReadyIsConfirmed` and `ConflictSettlesOnAbsence` compare a status with records that were
read many calls earlier. `PublicationInvariant`, `Publishes(op, StoredRecords)`, says what
the operator's memory means for the stored records in between. It follows the program:
until the conflict is decided there are no members (`Gathering`); an output that is about
to be updated, or reported as ready, has its record confirmed under the planned name;
and, without cache lag, the listed copies carry the stored records while the conflict is
worked on (`ListHolds`), the members that the second loop of `withdrawConflictOutputs` is
done with have no record (`Swept`), and neither has any member when the conflict is about
to be reported. The exception in `ListHolds` is the member whose record is changed
through the fetched copy while the listed one stays behind; it can only be one if a
peer blocks, and then the conflict is not reported as settled. `ConflictOnAbsence`
has the hypothesis `~CacheLag` because it is false without it (`pair_stale_conflict`).
The proof has a named step per action that says where the action leaves the operator (at a
step without obligations, inside a helper, between two helpers) and uses
`ReconcilerInvariant` for what the helpers find. `pair_conflicts` checks the invariant.

`NothingLost` is an action property: an output that a stored record reaches stays within
reach, and an output created under the stored claim is within reach at once. It follows
from `Retention`'s argument and from the finalizer, which keeps the binding as long as it
has a record. `NoOrphans` draws the conclusion for all states. Its hypothesis
`CreateUnderClaim` is what `single_delete_race` refutes, so the theorem is conditional: it
says that repairing that one step is enough.

### Exclusion

That no two registered identities compete depends on one reconcile at a time, on a list
of copies it made long before, and on peers that may have changed since.
`ExclusionInvariant` says what each step knows. About the state alone: rivals, bindings
that compete under all their specs, do not have outputs together (`OutputsOK`), and the
cache, whatever else it misses, lists every binding with a record and shows the record
and the output of one it lists as being deleted (`ShownOK`). About the reconcile under
way (`Weighed`): while the evaluation goes through the list, a rival left out of it has
no output (`Balanced`); from the decision to the Create, the binding has no rival with
an output (`Unopposed`). Neither survives by itself a deletion or re-creation of the binding
during its own reconcile; the way out is `Doomed`: the fetched copy has then been
overtaken and its pending record is no longer the stored one, so that the optimistic
lock refuses every patch and no Create happens under the stored claim.

Each hypothesis excludes something the code does not: a Create that lands late is not
known to any evaluation; a Create from a copy whose claim was cleared (finding 1) is not
`Doomed` to do nothing; and an edit can make two bindings compete whose outputs already
exist (`pair_edited`), which is what `FixedRivalry` leaves out. The theorems say that there
is no fourth way. Cache lag, lost replies, restarts and groups of any size are included.

### Rendering and inspection

`Exclusivity` rests on a lemma that every rendered identity carries its namespace,
account and variant selectors; two that do not compete differ in account or variant,
and no Pod has two values of either. `PlanInvariant` says that of every result. For
`IntendedReached` and `OnlyUnsafeRefused` the selectors that are rendered are shown to be
satisfied by exactly the workloads that carry the binding's account, its variant and the
pool's labels. `InspectionFaithful` goes through the cases of both orders of checks;
`MatchedPodsFaithful` shows that turning the rendered selectors back into labels loses
nothing.

### Watches

The operator writes whole bindings from copies while users edit them. `UserWritesKept`
says that no step of the operator takes back a spec or a deletion, brings a binding back,
or removes one that is not being deleted or whose recorded output still exists.
`WatchInvariant` adds to the type invariant what makes a copy safe to write. `Streamed`:
the last event under way of a binding carries its stored state, and if there is none the
cache shows it. `Remembered`: a copy in memory that counts as fresh is the stored binding,
and a finalizer is removed only from a copy that is being deleted. The proof shows once
that appending the events of a write, in whatever order, keeps `Streamed` (`StoreStep`),
and then takes the actions one by one. Neither fact depends on `Overtaking`.

`NoLostWakeup` speaks of states in which nothing is left to do, so by itself it says
nothing about the steps that lead there. `WakeInvariant`, which holds in every state, says
for each binding in the cache what keeps it from being forgotten (`Settling`): it has what
the cache calls for (`Right`), or it is queued, has a timer or is under reconcile, or its
recorded output is dying or has an event under way, or a deletion or a pool event will
queue every binding (`Restless`). For this to be inductive more has to be known.

- `SoundCopies`: what holds of a copy of a binding however old it is; a record is only
  kept under the finalizer, and names an output of the binding.
- `Recorded`: an output is the recorded one of its binding, so a binding has at most one.
- `LeadingCopies`: a copy in the cache or under way shows the record of an output that
  exists, unless the event of that output is still under way. This is what an event that
  overtakes breaks: it is mapped through a cache that does not show the record yet.
- `VisibleEvents`: between two states of a binding that the cache shows one after the
  other, an edit of the spec passes the predicate of the watch.
- `Decided`: a reconcile rests on a copy and a decision that the cache still supports, or
  every binding is queued anyway. A deletion, a pool event or a change of a peer between
  the decision and the steps that follow it queues every binding (`Alarmed`).
- `Finalized`: a deletion that the cache shows is queued, timed or under reconcile until
  the event of the removal is under way.

The proof takes the actions one by one. For a reconcile that returns without a timer or a
retry it shows that what it withdrew is gone, dying or announced (`WithdrawnSettles`), and
that what it applied is of the current version of the pool (`WakeApplied`). When nothing
is left to wake the reconciler, the cache is what is stored and only `Right` remains.
Without `~Overtaking` the theorem is false, as `watch_overtaken` shows; the hypothesis is
used in one place, the delivery of an output event.

### Status

None of the status properties is inductive: a stored status is the result of patches
computed from copies, so what was copied must be known too. `StatusInvariant` has three
parts. Each status, stored, cached or in memory, is `Written`, that is, has the shape
that some one writer gives it. A copy marked fresh is the stored binding, and what the
copy in memory says of spec, generation and configuration is so (`Follows`, `Working`).
And what a status shows for the current generation belongs to the current spec
(`ShowsStored`). The central lemmas are that each writer leaves a `Written` status, and
that a merge patch does too (`MergeWritten`): it sends a status that is not ready whole,
or only what lies beside the conditions, provided the copy it is computed from is the
stored one, which the optimistic lock ensures. Metrics, inspection and `kleym status` read a status
that satisfies this; their theorems follow without another induction.

### Only model-checked

- `Converges` and the fairness it needs: liveness is out of the prover's reach.
- `CreateUnderClaim` and `SuccessIsPublished`, which are false of the code.

## Not modelled

Events and logs, and the wording of messages and findings beyond which writer they come
from; the layout of reports, flag parsing, TLS and probes, which are plain I/O; errors of
List calls inside mapping functions; a start without the `ClusterSPIFFEID` CRD (its watch
is then never added); several namespaces, which share nothing but the cluster-scoped names of
outputs; the table of supported pool versions, which has one entry; the sums of metrics
over bindings, which the client library forms.

Limits of what is modelled:

- `SyncCache` of `BindingReconciler` and `BindingStatus` brings the cache to the newest
  stored state at once. A reconcile works on copies of any age, but two different stale
  versions are never seen one after the other; `BindingWatch`, which delivers the events
  of each binding one by one, has that.
- `Others` create, edit, delete and replace `ClusterSPIFFEID`s and hold them by finalizers.
  They do not change the claim annotation of an object in place. The code trusts that
  annotation only while a claim is pending, and UIDs afterwards; someone who strips it in
  between makes the operator treat its own object as foreign.
- Output names may collide in `IdentityPlan`, where no property rests on their being
  distinct. In `BindingReconciler` the names come from `Render`, and the proofs ask nothing
  of it; to a binding whose name is taken by another one's output that output is foreign,
  which `single_faults` has with objects of others (`NeverAdopts`).

`BindingStatus` follows one binding: its peers appear only as what they do to its record.

## Plan

1. `Render` of the reconciler taken from `IdentityPlan` instead of a constant.
2. Watches: edits of specs in the liveness run, a start without CRDs.
3. Proofs: which orders of events `NoLostWakeup` survives, in place of `~Overtaking`.
