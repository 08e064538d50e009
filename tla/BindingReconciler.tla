------------------------- MODULE BindingReconciler -------------------------
(***************************************************************************)
(* The InferenceIdentityBinding reconciler of kleym-operator               *)
(* (internal/controller) against the Kubernetes API.                       *)
(*                                                                         *)
(* One action is one call to the API server together with the local        *)
(* computation that follows it, up to the next call: users, other          *)
(* controllers and failures interleave between any two calls.  The         *)
(* operator runs one worker (SetupWithManager leaves                       *)
(* MaxConcurrentReconciles at its default, and the manager is              *)
(* leader-elected), so its memory is one record `op', lost in a crash.     *)
(*                                                                         *)
(* Bindings are read from the manager's cache, which may lag behind the    *)
(* API server; pools and ClusterSPIFFEIDs are unstructured and read live.  *)
(***************************************************************************)
EXTENDS Naturals, FiniteSets, IdentityBoundary

CONSTANTS
    Bindings,       \* the InferenceIdentityBindings of one namespace
    Specs,          \* binding specs a user may declare
    Pools,          \* states of the referenced InferencePools
    Names,          \* names of ClusterSPIFFEIDs
    Plans,          \* rendered identities: records with name, id, sa, variant, sel
    StateErrors,    \* why a binding cannot be rendered (errors carrying a condition)
    BlankPoolRef,   \* spec.poolRef that BindingPoolRef refuses
    Render,         \* [Bindings -> [Specs -> [Pools -> outcome of rendering]]]
    NoPlan, NoBinding,
    Main,           \* the copy of the binding that Reconcile fetched
    CacheLag,       \* whether the cache may lag behind the API server
    SharedNames,    \* names under which others create and delete ClusterSPIFFEIDs too
    LateCreates,    \* whether a Create reported as failed may take effect later
    MaxMoves,       \* bound on the changes users and other controllers make
    MaxFaults       \* bound on failed or unanswered calls, and crashes

ASSUME ConstantsAssumption ==
    /\ NoBinding \notin Bindings
    /\ Main \notin Bindings
    /\ NoPlan \notin Plans
    /\ Plans \cap (StateErrors \cup {BlankPoolRef}) = {}
    /\ \A p \in Plans : p.name \in Names
    /\ Render \in [Bindings -> [Specs -> [Pools -> Plans \cup StateErrors \cup {BlankPoolRef}]]]
    /\ "" \notin Names
    /\ Specs # {}
    /\ SharedNames \subseteq Names
    /\ MaxMoves \in Nat
    /\ MaxFaults \in Nat
    /\ CacheLag \in BOOLEAN
    /\ LateCreates \in BOOLEAN

VARIABLES
    live,       \* the bindings as the API server stores them
    cache,      \* the bindings as the manager's cache shows them
    object,     \* the ClusterSPIFFEIDs as the API server stores them, by name
    pool,       \* the state of the InferencePools
    inflight,   \* Creates reported as failed that may still take effect
    nextUid,    \* next object UID the API server hands out
    nextClaim,  \* next ownership claim (uuid.NewUUID in the code)
    op,         \* the operator's memory
    moves,      \* changes made so far by users and other controllers
    faults      \* failures so far

vars == <<live, cache, object, pool, inflight, nextUid, nextClaim, op, moves, faults>>

-----------------------------------------------------------------------------
(* Stored data. *)

NoClaim == [by |-> NoBinding, no |-> 0]

\* status.pendingClusterSPIFFEID and status.ownedClusterSPIFFEID: at most one
\* of the two is set, so the durable ownership record has one of three kinds.
Unclaimed == [kind |-> "unclaimed", name |-> "", claim |-> NoClaim, uid |-> 0]

Pending(n, c) == [kind |-> "pending", name |-> n, claim |-> c, uid |-> 0]

Confirmed(n, u) == [kind |-> "confirmed", name |-> n, claim |-> NoClaim, uid |-> u]

\* A binding: its spec, deletionTimestamp, finalizer, ownership record, and the
\* status that was last written.  The writers of the status set all conditions
\* together, so `cond' names the writer and `shown' the rendered identity that
\* status reports.  `rv' is the resourceVersion.
AbsentBinding(rv) ==
    [there |-> FALSE, spec |-> CHOOSE s \in Specs : TRUE, deleting |-> FALSE, fin |-> FALSE,
     rec |-> Unclaimed, cond |-> "New", shown |-> NoPlan, rv |-> rv]

\* A ClusterSPIFFEID: `body' is the identity its spec registers (NoPlan: any
\* other spec), `own' tells the operator's own Create from anyone else's,
\* `held' that another finalizer keeps it, `dying' that it is being deleted.
AbsentObject ==
    [there |-> FALSE, uid |-> 0, claim |-> NoClaim, body |-> NoPlan, own |-> FALSE,
     held |-> FALSE, dying |-> FALSE]

\* The operator between two reconciles.
IdleOp ==
    [pc |-> "idle", key |-> NoBinding, main |-> AbsentBinding(0),
     list |-> [b \in Bindings |-> AbsentBinding(0)],
     plan |-> NoPlan, plans |-> [b \in Bindings |-> NoPlan], blocked |-> {},
     members |-> {}, todo |-> {}, who |-> Main, mode |-> "", ret |-> "",
     seen |-> AbsentObject, want |-> "New"]

-----------------------------------------------------------------------------
(* The operator's memory. *)

\* The copy of a binding a helper was handed: the fetched one, or one from a List.
Copy(o, x) == IF x = Main THEN o.main ELSE o.list[x]

\* The binding that copy is a copy of.
Target(x) == IF x = Main THEN op.key ELSE x

WithCopy(o, x, b) ==
    IF x = Main THEN [o EXCEPT !.main = b] ELSE [o EXCEPT !.list = [@ EXCEPT ![x] = b]]

\* Bindings as the cache returns them.
Cached(b) == IF CacheLag THEN cache[b] ELSE live[b]

\* classify, for a record that is not unclaimed: does the object found under
\* the recorded name belong to it?  A pending record matches by the claim
\* annotation, a confirmed one by UID.
Matches(rec, o) ==
    /\ o.there
    /\ \/ rec.kind = "pending" /\ o.claim = rec.claim
       \/ rec.kind = "confirmed" /\ o.uid = rec.uid

-----------------------------------------------------------------------------
(* What the operator does next, as a function of its memory o. *)

\* Every reconcile path but an early return ends by patching the status of the
\* binding; the locals of the other phases are out of scope by then.
Finish(o, cond) ==
    [IdleOp EXCEPT !.pc = "status", !.key = o.key, !.main = o.main, !.plan = o.plan,
                   !.want = cond]

\* patchManagedOutputApplyFailureStatus, after a call that failed.
ApplyFailed(o) == Finish(o, "ApplyFailed")

\* evaluateBindingConflicts goes on with the next listed binding.
NextPeer(o) == [o EXCEPT !.pc = "evaluate", !.todo = @ \ {o.who}, !.seen = AbsentObject]

\* listManagedClusterSPIFFEIDs returned to its caller with an object still there
\* (found) or none.  Where the callers clear the ownership record once more
\* after an empty list, the list has already cleared it.
Listed(o, found) ==
    CASE o.ret = "finalize" ->          \* reconcileDelete
            IF found THEN IdleOp ELSE [o EXCEPT !.pc = "removeFinalizer"]
      [] o.ret = "stateError" ->        \* applyStateError
            Finish(o, "StateError")
      [] o.ret = "rename" ->            \* cleanupChangedClusterSPIFFEIDName
            IF found THEN Finish(o, "PendingReplacement") ELSE [o EXCEPT !.pc = "apply"]
      [] o.ret = "deletingPeer" ->      \* identityForConflictEvaluation
            IF found THEN [o EXCEPT !.pc = "renderPeer"] ELSE NextPeer(o)
      [] o.ret = "brokenPeer" ->        \* identityForConflictEvaluation
            NextPeer([o EXCEPT !.blocked = IF found THEN @ \cup {o.who} ELSE @])
      [] OTHER ->                       \* withdrawConflictOutputs
            IF found THEN Finish(o, "PendingConflict")
                     ELSE [o EXCEPT !.pc = "confirmAbsent", !.todo = @ \ {o.who}]

\* listManagedClusterSPIFFEIDs on copy x, on behalf of `ret'.  Without a record
\* there is no name to look up, and no call.
ListManaged(o, x, ret) ==
    LET call == [o EXCEPT !.pc = "observe", !.who = x, !.mode = "list", !.ret = ret]
    IN  IF Copy(o, x).rec.kind = "unclaimed" THEN Listed(call, FALSE) ELSE call

\* cleanupManagedClusterSPIFFEIDs returned.  Its callers then list what is left,
\* withdrawConflictOutputs only after it has cleaned up all members.
CleanedUp(o) ==
    IF o.ret = "withdraw"
    THEN [o EXCEPT !.pc = "withdraw", !.todo = @ \ {o.who}]
    ELSE ListManaged(o, o.who, o.ret)

\* cleanupManagedClusterSPIFFEIDs on copy x, on behalf of `ret'.
CleanUp(o, x, ret) ==
    LET call == [o EXCEPT !.pc = "observe", !.who = x, !.mode = "cleanup", !.ret = ret]
    IN  IF Copy(o, x).rec.kind = "unclaimed" THEN CleanedUp(call) ELSE call

\* The ownership record agrees with the observation again: the recorded object is
\* there (found) and confirmed, or the record is clear.
Settled(o, found) ==
    CASE o.mode = "cleanup" -> IF found THEN [o EXCEPT !.pc = "delete"] ELSE CleanedUp(o)
      [] o.mode = "list"    -> Listed(o, found)
      [] o.mode = "apply"   -> IF found THEN [o EXCEPT !.pc = "update"]
                               ELSE IF o.seen.there THEN ApplyFailed(o)
                               ELSE [o EXCEPT !.pc = "reserve"]
      [] OTHER              -> Finish(o, "Ready")   \* confirmed after Create

-----------------------------------------------------------------------------
(* Calls. *)

\* A call is answered ("ok"), fails without effect ("fail"), or takes effect and
\* is reported as failed ("lost").
Replies == {"ok", "fail", "lost"}

Answer(r) ==
    \/ r = "ok" /\ UNCHANGED faults
    \/ r # "ok" /\ faults < MaxFaults /\ faults' = faults + 1

\* Mutant of PatchOwnership: the patch is sent without the resourceVersion.
PatchWithoutLock(r, new, next) ==
    /\ Answer(r)
    /\ live' = IF r # "fail" THEN [live EXCEPT ![Target(op.who)] = new] ELSE live
    /\ op' = IF r = "ok" THEN next ELSE ApplyFailed(op)

\* patchOwnershipStatus on copy op.who: it stores `new' if that copy is of the
\* current resourceVersion, and on success the operator goes on as `next'.  A
\* failed patch leaves the copy as it was.
PatchOwnership(r, new, next) ==
    LET b == Target(op.who)
        current == Copy(op, op.who).rv = live[b].rv
    IN  /\ Answer(r)
        /\ live' = IF current /\ r # "fail" THEN [live EXCEPT ![b] = new] ELSE live
        /\ op' = IF current /\ r = "ok" THEN next ELSE ApplyFailed(op)

\* The binding of copy op.who as stored with another ownership record.
Recorded(rec) == [live[Target(op.who)] EXCEPT !.rec = rec, !.rv = @ + 1]

-----------------------------------------------------------------------------
(* Reconcile: fetch, finalizer, rendering. *)

\* Mutant of StartReconcile: Reconcile goes on without adding the finalizer.
StartWithoutFinalizer(b) ==
    /\ op.pc = "idle"
    /\ Cached(b).there
    /\ ~(Cached(b).deleting /\ ~Cached(b).fin)
    /\ LET o == [IdleOp EXCEPT !.key = b, !.main = Cached(b)]
       IN  op' = IF o.main.deleting THEN CleanUp(o, Main, "finalize") ELSE [o EXCEPT !.pc = "render"]
    /\ UNCHANGED <<live, cache, object, pool, inflight, nextUid, nextClaim, moves, faults>>

\* Reconcile fetches the binding (phases 1 and 2).  A binding that is being
\* deleted goes to reconcileDelete, which leaves one without finalizer alone.
StartReconcile(b) ==
    /\ op.pc = "idle"
    /\ Cached(b).there
    /\ ~(Cached(b).deleting /\ ~Cached(b).fin)
    /\ LET o == [IdleOp EXCEPT !.key = b, !.main = Cached(b)]
       IN  op' = CASE o.main.deleting -> CleanUp(o, Main, "finalize")
                   [] ~o.main.deleting /\ o.main.fin -> [o EXCEPT !.pc = "render"]
                   [] OTHER -> [o EXCEPT !.pc = "addFinalizer"]
    /\ UNCHANGED <<live, cache, object, pool, inflight, nextUid, nextClaim, moves, faults>>

\* Phase 3: Update adds the finalizer.
AddFinalizer(r) ==
    /\ op.pc = "addFinalizer"
    /\ Answer(r)
    /\ LET b == op.key
           current == op.main.rv = live[b].rv
           new == [live[b] EXCEPT !.fin = TRUE, !.rv = @ + 1]
       IN  /\ live' = IF current /\ r # "fail" THEN [live EXCEPT ![b] = new] ELSE live
           /\ op' = IF current /\ r = "ok" THEN [op EXCEPT !.pc = "render", !.main = new] ELSE IdleOp
    /\ UNCHANGED <<cache, object, pool, inflight, nextUid, nextClaim, moves>>

\* Phase 4: bindingIdentityVariant and computeDesiredState, reading the pool.
\* Every error of theirs that carries a condition asks for cleanup.
RenderOwn(r) ==
    /\ op.pc = "render"
    /\ r # "lost"
    /\ Answer(r)
    /\ LET outcome == Render[op.key][op.main.spec][pool]
       IN  op' = IF r = "fail" THEN IdleOp
                 ELSE IF outcome \in Plans THEN [op EXCEPT !.pc = "list", !.plan = outcome]
                 ELSE CleanUp(op, Main, "stateError")
    /\ UNCHANGED <<live, cache, object, pool, inflight, nextUid, nextClaim, moves>>

-----------------------------------------------------------------------------
(* reconcileConflictState. *)

\* evaluateBindingConflicts lists the bindings of the namespace.
ListBindings ==
    /\ op.pc = "list"
    /\ op' = [op EXCEPT !.pc = "evaluate", !.list = [b \in Bindings |-> Cached(b)],
                        !.todo = {b \in Bindings : Cached(b).there}]
    /\ UNCHANGED <<live, cache, object, pool, inflight, nextUid, nextClaim, moves, faults>>

\* Mutant of LookUpDeleting: a binding that is being deleted no longer competes.
SkipDeleting(peer) ==
    /\ op.pc = "evaluate"
    /\ peer \in op.todo
    /\ op.list[peer].deleting
    /\ op' = NextPeer([op EXCEPT !.who = peer])
    /\ UNCHANGED <<live, cache, object, pool, inflight, nextUid, nextClaim, moves, faults>>

\* identityForConflictEvaluation looks up the output of a listed binding that is
\* being deleted, the current binding included.
LookUpDeleting(peer) ==
    /\ op.pc = "evaluate"
    /\ peer \in op.todo
    /\ op.list[peer].deleting
    /\ op' = ListManaged(op, peer, "deletingPeer")
    /\ UNCHANGED <<live, cache, object, pool, inflight, nextUid, nextClaim, moves, faults>>

\* identityForConflictEvaluation of any other listed binding, or of a deleting one
\* whose output is there.  The current binding takes part with the identity already
\* rendered, a peer is rendered from its listed copy.  A peer that cannot be rendered
\* blocks while its output is there; a peer whose poolRef is refused ends the
\* evaluation, because renderIdentityForBinding returns that error without a condition.
RenderPeer(peer, r) ==
    /\ \/ op.pc = "evaluate" /\ peer \in op.todo /\ ~op.list[peer].deleting
       \/ op.pc = "renderPeer" /\ peer = op.who
    /\ r # "lost"
    /\ r = "fail" => peer # op.key
    /\ Answer(r)
    /\ LET outcome == IF peer = op.key THEN op.plan ELSE Render[peer][op.list[peer].spec][pool]
           o == [op EXCEPT !.who = peer]
       IN  op' = IF r = "fail" \/ outcome = BlankPoolRef THEN ApplyFailed(op)
                 ELSE IF outcome \in Plans
                      THEN NextPeer([o EXCEPT !.plans = [@ EXCEPT ![peer] = outcome]])
                      ELSE ListManaged(op, peer, "brokenPeer")
    /\ UNCHANGED <<live, cache, object, pool, inflight, nextUid, nextClaim, moves>>

\* The bindings that compete with the current one, among those that rendered.
Conflicts(o) ==
    ConflictPeers([b \in {p \in Bindings : o.plans[p] # NoPlan} |-> o.plans[b]], o.key)

\* currentBindingConflictState: the copies whose output is withdrawn.  Conflict
\* members are listed copies; a binding that is only blocked enters with the
\* copy Reconcile fetched.
Members(o) ==
    (IF Conflicts(o) # {} THEN Conflicts(o) \cup {o.key}
     ELSE IF o.blocked # {} THEN {Main} ELSE {})
    \cup o.blocked

\* All listed bindings are evaluated.  Without conflicts and blocking peers the
\* reconcile goes on with cleanupChangedClusterSPIFFEIDName, which has nothing to
\* do unless the recorded name is another one.
DecideConflict ==
    /\ op.pc = "evaluate"
    /\ op.todo = {}
    /\ LET free == [IdleOp EXCEPT !.key = op.key, !.main = op.main, !.plan = op.plan]
       IN  op' = IF Members(op) # {}
                 THEN [op EXCEPT !.pc = "withdraw", !.members = Members(op), !.todo = Members(op)]
                 ELSE IF op.main.rec.name \in {"", op.plan.name}
                      THEN [free EXCEPT !.pc = "apply"]
                      ELSE CleanUp(free, Main, "rename")
    /\ UNCHANGED <<live, cache, object, pool, inflight, nextUid, nextClaim, moves, faults>>

\* withdrawConflictOutputs, first loop.
WithdrawMember(m) ==
    /\ op.pc = "withdraw"
    /\ m \in op.todo
    /\ op' = CleanUp(op, m, "withdraw")
    /\ UNCHANGED <<live, cache, object, pool, inflight, nextUid, nextClaim, moves, faults>>

\* Mutant of WithdrawnAll: the deletes are taken for absence.
WithdrawnUnconfirmed ==
    /\ op.pc = "withdraw"
    /\ op.todo = {}
    /\ op' = [op EXCEPT !.pc = "confirmAbsent"]
    /\ UNCHANGED <<live, cache, object, pool, inflight, nextUid, nextClaim, moves, faults>>

\* withdrawConflictOutputs goes from the first loop to the second one.
WithdrawnAll ==
    /\ op.pc = "withdraw"
    /\ op.todo = {}
    /\ op' = [op EXCEPT !.pc = "confirmAbsent", !.todo = op.members]
    /\ UNCHANGED <<live, cache, object, pool, inflight, nextUid, nextClaim, moves, faults>>

\* withdrawConflictOutputs, second loop.
ConfirmAbsent(m) ==
    /\ op.pc = "confirmAbsent"
    /\ m \in op.todo
    /\ op' = ListManaged(op, m, "withdraw")
    /\ UNCHANGED <<live, cache, object, pool, inflight, nextUid, nextClaim, moves, faults>>

\* All outputs are absent: the conflict is settled unless a peer blocks.
SettleConflict ==
    /\ op.pc = "confirmAbsent"
    /\ op.todo = {}
    /\ op' = IF op.blocked # {} THEN Finish(op, "PendingConflict")
             ELSE [Finish(op, "Conflict") EXCEPT !.members = op.members]
    /\ UNCHANGED <<live, cache, object, pool, inflight, nextUid, nextClaim, moves, faults>>

-----------------------------------------------------------------------------
(* listManagedClusterSPIFFEIDs and cleanupManagedClusterSPIFFEIDs. *)

\* Mutant of Observe: an object that is being deleted counts as gone.
ObserveSkippingDying(r) ==
    /\ op.pc = "observe"
    /\ r # "lost"
    /\ Answer(r)
    /\ LET rec == Copy(op, op.who).rec
           o == [op EXCEPT !.seen = object[rec.name]]
       IN  op' = IF r = "fail" THEN ApplyFailed(op)
                 ELSE IF ~Matches(rec, o.seen) \/ o.seen.dying THEN [o EXCEPT !.pc = "clear"]
                 ELSE IF rec.kind = "pending" THEN [o EXCEPT !.pc = "confirm"]
                 ELSE Settled(o, TRUE)
    /\ UNCHANGED <<live, cache, object, pool, inflight, nextUid, nextClaim, moves>>

\* Get of the recorded name.  A pending record that matches is confirmed, one
\* that does not match what is there, or matches nothing, is cleared.
Observe(r) ==
    /\ op.pc = "observe"
    /\ r # "lost"
    /\ Answer(r)
    /\ LET rec == Copy(op, op.who).rec
           o == [op EXCEPT !.seen = object[rec.name]]
       IN  op' = IF r = "fail" THEN ApplyFailed(op)
                 ELSE IF ~Matches(rec, o.seen) THEN [o EXCEPT !.pc = "clear"]
                 ELSE IF rec.kind = "pending" THEN [o EXCEPT !.pc = "confirm"]
                 ELSE Settled(o, TRUE)
    /\ UNCHANGED <<live, cache, object, pool, inflight, nextUid, nextClaim, moves>>

\* Mutant of Confirm: the claim stays beside the UID.
ConfirmKeepingClaim(r) ==
    /\ op.pc = "confirm"
    /\ LET rec == Copy(op, op.who).rec
           new == Recorded([rec EXCEPT !.kind = "confirmed", !.uid = op.seen.uid])
       IN  PatchOwnership(r, new, Settled(WithCopy(op, op.who, new), TRUE))
    /\ UNCHANGED <<cache, object, pool, inflight, nextUid, nextClaim, moves>>

\* confirmClusterSPIFFEIDOwnership: the UID that was observed replaces the claim.
Confirm(r) ==
    /\ op.pc = "confirm"
    /\ LET new == Recorded(Confirmed(Copy(op, op.who).rec.name, op.seen.uid))
       IN  PatchOwnership(r, new, Settled(WithCopy(op, op.who, new), TRUE))
    /\ UNCHANGED <<cache, object, pool, inflight, nextUid, nextClaim, moves>>

\* clearClusterSPIFFEIDOwnership.
Clear(r) ==
    /\ op.pc = "clear"
    /\ LET new == Recorded(Unclaimed)
       IN  PatchOwnership(r, new, Settled(WithCopy(op, op.who, new), FALSE))
    /\ UNCHANGED <<cache, object, pool, inflight, nextUid, nextClaim, moves>>

\* Mutant of Delete: no UID precondition.
DeleteByName(r) ==
    /\ op.pc = "delete"
    /\ Answer(r)
    /\ LET n == Copy(op, op.who).rec.name
       IN  /\ object' = IF r = "fail" \/ ~object[n].there THEN object
                        ELSE IF object[n].held THEN [object EXCEPT ![n].dying = TRUE]
                        ELSE [object EXCEPT ![n] = AbsentObject]
           /\ op' = IF r = "ok" THEN CleanedUp(op) ELSE ApplyFailed(op)
    /\ UNCHANGED <<live, cache, pool, inflight, nextUid, nextClaim, moves>>

\* Delete with the observed UID as precondition.  NotFound counts as success,
\* another object under that name is a failure.  An object another finalizer
\* holds stays, marked as being deleted.
Delete(r) ==
    /\ op.pc = "delete"
    /\ Answer(r)
    /\ LET n == Copy(op, op.who).rec.name
           same == object[n].there /\ object[n].uid = op.seen.uid
       IN  /\ object' = IF r = "fail" \/ ~same THEN object
                        ELSE IF object[n].held THEN [object EXCEPT ![n].dying = TRUE]
                        ELSE [object EXCEPT ![n] = AbsentObject]
           /\ op' = IF r = "ok" /\ (same \/ ~object[n].there) THEN CleanedUp(op)
                    ELSE ApplyFailed(op)
    /\ UNCHANGED <<live, cache, pool, inflight, nextUid, nextClaim, moves>>

\* reconcileDelete: Update removes the finalizer, and with it the binding.
RemoveFinalizer(r) ==
    /\ op.pc = "removeFinalizer"
    /\ Answer(r)
    /\ LET b == op.key
       IN  live' = IF op.main.rv = live[b].rv /\ r # "fail"
                   THEN [live EXCEPT ![b] = AbsentBinding(live[b].rv + 1)] ELSE live
    /\ op' = IdleOp
    /\ UNCHANGED <<cache, object, pool, inflight, nextUid, nextClaim, moves>>

-----------------------------------------------------------------------------
(* reconcileClusterSPIFFEIDs. *)

\* Mutant of ObserveDesired: a pending record accepts whatever has the name.
ObserveDesiredAdopting(r) ==
    /\ op.pc = "apply"
    /\ r # "lost"
    /\ Answer(r)
    /\ LET rec == op.main.rec
           o == [op EXCEPT !.who = Main, !.mode = "apply", !.seen = object[op.plan.name]]
       IN  op' = IF r = "fail" THEN ApplyFailed(op)
                 ELSE CASE rec.kind = "unclaimed" -> Settled(o, FALSE)
                        [] rec.kind = "pending" ->
                             [o EXCEPT !.pc = IF o.seen.there THEN "confirm" ELSE "create"]
                        [] OTHER ->
                             IF Matches(rec, o.seen) THEN Settled(o, TRUE)
                             ELSE [o EXCEPT !.pc = "clear"]
    /\ UNCHANGED <<live, cache, object, pool, inflight, nextUid, nextClaim, moves>>

\* Get of the desired name, which is the recorded one if there is a record, and
\* authorizeManagedOutputApply.
ObserveDesired(r) ==
    /\ op.pc = "apply"
    /\ r # "lost"
    /\ Answer(r)
    /\ LET rec == op.main.rec
           o == [op EXCEPT !.who = Main, !.mode = "apply", !.seen = object[op.plan.name]]
       IN  op' = IF r = "fail" THEN ApplyFailed(op)
                 ELSE CASE rec.kind = "unclaimed" -> Settled(o, FALSE)
                        [] rec.kind = "pending" ->
                             IF Matches(rec, o.seen) THEN [o EXCEPT !.pc = "confirm"]
                             ELSE IF o.seen.there THEN [o EXCEPT !.pc = "clear"]
                             ELSE [o EXCEPT !.pc = "create"]
                        [] OTHER ->
                             IF Matches(rec, o.seen) THEN Settled(o, TRUE)
                             ELSE [o EXCEPT !.pc = "clear"]
    /\ UNCHANGED <<live, cache, object, pool, inflight, nextUid, nextClaim, moves>>

\* reserveClusterSPIFFEIDClaim: a fresh claim is stored, with a status that waits
\* for the output.  A claim that was not stored is forgotten, so it is not counted.
Reserve(r) ==
    /\ op.pc = "reserve"
    /\ LET new == [Recorded(Pending(op.plan.name, [by |-> op.key, no |-> nextClaim]))
                       EXCEPT !.cond = "PendingOutput", !.shown = NoPlan]
       IN  PatchOwnership(r, new, [op EXCEPT !.pc = "create", !.main = new])
    /\ nextClaim' = IF live' = live THEN nextClaim ELSE nextClaim + 1
    /\ UNCHANGED <<cache, object, pool, inflight, nextUid, moves>>

\* The object Create sends.
Desired(uid) ==
    [AbsentObject EXCEPT !.there = TRUE, !.uid = uid, !.claim = op.main.rec.claim,
                         !.body = op.plan, !.own = TRUE]

\* Mutant of Create: Ready is reported without confirming the new UID.
CreateUnconfirmed(r) ==
    /\ op.pc = "create"
    /\ Answer(r)
    /\ LET n == op.plan.name
           effective == r # "fail" /\ ~object[n].there
       IN  /\ object' = IF effective THEN [object EXCEPT ![n] = Desired(nextUid)] ELSE object
           /\ nextUid' = IF effective THEN nextUid + 1 ELSE nextUid
           /\ op' = IF r = "ok" /\ effective THEN Finish(op, "Ready") ELSE ApplyFailed(op)
    /\ UNCHANGED <<live, cache, pool, inflight, nextClaim, moves>>

\* createManagedClusterSPIFFEID: Create fails if the name is taken.
Create(r) ==
    /\ op.pc = "create"
    /\ Answer(r)
    /\ LET n == op.plan.name
           effective == r # "fail" /\ ~object[n].there
       IN  /\ object' = IF effective THEN [object EXCEPT ![n] = Desired(nextUid)] ELSE object
           /\ nextUid' = IF effective THEN nextUid + 1 ELSE nextUid
           /\ op' = IF r = "ok" /\ effective
                    THEN [op EXCEPT !.pc = "confirm", !.mode = "created", !.seen = Desired(nextUid)]
                    ELSE ApplyFailed(op)
    /\ UNCHANGED <<live, cache, pool, inflight, nextClaim, moves>>

\* As Create, for a call that timed out before it took effect.
DelayCreate ==
    /\ LateCreates
    /\ op.pc = "create"
    /\ Answer("lost")
    /\ inflight' = inflight \cup {[name |-> op.plan.name, body |-> Desired(0)]}
    /\ op' = ApplyFailed(op)
    /\ UNCHANGED <<live, cache, object, pool, nextUid, nextClaim, moves>>

\* updateManagedClusterSPIFFEID: Update, under the resourceVersion observed, only if
\* the object is out of sync.
UpdateOutput(r) ==
    /\ op.pc = "update"
    /\ op.seen.body = op.plan => r = "ok"
    /\ Answer(r)
    /\ LET n == op.plan.name
           inSync == op.seen.body = op.plan
           current == object[n].there /\ object[n] = op.seen
       IN  /\ object' = IF ~inSync /\ current /\ r # "fail"
                        THEN [object EXCEPT ![n].body = op.plan] ELSE object
           /\ op' = IF r = "ok" /\ (inSync \/ current) THEN Finish(op, "Ready")
                    ELSE ApplyFailed(op)
    /\ UNCHANGED <<live, cache, pool, inflight, nextUid, nextClaim, moves>>

\* A call for a ClusterSPIFFEID finds that its CRD is not installed: in this phase
\* that is a state error, which cleans up.
CRDMissing ==
    /\ op.pc \in {"apply", "create", "update"}
    /\ op.pc = "update" => op.seen.body # op.plan
    /\ Answer("fail")
    /\ op' = CleanUp(op, Main, "stateError")
    /\ UNCHANGED <<live, cache, object, pool, inflight, nextUid, nextClaim, moves>>

\* patchStatus: the status is rebased onto the cached binding with its ownership
\* record, and nothing is written if that changes nothing.  RetryOnConflict gives
\* up when the cache stays behind.  Observed generations and messages are left out.
PatchStatus(r) ==
    /\ op.pc = "status"
    /\ Answer(r)
    /\ LET b == op.key
           latest == Cached(b)
           shown == IF op.want = "Ready" THEN op.plan ELSE NoPlan
           same == /\ latest.cond = op.want /\ latest.shown = shown
                   /\ op.main.cond = op.want /\ op.main.shown = shown
       IN  live' = IF latest.there /\ ~same /\ latest.rv = live[b].rv /\ r # "fail"
                   THEN [live EXCEPT ![b].cond = op.want, ![b].shown = shown, ![b].rv = @ + 1]
                   ELSE live
    /\ op' = IdleOp
    /\ UNCHANGED <<cache, object, pool, inflight, nextUid, nextClaim, moves>>

-----------------------------------------------------------------------------
(* The environment: crashes, the cache, users, and other controllers. *)

\* The operator restarts; what it held in memory is gone.
Crash ==
    /\ op.pc # "idle"
    /\ Answer("fail")
    /\ op' = IdleOp
    /\ UNCHANGED <<live, cache, object, pool, inflight, nextUid, nextClaim, moves>>

\* The watch brings the cache up to date.
SyncCache ==
    /\ CacheLag
    /\ cache # live
    /\ cache' = live
    /\ UNCHANGED <<live, object, pool, inflight, nextUid, nextClaim, op, moves, faults>>

\* A Create that was given up takes effect, or finds the name taken.
LandCreate(c) ==
    /\ c \in inflight
    /\ inflight' = inflight \ {c}
    /\ IF object[c.name].there
       THEN UNCHANGED <<object, nextUid>>
       ELSE /\ object' = [object EXCEPT ![c.name] = [c.body EXCEPT !.uid = nextUid]]
            /\ nextUid' = nextUid + 1
    /\ UNCHANGED <<live, cache, pool, nextClaim, op, moves, faults>>

Move == moves < MaxMoves /\ moves' = moves + 1

NewBinding(s, rv) == [AbsentBinding(rv) EXCEPT !.there = TRUE, !.spec = s]

CreateBinding(b, s) ==
    /\ Move
    /\ ~live[b].there
    /\ live' = [live EXCEPT ![b] = NewBinding(s, live[b].rv + 1)]
    /\ UNCHANGED <<cache, object, pool, inflight, nextUid, nextClaim, op, faults>>

EditBinding(b, s) ==
    /\ Move
    /\ live[b].there
    /\ live[b].spec # s
    /\ live' = [live EXCEPT ![b].spec = s, ![b].rv = @ + 1]
    /\ UNCHANGED <<cache, object, pool, inflight, nextUid, nextClaim, op, faults>>

\* A binding with the finalizer is only marked as being deleted.
DeleteBinding(b) ==
    /\ Move
    /\ live[b].there
    /\ ~live[b].deleting
    /\ live' = IF live[b].fin
               THEN [live EXCEPT ![b].deleting = TRUE, ![b].rv = @ + 1]
               ELSE [live EXCEPT ![b] = AbsentBinding(live[b].rv + 1)]
    /\ UNCHANGED <<cache, object, pool, inflight, nextUid, nextClaim, op, faults>>

ChangePool(p) ==
    /\ Move
    /\ pool # p
    /\ pool' = p
    /\ UNCHANGED <<live, cache, object, inflight, nextUid, nextClaim, op, faults>>

\* Someone else creates a ClusterSPIFFEID under a name the operator may use.
OthersCreate(n) ==
    /\ Move
    /\ ~object[n].there
    /\ object' = [object EXCEPT ![n] = [AbsentObject EXCEPT !.there = TRUE, !.uid = nextUid]]
    /\ nextUid' = nextUid + 1
    /\ UNCHANGED <<live, cache, pool, inflight, nextClaim, op, faults>>

\* Someone else deletes a ClusterSPIFFEID and restores it from an export: the
\* annotations are the same, the UID is not.
OthersReplace(n) ==
    /\ Move
    /\ object[n].there
    /\ ~object[n].held
    /\ object' = [object EXCEPT ![n].uid = nextUid, ![n].own = FALSE]
    /\ nextUid' = nextUid + 1
    /\ UNCHANGED <<live, cache, pool, inflight, nextClaim, op, faults>>

OthersDelete(n) ==
    /\ Move
    /\ object[n].there
    /\ ~object[n].dying
    /\ object' = IF object[n].held THEN [object EXCEPT ![n].dying = TRUE]
                 ELSE [object EXCEPT ![n] = AbsentObject]
    /\ UNCHANGED <<live, cache, pool, inflight, nextUid, nextClaim, op, faults>>

\* Someone else changes the spec of a ClusterSPIFFEID.
OthersEdit(n) ==
    /\ Move
    /\ object[n].there
    /\ object[n].body # NoPlan
    /\ object' = [object EXCEPT ![n].body = NoPlan]
    /\ UNCHANGED <<live, cache, pool, inflight, nextUid, nextClaim, op, faults>>

\* Another controller puts a finalizer on a ClusterSPIFFEID, and removes it.
OthersHold(n) ==
    /\ Move
    /\ object[n].there
    /\ ~object[n].held
    /\ object' = [object EXCEPT ![n].held = TRUE]
    /\ UNCHANGED <<live, cache, pool, inflight, nextUid, nextClaim, op, faults>>

OthersRelease(n) ==
    /\ object[n].held
    /\ object' = IF object[n].dying THEN [object EXCEPT ![n] = AbsentObject]
                 ELSE [object EXCEPT ![n].held = FALSE]
    /\ UNCHANGED <<live, cache, pool, inflight, nextUid, nextClaim, op, moves, faults>>

-----------------------------------------------------------------------------

\* Bindings may have been there before the operator first started.
Init ==
    /\ live \in [Bindings -> {AbsentBinding(1)} \cup {NewBinding(s, 1) : s \in Specs}]
    /\ cache = live
    /\ object = [n \in Names |-> AbsentObject]
    /\ pool \in Pools
    /\ inflight = {}
    /\ nextUid = 1
    /\ nextClaim = 1
    /\ op = IdleOp
    /\ moves = 0
    /\ faults = 0

Reconcile ==
    \/ \E b \in Bindings : StartReconcile(b) \/ LookUpDeleting(b)
    \/ \E b \in Bindings, r \in Replies : RenderPeer(b, r)
    \/ \E r \in Replies :
          \/ AddFinalizer(r) \/ RenderOwn(r) \/ Observe(r) \/ Confirm(r) \/ Clear(r) \/ Delete(r) \/ RemoveFinalizer(r)
          \/ ObserveDesired(r) \/ Reserve(r) \/ Create(r) \/ UpdateOutput(r) \/ PatchStatus(r)
    \/ ListBindings \/ DecideConflict \/ WithdrawnAll \/ SettleConflict
    \/ \E m \in Bindings \cup {Main} : WithdrawMember(m) \/ ConfirmAbsent(m)
    \/ DelayCreate
    \/ CRDMissing

Users ==
    \/ \E b \in Bindings :
          \/ DeleteBinding(b)
          \/ \E s \in Specs : CreateBinding(b, s) \/ EditBinding(b, s)
    \/ \E p \in Pools : ChangePool(p)

Others ==
    \/ \E n \in SharedNames :
          OthersCreate(n) \/ OthersReplace(n) \/ OthersDelete(n) \/ OthersEdit(n)
    \/ \E n \in Names : OthersHold(n) \/ OthersRelease(n)

Next ==
    \/ Reconcile
    \/ Users
    \/ Others
    \/ Crash
    \/ SyncCache
    \/ \E c \in inflight : LandCreate(c)

Spec == Init /\ [][Next]_vars

-----------------------------------------------------------------------------
(* Properties. *)

Claims == [by : Bindings \cup {NoBinding}, no : Nat]

\* The validation rules of the status: a pending record has a name and a claim,
\* a confirmed one a name and a UID, and there is never more than one of them.
WellFormed(rec) ==
    CASE rec.kind = "unclaimed" -> rec = Unclaimed
      [] rec.kind = "pending"   -> rec = Pending(rec.name, rec.claim) /\ rec.name \in Names
      [] OTHER                  -> rec = Confirmed(rec.name, rec.uid) /\ rec.name \in Names

Records ==
    {rec \in [kind : {"unclaimed", "pending", "confirmed"}, name : Names \cup {""},
              claim : Claims, uid : Nat] : WellFormed(rec)}

Conditions == {"New", "Ready", "StateError", "ApplyFailed", "Conflict",
               "PendingOutput", "PendingConflict", "PendingReplacement"}

BindingStates ==
    [there : BOOLEAN, spec : Specs, deleting : BOOLEAN, fin : BOOLEAN, rec : Records,
     cond : Conditions, shown : Plans \cup {NoPlan}, rv : Nat]

ObjectStates ==
    [there : BOOLEAN, uid : Nat, claim : Claims, body : Plans \cup {NoPlan}, own : BOOLEAN,
     held : BOOLEAN, dying : BOOLEAN]

Steps == {"idle", "addFinalizer", "render", "list", "evaluate", "renderPeer", "withdraw",
          "confirmAbsent", "observe", "confirm", "clear", "delete", "removeFinalizer",
          "apply", "reserve", "create", "update", "status"}

OpStates ==
    [pc : Steps, key : Bindings \cup {NoBinding}, main : BindingStates,
     list : [Bindings -> BindingStates], plan : Plans \cup {NoPlan},
     plans : [Bindings -> Plans \cup {NoPlan}], blocked : SUBSET Bindings,
     members : SUBSET (Bindings \cup {Main}), todo : SUBSET (Bindings \cup {Main}),
     who : Bindings \cup {Main}, mode : {"", "cleanup", "list", "apply", "created"},
     ret : {"", "finalize", "stateError", "rename", "deletingPeer", "brokenPeer", "withdraw"},
     seen : ObjectStates, want : Conditions]

\* Type invariant: what the API server, the cache and the operator's memory hold.
TypeOK ==
    /\ live \in [Bindings -> BindingStates]
    /\ cache \in [Bindings -> BindingStates]
    /\ object \in [Names -> ObjectStates]
    /\ pool \in Pools
    /\ inflight \in SUBSET [name : Names, body : ObjectStates]
    /\ nextUid \in Nat
    /\ nextClaim \in Nat
    /\ op \in OpStates
    /\ moves \in Nat
    /\ faults \in Nat

\* The stored ownership record of binding b matches the object under name n.
Owns(b, n) == live[b].rec.name = n /\ Matches(live[b].rec, object[n])

\* The operator changes and deletes a ClusterSPIFFEID only if, at that moment, the
\* stored status of a binding records exactly that incarnation (name and UID) as
\* confirmed, however stale the copy is that the operator works from
\* (updateManagedClusterSPIFFEID and cleanupManagedClusterSPIFFEIDs).
MutationAuthorized ==
    [][op' # op => \A n \in Names :
          object[n].there /\ object'[n] # object[n]
          => \E b \in Bindings : live[b].rec = Confirmed(n, object[n].uid)]_vars

\* An ownership record is dropped only when its incarnation is gone: as long as an
\* object the operator created exists and a stored record matches it, by claim or
\* by UID, the next step leaves it with a matching record (the clear in
\* listManagedClusterSPIFFEIDs, and the promotion from claim to UID).
OwnershipRetained ==
    [][\A b \in Bindings, n \in Names :
          /\ Owns(b, n)
          /\ object[n].own
          /\ object'[n].there
          /\ object'[n].uid = object[n].uid
          => Owns(b, n)']_vars

\* A binding never comes to own an object that does not carry a claim it made
\* itself: a ClusterSPIFFEID someone else created under the desired name is not
\* adopted (classifyManagedClusterSPIFFEID).
NeverAdopts ==
    \A b \in Bindings, n \in Names : Owns(b, n) => object[n].claim.by = b

\* Ready is published only on top of a durable confirmation of the output it
\* shows (applySuccessStatus after authorizeManagedOutputApply, and patchStatus,
\* which takes the record from the cache and the status from memory).
ReadyIsConfirmed ==
    [][op' # op => \A b \in Bindings :
          /\ live'[b].cond = "Ready"
          /\ live'[b].cond # live[b].cond \/ live'[b].shown # live[b].shown
          => live'[b].rec.kind = "confirmed" /\ live'[b].rec.name = live'[b].shown.name]_vars

\* Every object the operator created is reachable from the stored record of a
\* binding, so that a later reconcile can still remove it. The code does not ensure
\* this as it stands: a Create that lands late, or one whose claim is no longer stored
\* (a claim left pending by a failure, then the race that CreateUnderClaim is about),
\* leaves an object without record. NoOrphans in PublicationProofs proves it under the
\* condition that neither happens.
NoOrphan ==
    \A n \in Names : object[n].there /\ object[n].own => \E b \in Bindings : Owns(b, n)

\* An object the operator created is out of reach of every stored record only if it
\* already was, or if it was created under a claim that was not the stored one at
\* that moment: no clear, no deletion of a binding and no failure loses it later (the
\* finalizer before any output, the reservation before Create and the confirmation
\* after it in createManagedClusterSPIFFEID).
OrphansUnclaimed ==
    [][\A n \in Names :
          /\ object'[n].there
          /\ object'[n].own
          /\ \/ object[n].there /\ \E b \in Bindings : Owns(b, n)
             \/ ~object[n].there /\ live[op.key].rec = Pending(n, object'[n].claim)
          => (\E b \in Bindings : Owns(b, n))']_vars

\* The operator creates an object only while the claim the object carries is the
\* stored pending claim of its binding (createManagedClusterSPIFFEID).
CreateUnderClaim ==
    [][op' # op => \A n \in Names :
          ~object[n].there /\ object'[n].there
          => live[op.key].rec = Pending(n, object'[n].claim)]_vars

\* Conflict=True is published only when no member of the conflict has output that
\* its stored record matches (withdrawConflictOutputs before applyConflictStatus).
ConflictSettlesOnAbsence ==
    [][op' # op /\ live' # live /\ op.pc = "status" /\ op.want = "Conflict"
       => \A m \in op.members, n \in Names : ~Owns(Target(m), n)]_vars

\* No two identities the operator registered compete for a workload or a SPIFFE ID
\* (evaluateBindingConflicts before reconcileClusterSPIFFEIDs).
ExclusiveOutputs ==
    \A n, m \in {k \in Names : object[k].there /\ object[k].own /\ object[k].body # NoPlan} :
        n # m => ~Competes(object[n].body, object[m].body)

-----------------------------------------------------------------------------
(* The inductive invariant behind the first two action properties. *)

\* What the step the operator is at says about its memory o: the records a helper
\* was entered with, and who entered it.
Shape(o) ==
    /\ o.pc # "idle" => o.key \in Bindings
    /\ o.pc = "addFinalizer" => o.main.there
    /\ o.pc \notin {"idle", "addFinalizer", "status"} => o.main.there /\ o.main.fin
    /\ \/ o.pc \in {"list", "evaluate", "renderPeer", "withdraw", "confirmAbsent",
                    "apply", "reserve", "create", "update"}
       \/ /\ o.pc \in {"observe", "confirm", "clear", "delete"}
          /\ \/ o.mode \in {"apply", "created"}
             \/ o.ret \in {"rename", "deletingPeer", "brokenPeer", "withdraw"}
       => o.plan \in Plans
    /\ o.pc \in {"observe", "confirm", "clear", "delete"} =>
          /\ Copy(o, o.who).rec.kind # "unclaimed"
          /\ o.mode \in {"apply", "created"} =>
                o.who = Main /\ o.main.rec.name = o.plan.name /\ o.pc \in {"confirm", "clear"}
          /\ o.mode \in {"cleanup", "list"} =>
                /\ o.ret # ""
                /\ o.ret \in {"finalize", "stateError", "rename"} => o.who = Main
                /\ o.ret \in {"deletingPeer", "brokenPeer"} => o.who \in Bindings
          /\ o.mode # ""
    /\ o.pc = "renderPeer" => o.who \in Bindings
    /\ o.pc = "observe" => o.mode \in {"cleanup", "list"}
    /\ o.pc = "confirm" => Copy(o, o.who).rec.kind = "pending"
    /\ o.pc = "delete" =>
          /\ o.mode = "cleanup"
          /\ Copy(o, o.who).rec = Confirmed(Copy(o, o.who).rec.name, o.seen.uid)
    /\ o.pc = "apply" => o.main.rec.name \in {"", o.plan.name}
    /\ o.pc \in {"reserve", "removeFinalizer"} => o.main.rec = Unclaimed
    /\ o.pc = "create" => o.main.rec = Pending(o.plan.name, o.main.rec.claim)
    /\ o.pc = "update" => o.main.rec = Confirmed(o.plan.name, o.seen.uid)
    /\ o.pc \in {"reserve", "create", "update"} => o.who = Main

\* A copy c of binding b is of an earlier version or is exact.  An incarnation it
\* records as confirmed is gone, unless the stored record is still the same.
IsCopy(c, b) ==
    /\ c.rv <= live[b].rv
    /\ c.rv = live[b].rv => c = live[b]
    /\ c.rec.uid < nextUid
    /\ \A n \in Names :
          object[n].there /\ c.rec = Confirmed(n, object[n].uid) => live[b].rec = c.rec

Copies ==
    /\ \A b \in Bindings : IsCopy(cache[b], b) /\ IsCopy(op.list[b], b)
    /\ op.key \in Bindings => IsCopy(op.main, op.key)

\* The stored bindings and objects: records only under the finalizer, UIDs only
\* handed out before.
StoredOK ==
    /\ \A b \in Bindings :
          /\ live[b].rv > 0
          /\ live[b].rec.uid < nextUid
          /\ live[b].rec = Unclaimed \/ (live[b].there /\ live[b].fin)
    /\ \A n \in Names : object[n].uid < nextUid
    /\ op.seen.uid < nextUid
    /\ nextUid > 0

\* A record about to be cleared no longer matches an object, except a copy of the
\* claim someone else made; a record about to be confirmed matches no other object.
Pursued ==
    LET rec == Copy(op, op.who).rec
        o == object[rec.name]
    IN  /\ op.pc = "clear" => /\ ~(rec.kind = "confirmed" /\ Matches(rec, o))
                              /\ ~LateCreates => ~(o.own /\ Matches(rec, o))
        /\ op.pc = "confirm" /\ ~LateCreates =>
              (o.own /\ Matches(rec, o) => o.uid = op.seen.uid)

\* The inductive invariant of the reconciler: copies of bindings held in the cache
\* and in memory never claim an incarnation that the stored record has given up.
ReconcilerInvariant ==
    /\ TypeOK
    /\ Shape(op)
    /\ Copies
    /\ StoredOK
    /\ Pursued
    /\ ~LateCreates => inflight = {}

-----------------------------------------------------------------------------
(* The inductive invariant behind what the status publishes. *)

\* The stored ownership records.
StoredRecords == [b \in Bindings |-> live[b].rec]

\* Reconcile has not yet come to the members of a conflict in memory o.
Gathering(o) ==
    \/ o.pc \in {"addFinalizer", "render", "list", "evaluate", "renderPeer"}
    \/ /\ o.pc \in {"observe", "confirm", "clear", "delete"}
       /\ o.mode \in {"cleanup", "list"}
       /\ o.ret \in {"deletingPeer", "brokenPeer"}

\* reconcileConflictState is under way, in one of the helpers or between them.
Evaluating(o) ==
    \/ o.pc \in {"evaluate", "renderPeer", "withdraw", "confirmAbsent"}
    \/ /\ o.pc \in {"observe", "confirm", "clear", "delete"}
       /\ o.mode \in {"cleanup", "list"}
       /\ o.ret \in {"deletingPeer", "brokenPeer", "withdraw"}

\* The second loop of withdrawConflictOutputs is under way.
Sweeping(o) ==
    \/ o.pc = "confirmAbsent"
    \/ o.pc \in {"observe", "confirm", "clear"} /\ o.mode = "list" /\ o.ret = "withdraw"

\* The listed copies carry the stored records.  They cease to only where the binding
\* is withdrawn through the fetched copy, and then a peer blocks.
ListHolds(o, records) ==
    /\ Main \in o.members => o.blocked # {}
    /\ Main \notin o.members =>
          Main \notin o.todo /\ \A b \in Bindings : o.list[b].rec = records[b]

\* A member that the second loop is done with has no record left.
Swept(o) ==
    Main \notin o.members => \A m \in o.members \ o.todo : o.list[m].rec = Unclaimed

\* What memory o says about the stored records: an output is brought up to date and
\* reported as ready under its confirmed record, and, if the cache does not lag, a
\* conflict is settled when its members have no record.
Publishes(o, records) ==
    /\ Gathering(o) => o.members = {}
    /\ o.pc = "clear" => o.mode # "created"
    /\ o.pc = "update" => records[o.key] = o.main.rec
    /\ o.pc = "status" /\ o.want = "Ready" =>
          records[o.key].kind = "confirmed" /\ records[o.key].name = o.plan.name
    /\ ~CacheLag =>
          /\ Evaluating(o) =>
                /\ ListHolds(o, records)
                /\ o.pc \in {"observe", "confirm", "clear", "delete"} /\ o.who = Main => Main \in o.members
          /\ Sweeping(o) => Swept(o)
          /\ o.pc = "status" /\ o.want = "Conflict" =>
                \A m \in o.members : m \in Bindings /\ records[m] = Unclaimed

\* The inductive invariant of publishing: what the operator is about to report still
\* agrees with the stored records, since no one else changes them.
PublicationInvariant == Publishes(op, StoredRecords)

-----------------------------------------------------------------------------
(* The inductive invariant behind ExclusiveOutputs. *)

\* The outcomes of rendering a binding.
Outcomes == [b \in Bindings |-> {Render[b][s][p] : s \in Specs, p \in Pools}]

\* The bindings a binding competes with, whatever the specs and pools are.
Rivals ==
    [b \in Bindings |-> {c \in Bindings \ {b} :
        \A x \in Outcomes[b], y \in Outcomes[c] : x \in Plans /\ y \in Plans /\ Competes(x, y)}]

\* Whether two bindings compete depends neither on edits nor on pools.
FixedRivalry ==
    \A b \in Bindings : \A c \in Bindings \ ({b} \cup Rivals[b]) :
        \A x \in Outcomes[b] \cap Plans, y \in Outcomes[c] \cap Plans : ~Competes(x, y)

\* The bindings as the cache returns them.
Shown == [b \in Bindings |-> Cached(b)]

\* Among the objects ob, the one under name n is an output made for binding b.
HasOutput(ob, b, n) == ob[n].there /\ ob[n].own /\ ob[n].claim.by = b

NoOutput(ob, b) == \A n \in Names : ~HasOutput(ob, b, n)

NoRivalOutput(ob, b) == \A c \in Rivals[b] : NoOutput(ob, c)

\* A copy of binding b that is being deleted still leads to the outputs of b.
LeadsToOutput(ob, b, copy) ==
    copy.deleting =>
        \A n \in Names : HasOutput(ob, b, n) => copy.rec.name = n /\ Matches(copy.rec, ob[n])

\* What the cache ch shows of the stored bindings lv: a binding with a record is listed,
\* and if it is listed as being deleted, its pending record and its outputs are in sight.
ShownOK(lv, ch, ob) ==
    \A b \in Bindings :
        /\ lv[b].rec # Unclaimed => ch[b].there
        /\ ch[b].deleting /\ lv[b].rec.kind = "pending" => ch[b].rec = lv[b].rec
        /\ LeadsToOutput(ob, b, ch[b])

\* Rivals do not have outputs together, and an output registers an identity of its binding.
OutputsOK(ob) ==
    /\ \A b \in Bindings : NoOutput(ob, b) \/ NoRivalOutput(ob, b)
    /\ \A b \in Bindings, n \in Names :
          HasOutput(ob, b, n) /\ ob[n].body # NoPlan => ob[n].body \in Outcomes[b]

\* The fetched copy in memory o is the stored one as far as its pending record goes.
StillPending(o, lv) == o.main.rec.kind = "pending" /\ lv[o.key].rec = o.main.rec

\* A reconcile from memory o can no longer store a record, nor create under the stored one.
Doomed(o, lv) == o.main.rv < lv[o.key].rv /\ ~StillPending(o, lv)

\* The reconcile in memory o may create an output only if it is exclusive.
Unopposed(o, lv, ob) == NoRivalOutput(ob, o.key) \/ Doomed(o, lv)

\* The fetched copy, unless it is being deleted, beside what the cache shows next: a
\* later version, or a binding that is not being deleted either.
MainOK(o, lv, ch) ==
    LET c == ch[o.key]
    IN  ~o.main.deleting =>
            /\ c.rv > o.main.rv \/ (c.there /\ ~c.deleting)
            /\ StillPending(o, lv) /\ c.rv >= o.main.rv => c.rec = o.main.rec

\* evaluateBindingConflicts has gone through the listed bindings that are not in todo: each
\* takes part with an identity of its own or is without output.  The current binding may
\* have dropped out itself, but then its reconcile comes to nothing.
Balanced(o, lv, ob) ==
    LET self == o.list[o.key]
    IN  /\ \A c \in Rivals[o.key] \ o.todo : o.plans[c] = NoPlan => NoOutput(ob, c)
        /\ \A b \in Bindings :
              /\ o.plans[b] # NoPlan => o.plans[b] \in Outcomes[b]
              /\ LeadsToOutput(ob, b, o.list[b])
        /\ o.key \in o.todo \/ o.plans[o.key] = o.plan \/ Doomed(o, lv)
        /\ o.key \in o.todo /\ self.deleting =>
              self.rv > o.main.rv /\ (StillPending(o, lv) => self.rec = o.main.rec)

\* A helper was entered in memory o on behalf of o.ret.
Entered(o, lv, ob) ==
    /\ o.main.deleting => o.ret = "finalize"
    /\ o.ret = "rename" => Unopposed(o, lv, ob)
    /\ o.ret = "deletingPeer" => Balanced(o, lv, ob) /\ o.list[o.who].deleting
    /\ o.ret = "brokenPeer" => Balanced(o, lv, ob) /\ o.who \notin Rivals[o.key] \cup {o.key}

\* Memory o, beside the stored and cached bindings and the objects.
Weighed(o, lv, ch, ob) ==
    o.pc \notin {"idle", "status"} =>
        /\ o.plan # NoPlan => o.plan \in Outcomes[o.key]
        /\ MainOK(o, lv, ch)
        /\ o.pc \in {"addFinalizer", "render", "list"} => \A b \in Bindings : o.plans[b] = NoPlan
        /\ o.pc \in {"evaluate", "renderPeer"} => Balanced(o, lv, ob)
        /\ o.pc \in {"apply", "reserve", "create"} => Unopposed(o, lv, ob)
        /\ IF o.pc \in {"observe", "confirm", "clear", "delete"}
           THEN /\ o.mode = "apply" => Unopposed(o, lv, ob)
                /\ IF o.mode \in {"cleanup", "list"} THEN Entered(o, lv, ob) ELSE ~o.main.deleting
           ELSE o.main.deleting => o.pc = "removeFinalizer"

\* The inductive invariant of exclusion: whatever an evaluation of conflicts leaves out has
\* no output, and the reconcile that goes on from it has no rival with one, until it either
\* creates its output or can no longer do so.
ExclusionInvariant ==
    /\ ShownOK(live, Shown, object)
    /\ OutputsOK(object)
    /\ Weighed(op, live, Shown, object)

-----------------------------------------------------------------------------
(* The invariant behind the refinement and NeverAdopts. *)

\* What the refinement rests on beside ReconcilerInvariant: the incarnation about to be
\* confirmed carries the claim of the record, and Creates that may still take effect
\* are the operator's own.
Traced ==
    LET rec == Copy(op, op.who).rec
        o == object[rec.name]
    IN  /\ op.pc = "confirm" => (o.there /\ o.uid = op.seen.uid => o.claim = rec.claim)
        /\ \A c \in inflight : c.body.there /\ c.body.own

RefinementInvariant == ReconcilerInvariant /\ Traced

=============================================================================
