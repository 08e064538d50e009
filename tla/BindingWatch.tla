---------------------------- MODULE BindingWatch ----------------------------
(***************************************************************************)
(* Which events wake the reconciler (watch.go and SetupWithManager), and   *)
(* whether they are enough for every binding to reach the state that its   *)
(* spec, its pool and its peers call for.                                  *)
(*                                                                         *)
(* Reconcile is the one of BindingReconciler in coarser steps: it fetches  *)
(* the binding, decides on what it reads of the pools and the peers, then  *)
(* withdraws and applies outputs, and last patches the status.  No call    *)
(* fails here, except where a stale copy makes it fail.  Bindings are in   *)
(* one namespace.  They are read from the cache, which the events of the   *)
(* binding watch fill; pools and outputs are read live, and their events   *)
(* only wake.                                                              *)
(***************************************************************************)
EXTENDS Naturals, Sequences, Functions

CONSTANTS
    Bindings,
    Pools,          \* names of InferencePools
    Variants,
    Specs,          \* binding specs: records with pool and variant
    NoRec, NoKey,
    Overtaking,     \* whether events of an output may overtake events of its binding
    Edits,          \* whether users edit the specs of bindings
    OthersTouch,    \* whether others delete and edit outputs
    MaxLag,         \* bound on the events of the binding watch under way
    MaxMoves,       \* bound on the changes others make, and restarts
    MaxHolds        \* bound on the deletes of outputs that another finalizer holds

ASSUME WatchAssumption ==
    /\ Specs \subseteq [pool : Pools, variant : Variants]
    /\ Specs # {}
    /\ Overtaking \in BOOLEAN
    /\ Edits \in BOOLEAN
    /\ OthersTouch \in BOOLEAN
    /\ MaxLag \in Nat
    /\ MaxMoves \in Nat
    /\ MaxHolds \in Nat

VARIABLES
    live,       \* the bindings as stored
    cache,      \* the bindings as the cache shows them
    stream,     \* events of the binding watch under way, in order
    pools,      \* the version of every pool's spec, 0 if there is no pool
    poolEvents, \* pools with events under way
    outs,       \* the ClusterSPIFFEIDs
    outEvents,  \* outputs with events under way
    queue,      \* the workqueue: bindings to reconcile
    timers,     \* bindings whose reconcile asked for another one after a while
    op,         \* the reconcile under way
    moves, holds    \* how often the bounded events happened

vars == <<live, cache, stream, pools, poolEvents, outs, outEvents, queue, timers, op, moves, holds>>

-----------------------------------------------------------------------------

\* The name of an output follows from the binding and its SPIFFE ID.
Output(b, s) == <<b, s.pool, s.variant>>

Names == {Output(b, s) : b \in Bindings, s \in Specs}

\* A binding without a record is told from every binding with one.
ASSUME RecordAssumption == NoRec \notin [name : Names, uid : Nat]

\* What the conditions report, for which generation, and of which version of the pool.
NewStatus == [cond |-> "New", gen |-> 0, ver |-> 0]

AbsentBinding ==
    [there |-> FALSE, spec |-> CHOOSE s \in Specs : TRUE, gen |-> 0, deleting |-> FALSE,
     fin |-> FALSE, rec |-> NoRec, status |-> NewStatus]

NewBinding(s) == [AbsentBinding EXCEPT !.there = TRUE, !.spec = s, !.gen = 1]

\* `uid' tells the incarnations under one name apart, `ver' is the version of the
\* pool the spec was rendered from (0: someone else's spec).
AbsentOutput(uid) == [there |-> FALSE, uid |-> uid, ver |-> 0, dying |-> FALSE]

Idle == [pc |-> "idle", key |-> NoKey, own |-> AbsentBinding,
         fresh |-> {}, ver |-> 0, copies |-> <<>>, then |-> "", cond |-> "New", after |-> "stop"]

\* The recorded output of a copy of a binding, among the outputs o.
Found(c, o) == c.rec # NoRec /\ o[c.rec.name].there /\ o[c.rec.name].uid = c.rec.uid

Renders(c) == pools[c.spec.pool] > 0

\* Storing bindings: every write is an event of the binding watch, in any order.
Store(new) ==
    /\ live' = [b \in Bindings |-> IF b \in DOMAIN new THEN new[b] ELSE live[b]]
    /\ \E n \in 0 .. MaxLag : \E order \in Bijection(1 .. n, DOMAIN new) :
          stream' = stream \o [i \in 1 .. n |-> [key |-> order[i], to |-> new[order[i]]]]
    /\ Len(stream') <= MaxLag

SetOuts(o) ==
    /\ outs' = o
    /\ outEvents' = outEvents \cup {n \in Names : o[n] # outs[n]}

\* A copy without its record, as it is stored.
Cleared(c) == [c EXCEPT !.rec = NoRec]

Move == moves < MaxMoves /\ moves' = moves + 1 /\ UNCHANGED holds

\* The cached copy of a binding is the stored one.  The copies in memory that still are,
\* and so can be written, are kept in op.fresh in place of resource versions.
CacheFresh(b) == \A i \in DOMAIN stream : stream[i].key # b

\* Mutant of Outdate: the resource version of a copy in memory is not compared.
OutdateUnnoticed(b) == UNCHANGED op

\* Someone else writes a binding.
Outdate(b) == op' = [op EXCEPT !.fresh = @ \ {b}]

-----------------------------------------------------------------------------
(* Watches. *)

\* reconcileWatchPredicate.
Passes(old, new) ==
    old.there # new.there \/ old.gen # new.gen \/ old.deleting # new.deleting

\* mapBindingToPeers: all bindings of the namespace.
PeerRequests(c) == {b \in Bindings : c[b].there}

\* The index of bindings by the pool they reference.
References(b, p) == cache[b].there /\ cache[b].spec.pool = p

\* The index of bindings by the output they record, confirmed or pending.
Records(b, n) == cache[b].rec # NoRec /\ cache[b].rec.name = n

\* Mutant of PoolRequests: only the bindings that reference the pool.
PoolReferences(p) == {b \in Bindings : References(b, p)}

\* mapPoolToBindings: all bindings of the namespace, if one references the pool.
PoolRequests(p) ==
    IF \E b \in Bindings : References(b, p) THEN PeerRequests(cache) ELSE {}

\* Mutant of OutputRequests: the request names the output.
OutputRequestsByName(n) == {n}

\* mapClusterSPIFFEIDToBindings: the bindings that record the name.
OutputRequests(n) == {b \in Bindings : Records(b, n)}

\* A binding event fills the cache, and wakes the binding and its peers.
DeliverBinding ==
    /\ stream # <<>>
    /\ LET e == Head(stream)
       IN  /\ cache' = [cache EXCEPT ![e.key] = e.to]
           /\ queue' = IF Passes(cache[e.key], e.to)
                       THEN queue \cup {e.key} \cup PeerRequests(cache') ELSE queue
    /\ stream' = Tail(stream)
    /\ UNCHANGED <<live, pools, poolEvents, outs, outEvents, timers, op, moves, holds>>

DeliverPool(p) ==
    /\ p \in poolEvents
    /\ poolEvents' = poolEvents \ {p}
    /\ queue' = queue \cup PoolRequests(p)
    /\ UNCHANGED <<live, cache, stream, pools, outs, outEvents, timers, op, moves, holds>>

\* An output event wakes the bindings that record the output, as far as the cache shows.
DeliverOutput(n) ==
    /\ n \in outEvents
    /\ Overtaking \/ CacheFresh(n[1])
    /\ outEvents' = outEvents \ {n}
    /\ queue' = queue \cup OutputRequests(n)
    /\ UNCHANGED <<live, cache, stream, pools, poolEvents, outs, timers, op, moves, holds>>

\* RequeueAfter is over.
Expire(b) ==
    /\ b \in timers
    /\ timers' = timers \ {b}
    /\ queue' = queue \cup {b}
    /\ UNCHANGED <<live, cache, stream, pools, poolEvents, outs, outEvents, op, moves, holds>>

-----------------------------------------------------------------------------
(* Reconcile. *)

\* Phases 1 to 3.  A binding that is gone, or being deleted without finalizer, is left
\* alone; Update adds the finalizer if the cached copy is current, and otherwise fails
\* and leaves the binding queued.
Fetch(b) ==
    /\ op.pc = "idle"
    /\ b \in queue
    /\ queue' = queue \ {b}
    /\ LET own == cache[b]
           withFin == [own EXCEPT !.fin = TRUE]
           decide(c, fresh) == [Idle EXCEPT !.pc = "decide", !.key = b, !.own = c,
                                            !.fresh = IF fresh THEN {b} ELSE {}]
       IN  \/ /\ ~own.there \/ (own.deleting /\ ~own.fin)
              /\ UNCHANGED <<live, stream, op>>
           \/ /\ own.there /\ own.fin
              /\ op' = decide(own, CacheFresh(b))
              /\ UNCHANGED <<live, stream>>
           \/ /\ own.there /\ ~own.deleting /\ ~own.fin /\ CacheFresh(b)
              /\ Store([c \in {b} |-> withFin])
              /\ op' = decide(withFin, TRUE)
    /\ UNCHANGED <<cache, pools, poolEvents, outs, outEvents, timers, moves, holds>>

\* The reconcile is over but for the status, and then stops, comes back after a while,
\* or is retried.
Finish(cond, after) ==
    /\ op' = [Idle EXCEPT !.pc = "status", !.key = op.key, !.own = op.own, !.ver = op.ver,
                          !.cond = cond, !.after = after]
    /\ UNCHANGED <<queue, timers>>

Fail == Finish("ApplyFailed", "retry")

\* Mutant of Return: an error is not handed to the workqueue.
ReturnWithoutError(after) ==
    /\ op' = Idle
    /\ timers' = IF after = "timer" THEN timers \cup {op.key} ELSE timers
    /\ UNCHANGED queue

\* The reconcile returns.
Return(after) ==
    /\ op' = Idle
    /\ queue' = IF after = "retry" THEN queue \cup {op.key} ELSE queue
    /\ timers' = IF after = "timer" THEN timers \cup {op.key} ELSE timers

\* patchStatus: nothing is written if the cached status is the same, and a write that
\* conflicts fails the reconcile.  The condition times, which make the fetched status
\* count too, are left out for failures.
PatchStatus ==
    /\ op.pc = "status"
    /\ LET latest == cache[op.key]
           new == [cond |-> op.cond, gen |-> op.own.gen, ver |-> IF op.cond = "Ready" THEN op.ver ELSE 0]
           same == latest.status = new /\ (op.own.status = new \/ op.cond = "ApplyFailed")
       IN  \/ /\ latest.there /\ same
              /\ Return(op.after)
              /\ UNCHANGED <<live, stream>>
           \/ /\ latest.there /\ ~same /\ CacheFresh(op.key)
              /\ Store([b \in {op.key} |-> [latest EXCEPT !.status = new]])
              /\ Return(op.after)
           \/ /\ ~latest.there \/ (~same /\ ~CacheFresh(op.key))
              /\ Return("retry")
              /\ UNCHANGED <<live, stream>>
    /\ UNCHANGED <<cache, pools, poolEvents, outs, outEvents, moves, holds>>

\* The binding is being deleted, or its pool is missing: its output is withdrawn.
DecideAlone ==
    /\ op.pc = "decide"
    /\ op.own.deleting \/ ~Renders(op.own)
    /\ op' = [op EXCEPT !.pc = "withdraw", !.copies = [b \in {op.key} |-> op.own],
                        !.then = IF op.own.deleting THEN "finalize" ELSE "clean"]
    /\ UNCHANGED <<live, cache, stream, pools, poolEvents, outs, outEvents, queue, timers, moves, holds>>

\* The listed bindings whose output is looked up: those being deleted, and peers that
\* cannot be rendered.
LookedUp == {b \in Bindings : cache[b].there /\ (cache[b].deleting \/ (b # op.key /\ ~Renders(cache[b])))}

\* A listed binding takes part in the evaluation.
Competing(b) == cache[b].there /\ (cache[b].deleting => Found(cache[b], outs))

\* The peers that compete with the binding, if it is listed itself.
Rivals ==
    {b \in Bindings \ {op.key} :
        /\ Competing(op.key)
        /\ Competing(b)
        /\ Renders(cache[b])
        /\ cache[b].spec.variant = op.own.spec.variant}

\* The peers that block: they cannot be rendered, and have output.
Blockers == {b \in Bindings \ {op.key} : Competing(b) /\ ~Renders(cache[b]) /\ Found(cache[b], outs)}

\* evaluateBindingConflicts and what Reconcile does about it.  Looking up outputs clears
\* the records of those that are gone.
DecideAmongPeers ==
    /\ op.pc = "decide"
    /\ ~op.own.deleting /\ Renders(op.own)
    /\ LET gone == {b \in LookedUp : cache[b].rec # NoRec /\ ~Found(cache[b], outs)}
           cleared == [b \in gone |-> Cleared(cache[b])]
           listed(b) == IF b \in gone THEN cleared[b] ELSE cache[b]
           members == Rivals \cup Blockers \cup {op.key}
           own(b) == IF b = op.key /\ Rivals = {} THEN op.own ELSE listed(b)
           keeps == op.own.rec = NoRec \/ op.own.rec.name = Output(op.key, op.own.spec)
           fresh == {b \in Bindings : CacheFresh(b)}
           freshOwn == op.fresh \ gone
       IN  IF ~(gone \subseteq fresh)
           THEN Fail /\ UNCHANGED <<live, stream>>
           ELSE /\ Store(cleared)
                /\ op' = CASE Rivals \cup Blockers # {} ->
                                [op EXCEPT !.pc = "withdraw", !.copies = [b \in members |-> own(b)],
                                           !.fresh = IF Rivals = {} THEN freshOwn \cup (fresh \ {op.key}) ELSE fresh,
                                           !.then = IF Blockers # {} THEN "blocked" ELSE "conflict"]
                           [] Rivals \cup Blockers = {} /\ keeps ->
                                [op EXCEPT !.pc = "apply", !.fresh = freshOwn, !.ver = pools[op.own.spec.pool]]
                           [] OTHER ->
                                [op EXCEPT !.pc = "withdraw", !.copies = [b \in {op.key} |-> op.own],
                                           !.fresh = freshOwn, !.ver = pools[op.own.spec.pool],
                                           !.then = "rename"]
                /\ UNCHANGED <<queue, timers>>
    /\ UNCHANGED <<cache, pools, poolEvents, outs, outEvents, moves, holds>>

\* The outputs after the recorded ones of the copies are deleted; another finalizer
\* may hold them.
Deleted(copies, held) ==
    [n \in Names |->
        IF \E b \in DOMAIN copies : Found(copies[b], outs) /\ copies[b].rec.name = n
        THEN IF held \/ outs[n].dying THEN [outs[n] EXCEPT !.dying = TRUE]
             ELSE AbsentOutput(outs[n].uid)
        ELSE outs[n]]

\* Mutant of After: nothing asks for another reconcile.
AfterNothing(then, left) == "stop"

\* Where Reconcile returns RequeueAfter once outputs are withdrawn: it waits for those that
\* are left, but not on behalf of a state error, and for a peer that blocks.
After(then, left) ==
    IF then = "blocked" \/ (left /\ then # "clean") THEN "timer" ELSE "stop"

\* cleanupManagedClusterSPIFFEIDs and listManagedClusterSPIFFEIDs on the copies.  Records
\* of outputs that are gone are cleared, which fails on a stale copy: the outputs deleted
\* (done) and the records cleared (clear) by then stay so.  What follows depends on who
\* asked, and on whether an output is still there.
Withdraw(held, done, clear) ==
    /\ op.pc = "withdraw"
    /\ clear \subseteq done
    /\ \/ ~held /\ UNCHANGED holds
       \/ held /\ holds < MaxHolds /\ holds' = holds + 1 /\ \E b \in done : Found(op.copies[b], outs)
    /\ LET all == op.copies
           some == [b \in done |-> all[b]]
           gone(copies) == {b \in DOMAIN copies :
                               copies[b].rec # NoRec /\ ~Found(copies[b], Deleted(copies, held))}
           left == \E b \in DOMAIN all : Found(all[b], Deleted(all, held))
           stale == ~(gone(all) \subseteq op.fresh)
           cleared == [b \in clear |-> Cleared(all[b])]
       IN  /\ clear \subseteq gone(some) \cap op.fresh
           /\ SetOuts(Deleted(some, held))
           /\ \/ /\ stale
                 /\ Store(cleared)
                 /\ Fail
              \/ /\ ~stale
                 /\ done = DOMAIN all /\ clear = gone(all)
                 /\ \/ /\ op.then = "finalize" /\ ~left
                       /\ \/ /\ op.key \in op.fresh
                             /\ Store([b \in {op.key} |-> AbsentBinding])
                             /\ Return("stop")
                          \/ /\ op.key \notin op.fresh
                             /\ Store(cleared)
                             /\ Return("retry")
                    \/ /\ op.then = "rename" /\ ~left
                       /\ Store(cleared)
                       /\ op' = [op EXCEPT !.pc = "apply", !.copies = <<>>,
                                           !.own = IF op.key \in gone(all) THEN Cleared(@) ELSE @]
                       /\ UNCHANGED <<queue, timers>>
                    \/ /\ op.then = "finalize" /\ left
                       /\ Store(cleared)
                       /\ Return(After(op.then, left))
                    \/ /\ op.then = "rename" /\ left
                       /\ Store(cleared)
                       /\ Finish("PendingReplacement", After(op.then, left))
                    \/ /\ op.then = "clean"
                       /\ Store(cleared)
                       /\ Finish("StateError", After(op.then, left))
                    \/ /\ op.then \in {"conflict", "blocked"}
                       /\ Store(cleared)
                       /\ Finish(IF left \/ op.then = "blocked" THEN "PendingConflict" ELSE "Conflict",
                                 After(op.then, left))
    /\ UNCHANGED <<cache, pools, poolEvents, moves>>

\* Mutant of Apply: the record is stored without optimistic lock.
ApplyWithoutLock ==
    /\ op.pc = "apply"
    /\ LET b == op.key
           n == Output(b, op.own.spec)
           new == [AbsentOutput(outs[n].uid + 1) EXCEPT !.there = TRUE, !.ver = op.ver]
       IN  /\ ~Found(op.own, outs) /\ ~outs[n].there
           /\ SetOuts([outs EXCEPT ![n] = new])
           /\ Store([c \in {b} |-> [op.own EXCEPT !.rec = [name |-> n, uid |-> new.uid]]])
           /\ Finish("Ready", "stop")
    /\ UNCHANGED <<cache, pools, poolEvents, moves, holds>>

\* reconcileClusterSPIFFEIDs: the output is created under a new record, or brought up
\* to date.
Apply ==
    /\ op.pc = "apply"
    /\ LET b == op.key
           n == Output(b, op.own.spec)
           new == [AbsentOutput(outs[n].uid + 1) EXCEPT !.there = TRUE, !.ver = op.ver]
           waiting == [cond |-> "PendingOutput", gen |-> op.own.gen, ver |-> 0]
       IN  \/ /\ Found(op.own, outs)
              /\ SetOuts([outs EXCEPT ![n].ver = op.ver])
              /\ Finish("Ready", "stop")
              /\ UNCHANGED <<live, stream>>
           \/ /\ ~Found(op.own, outs) /\ ~outs[n].there /\ b \in op.fresh
              /\ SetOuts([outs EXCEPT ![n] = new])
              /\ Store([c \in {b} |-> [op.own EXCEPT !.rec = [name |-> n, uid |-> new.uid],
                                                     !.status = waiting]])
              /\ Finish("Ready", "stop")
           \/ /\ ~Found(op.own, outs)
              /\ outs[n].there \/ b \notin op.fresh
              /\ Fail
              /\ UNCHANGED <<live, stream, outs, outEvents>>
    /\ UNCHANGED <<cache, pools, poolEvents, moves, holds>>

-----------------------------------------------------------------------------
(* Users, other controllers, and restarts of the operator. *)

CreateBinding(b, s) ==
    /\ Move
    /\ ~live[b].there
    /\ Store([c \in {b} |-> NewBinding(s)])
    /\ Outdate(b)
    /\ UNCHANGED <<cache, pools, poolEvents, outs, outEvents, queue, timers>>

EditBinding(b, s) ==
    /\ Edits
    /\ Move
    /\ live[b].there
    /\ live[b].spec # s
    /\ Store([c \in {b} |-> [live[b] EXCEPT !.spec = s, !.gen = @ + 1]])
    /\ Outdate(b)
    /\ UNCHANGED <<cache, pools, poolEvents, outs, outEvents, queue, timers>>

DeleteBinding(b) ==
    /\ Move
    /\ live[b].there
    /\ ~live[b].deleting
    /\ Store([c \in {b} |-> IF live[b].fin THEN [live[b] EXCEPT !.deleting = TRUE, !.gen = @ + 1]
                            ELSE AbsentBinding])
    /\ Outdate(b)
    /\ UNCHANGED <<cache, pools, poolEvents, outs, outEvents, queue, timers>>

\* A pool is created or edited, or deleted (version 0).
ChangePool(p, v) ==
    /\ Move
    /\ v \in {0, pools[p] + 1} \ {pools[p]}
    /\ pools' = [pools EXCEPT ![p] = v]
    /\ poolEvents' = poolEvents \cup {p}
    /\ UNCHANGED <<live, cache, stream, outs, outEvents, queue, timers, op>>

\* Someone else deletes an output, or changes its spec.
TouchOutput(n) ==
    /\ OthersTouch
    /\ Move
    /\ outs[n].there
    /\ \/ ~outs[n].dying /\ SetOuts([outs EXCEPT ![n] = AbsentOutput(@.uid)])
       \/ outs[n].ver # 0 /\ SetOuts([outs EXCEPT ![n].ver = 0])
    /\ UNCHANGED <<live, cache, stream, pools, poolEvents, queue, timers, op>>

\* The finalizer that holds an output is removed.
Release(n) ==
    /\ outs[n].dying
    /\ SetOuts([outs EXCEPT ![n] = AbsentOutput(@.uid)])
    /\ UNCHANGED <<live, cache, stream, pools, poolEvents, queue, timers, op, moves, holds>>

\* The operator restarts: it fills its cache, and wakes every binding.
Restart ==
    /\ Move
    /\ cache' = live
    /\ stream' = <<>>
    /\ poolEvents' = {}
    /\ outEvents' = {}
    /\ queue' = PeerRequests(live)
    /\ timers' = {}
    /\ op' = Idle
    /\ UNCHANGED <<live, pools, outs>>

-----------------------------------------------------------------------------

Init ==
    /\ live \in [Bindings -> {AbsentBinding} \cup {NewBinding(s) : s \in Specs}]
    /\ cache = live
    /\ stream = <<>>
    /\ pools \in [Pools -> {0, 1}]
    /\ poolEvents = {}
    /\ outs = [n \in Names |-> AbsentOutput(0)]
    /\ outEvents = {}
    /\ queue = PeerRequests(live)
    /\ timers = {}
    /\ op = Idle
    /\ moves = 0
    /\ holds = 0

Decide == DecideAlone \/ DecideAmongPeers

Work == Decide \/ Apply \/ PatchStatus \/ \E held \in BOOLEAN, done, clear \in SUBSET DOMAIN op.copies : Withdraw(held, done, clear)

Deliver ==
    \/ DeliverBinding
    \/ \E p \in Pools : DeliverPool(p)
    \/ \E n \in Names : DeliverOutput(n)
    \/ \E b \in Bindings : Expire(b)

Changes ==
    \/ \E b \in Bindings : DeleteBinding(b) \/ \E s \in Specs : CreateBinding(b, s) \/ EditBinding(b, s)
    \/ \E p \in Pools, v \in 0 .. MaxMoves + 1 : ChangePool(p, v)
    \/ \E n \in Names : TouchOutput(n)
    \/ Restart

Next ==
    \/ \E b \in Bindings : Fetch(b)
    \/ Work
    \/ Deliver
    \/ Changes
    \/ \E n \in Names : Release(n)

Spec == Init /\ [][Next]_vars

\* Events are delivered, timers expire, a reconcile that started goes on, and an output
\* that is being deleted goes at last.
Fairness ==
    /\ WF_vars(\E b \in Bindings : Fetch(b))
    /\ WF_vars(Work)
    /\ WF_vars(DeliverBinding)
    /\ WF_vars(\E p \in Pools : DeliverPool(p))
    /\ WF_vars(\E n \in Names : DeliverOutput(n))
    /\ WF_vars(\E b \in Bindings : Expire(b))
    /\ WF_vars(\E n \in Names : Release(n))

-----------------------------------------------------------------------------
(* Properties. *)

Conditions == {"New", "Ready", "StateError", "ApplyFailed", "Conflict",
               "PendingOutput", "PendingConflict", "PendingReplacement"}

BindingStates ==
    [there : BOOLEAN, spec : Specs, gen : Nat, deleting : BOOLEAN, fin : BOOLEAN,
     rec : [name : Names, uid : Nat] \cup {NoRec},
     status : [cond : Conditions, gen : Nat, ver : Nat]]

Events == [key : Bindings, to : BindingStates]

\* The memory of a reconcile; `copies' holds copies of some of the bindings.
IsMemory(o) ==
    /\ o = [pc |-> o.pc, key |-> o.key, own |-> o.own, fresh |-> o.fresh, ver |-> o.ver,
            copies |-> [b \in DOMAIN o.copies |-> o.copies[b]],
            then |-> o.then, cond |-> o.cond, after |-> o.after]
    /\ o.pc \in {"idle", "decide", "withdraw", "apply", "status"}
    /\ o.key \in Bindings \cup {NoKey}
    /\ o.own \in BindingStates
    /\ o.fresh \subseteq Bindings
    /\ o.ver \in Nat
    /\ DOMAIN o.copies \subseteq Bindings
    /\ \A b \in DOMAIN o.copies : o.copies[b] \in BindingStates
    /\ o.then \in {"", "finalize", "clean", "rename", "conflict", "blocked"}
    /\ o.cond \in Conditions
    /\ o.after \in {"stop", "timer", "retry"}

\* Type invariant: what is stored, cached, under way and queued.
TypeOK ==
    /\ live \in [Bindings -> BindingStates]
    /\ cache \in [Bindings -> BindingStates]
    /\ stream \in Seq(Events)
    /\ pools \in [Pools -> Nat]
    /\ poolEvents \subseteq Pools
    /\ outs \in [Names -> [there : BOOLEAN, uid : Nat, ver : Nat, dying : BOOLEAN]]
    /\ outEvents \subseteq Names
    /\ queue \subseteq Bindings
    /\ timers \subseteq Bindings
    /\ IsMemory(op)
    /\ moves \in 0 .. MaxMoves
    /\ holds \in 0 .. MaxHolds

\* A stored binding changed at most in what the operator writes.
Managed(old, new) ==
    /\ new.there <=> old.there
    /\ new.spec = old.spec
    /\ new.gen = old.gen
    /\ new.deleting <=> old.deleting

\* The operator writes whole bindings from copies it read earlier, while users edit and
\* delete them.  It never takes back what they wrote, brings no binding back, and removes
\* one only if it is being deleted and the output it records is gone (the optimistic
\* locks of Reconcile and of the ownership patches, and reconcileDelete).
UserWritesKept ==
    [][moves' = moves => \A b \in Bindings :
          \/ Managed(live[b], live'[b])
          \/ ~live'[b].there /\ live[b].deleting /\ ~Found(live[b], outs')]_vars

\* A binding has the output its spec, its pool and its peers call for, and no other.
Entitled(b) ==
    /\ live[b].there /\ ~live[b].deleting /\ Renders(live[b])
    /\ \A c \in Bindings \ {b} :
          live[c].there /\ Renders(live[c]) => live[c].spec.variant # live[b].spec.variant

Converged(b) ==
    /\ ~live[b].deleting
    /\ \A n \in Names : n[1] = b /\ outs[n].there => Entitled(b) /\ n = Output(b, live[b].spec)
    /\ Entitled(b) => LET o == outs[Output(b, live[b].spec)]
                      IN  o.there /\ o.ver = pools[live[b].spec.pool]

\* Nothing is left that would wake the reconciler.
Quiescent ==
    /\ stream = <<>> /\ poolEvents = {} /\ outEvents = {}
    /\ queue = {} /\ timers = {} /\ op.pc = "idle"
    /\ \A n \in Names : ~outs[n].dying

\* No wake-up is lost: when nothing is left to do, every binding has the output it is
\* entitled to and no other, also after a change that only concerned a peer or a pool
\* (reconcileWatchPredicate and the three mapping functions).
NoLostWakeup == Quiescent => \A b \in Bindings : Converged(b)

\* Once changes stop, every binding reaches the output it is entitled to and keeps it:
\* stale copies, conflicts, peers that block and outputs that are held delay reconciles
\* but never make them go on forever or wait for each other (Reconcile and its
\* RequeueAfter).
Converges == <>[](\A b \in Bindings : Converged(b))

-----------------------------------------------------------------------------
(* The inductive invariant behind what the operator writes. *)

\* The last event of a binding under way carries its stored state, and if there is none
\* the cache shows it.
Streamed ==
    /\ \A i \in DOMAIN stream :
          (\A j \in DOMAIN stream : i < j => stream[j].key # stream[i].key)
          => stream[i].to = live[stream[i].key]
    /\ \A b \in Bindings : CacheFresh(b) => cache[b] = live[b]

\* The copies in memory that are taken for current are the stored bindings.
Remembered ==
    /\ op.pc # "idle" => op.key \in Bindings
    /\ op.pc = "decide" => op.fresh \subseteq {op.key}
    /\ op.pc \in {"decide", "apply"} /\ op.key \in op.fresh => op.own = live[op.key]
    /\ op.pc = "withdraw" =>
          /\ \A b \in DOMAIN op.copies \cap op.fresh : op.copies[b] = live[b]
          /\ op.then \in {"finalize", "rename"} =>
                DOMAIN op.copies = {op.key} /\ op.copies[op.key] = op.own
          /\ op.then = "finalize" => op.own.deleting

\* The inductive invariant: whatever the operator may write from is what is stored.
WatchInvariant == TypeOK /\ Streamed /\ Remembered

-----------------------------------------------------------------------------
(* The inductive invariant behind NoLostWakeup. *)

\* What holds of a copy c of binding b, however old it is.
Sound(b, c) ==
    /\ c.there \/ (c.rec = NoRec /\ ~c.deleting)
    /\ c.deleting \/ c.rec # NoRec => c.fin
    /\ c.rec # NoRec => c.rec.name[1] = b

SoundCopies ==
    /\ \A b \in Bindings : Sound(b, live[b]) /\ Sound(b, cache[b])
    /\ \A i \in DOMAIN stream : Sound(stream[i].key, stream[i].to)
    /\ op.pc # "idle" => Sound(op.key, op.own) /\ \A b \in DOMAIN op.copies : Sound(b, op.copies[b])

\* An edit of the spec passes the predicate of the binding watch.
Visible(old, new) == Passes(old, new) \/ new.spec = old.spec

VisibleEvents ==
    /\ \A i \in DOMAIN stream :
          (\A j \in DOMAIN stream : j < i => stream[j].key # stream[i].key)
          => Visible(cache[stream[i].key], stream[i].to)
    /\ \A i, j \in DOMAIN stream :
          /\ i < j /\ stream[i].key = stream[j].key
          /\ \A k \in DOMAIN stream : i < k /\ k < j => stream[k].key # stream[i].key
          => Visible(stream[i].to, stream[j].to)

\* Every output is the recorded one of its binding, so a binding has at most one.
Recorded == \A n \in Names : outs[n].there => live[n[1]].rec = [name |-> n, uid |-> outs[n].uid]

\* Copy c of binding b shows the record of the output of b, if there is one, or the event
\* of that output is under way.
Leads(b, c) ==
    \A n \in Names : n[1] = b /\ outs[n].there => c.rec = live[b].rec \/ n \in outEvents

LeadingCopies ==
    /\ \A b \in Bindings : Leads(b, cache[b])
    /\ \A i \in DOMAIN stream : Leads(stream[i].key, stream[i].to)

\* All bindings in the cache are queued.
Alarmed == \A b \in Bindings : cache[b].there => b \in queue

\* All of them will be, by the removal of a binding or by the event of a pool.
Restless == \E b \in Bindings : cache[b].deleting \/ (cache[b].there /\ cache[b].spec.pool \in poolEvents)

\* Binding b is entitled to an output, as far as the cache shows.
Wanted(b) ==
    /\ cache[b].there /\ ~cache[b].deleting /\ Renders(cache[b])
    /\ \A c \in Bindings \ {b} :
          cache[c].there /\ Renders(cache[c]) => cache[c].spec.variant # cache[b].spec.variant

\* It has that output, of the current version of the pool, and no other.
Right(b) ==
    LET n == Output(b, cache[b].spec)
    IN  /\ \A m \in Names : m[1] = b /\ outs[m].there => Wanted(b) /\ m = n
        /\ Wanted(b) => outs[n].there /\ outs[n].ver = pools[cache[b].spec.pool]

\* The outputs that reconcile o withdraws are not wanted, as far as the cache shows, but
\* for one that is to be replaced or that waits for a peer; or every binding is, or will
\* be, queued.
Withdrawing(o) ==
    /\ o.key \in DOMAIN o.copies
    /\ \A c \in DOMAIN o.copies : Leads(c, o.copies[c]) \/ c \in queue
    /\ o.then = "rename" => o.own.rec # NoRec
    /\ \/ Restless \/ Alarmed
       \/ \A c \in DOMAIN o.copies : ~Wanted(c) \/ (c = o.key /\ o.then \in {"rename", "blocked"})

\* The output that it applies is wanted, and of the current version of the pool.
Applying(o) == Restless \/ Alarmed \/ (Wanted(o.key) /\ o.ver = pools[o.own.spec.pool])

\* Reconcile o rests on a copy that the cache still shows and on a decision that is still
\* right, or every binding is, or will be, queued.
Decided(o) ==
    /\ o.own.there /\ o.own.fin
    /\ Managed(cache[o.key], o.own) \/ Alarmed
    /\ Leads(o.key, o.own) \/ o.key \in queue
    /\ o.own.deleting => \/ o.pc = "decide"
                         \/ o.pc = "withdraw" /\ o.then = "finalize"
                         \/ o.pc = "status" /\ o.after = "retry"
    /\ o.pc = "withdraw" => Withdrawing(o)
    /\ o.pc = "withdraw" /\ o.then = "rename" => Applying(o)
    /\ o.pc = "apply" => Applying(o) /\ (o.own.rec = NoRec \/ o.own.rec.name = Output(o.key, o.own.spec))

\* The reconcile under way will come to a decision about b, or come back to it.
Pursued(b) ==
    op.key = b /\ (op.pc \in {"decide", "withdraw", "apply"} \/ (op.pc = "status" /\ op.after # "stop"))

\* Binding b has what the cache calls for, or something will wake it.
Settling(b) ==
    \/ Restless
    \/ b \in queue \cup timers
    \/ Pursued(b)
    \/ live[b].rec # NoRec /\ (live[b].rec.name \in outEvents \/ outs[live[b].rec.name].dying)
    \/ Right(b)

\* A binding that is being deleted is reconciled again until it is gone.
Finalized(b) ==
    \/ b \in queue \cup timers
    \/ op.key = b /\ op.pc # "idle" /\ op.own.deleting
    \/ \E i \in DOMAIN stream : stream[i].key = b /\ ~stream[i].to.there

\* The inductive invariant: every binding in the cache has the output that the cache calls
\* for, or there is an event, a timer or a reconcile that leads to it.
WakeInvariant ==
    /\ SoundCopies
    /\ VisibleEvents
    /\ Recorded
    /\ LeadingCopies
    /\ \A b \in Bindings : cache[b].there => Settling(b)
    /\ \A b \in Bindings : cache[b].deleting => Finalized(b)
    /\ op.pc # "idle" => Decided(op)

=============================================================================
