----------------------- MODULE BindingReconcilerProofs -----------------------
(***************************************************************************)
(* Proofs about the reconciler, for any number of bindings, names, specs   *)
(* and pool states and any bounds on changes and failures.                 *)
(***************************************************************************)
EXTENDS BindingReconciler, TLAPS

-----------------------------------------------------------------------------
(* Types of the building blocks. *)

\* A binding that does not exist is a binding state (AbsentBinding).
LEMMA AbsentBindingType ==
    ASSUME NEW rv \in Nat
    PROVE  /\ AbsentBinding(rv) \in BindingStates
           /\ AbsentBinding(rv).rec = Unclaimed
           /\ AbsentBinding(rv).rv = rv
           /\ ~AbsentBinding(rv).there
           /\ ~AbsentBinding(rv).fin
<1>1. (CHOOSE s \in Specs : TRUE) \in Specs
  BY ConstantsAssumption, Zenon
<1>2. NoClaim \in Claims
  BY DEF NoClaim, Claims
<1>3. Unclaimed \in Records
  BY <1>2, Zenon DEF Unclaimed, Records, WellFormed
<1>. QED
  BY <1>1, <1>3 DEF AbsentBinding, BindingStates, Conditions

\* The writes to a binding yield binding states.
LEMMA BindingTypes ==
    ASSUME NEW c \in BindingStates, NEW rv \in Nat
    PROVE  /\ \A s \in Specs : [c EXCEPT !.spec = s, !.rv = rv] \in BindingStates
           /\ [c EXCEPT !.deleting = TRUE, !.rv = rv] \in BindingStates
           /\ [c EXCEPT !.fin = TRUE, !.rv = rv] \in BindingStates
           /\ \A rec \in Records : [c EXCEPT !.rec = rec, !.rv = rv] \in BindingStates
           /\ \A cond \in Conditions, shown \in Plans \cup {NoPlan} :
                 [c EXCEPT !.cond = cond, !.shown = shown, !.rv = rv] \in BindingStates
           /\ \A cond \in Conditions, shown \in Plans \cup {NoPlan} :
                 [c EXCEPT !.cond = cond, !.shown = shown] \in BindingStates
BY Zenon DEF BindingStates

\* The fields of the three kinds of ownership record (managedOutputRecordFromStatus).
LEMMA UnclaimedFields ==
    Unclaimed.kind = "unclaimed" /\ Unclaimed.name = "" /\ Unclaimed.uid = 0
BY DEF Unclaimed

\* As above, for a record with a pending claim.
LEMMA PendingFields ==
    ASSUME NEW n, NEW c
    PROVE  /\ Pending(n, c).kind = "pending" /\ Pending(n, c).name = n
           /\ Pending(n, c).claim = c /\ Pending(n, c).uid = 0
BY DEF Pending

\* As above, for a confirmed record.
LEMMA ConfirmedFields ==
    ASSUME NEW n, NEW u
    PROVE  /\ Confirmed(n, u).kind = "confirmed" /\ Confirmed(n, u).name = n
           /\ Confirmed(n, u).uid = u
BY DEF Confirmed

\* A clear record confirms no object.
LEMMA UnclaimedIsNotConfirmed == ASSUME NEW n, NEW u PROVE Unclaimed # Confirmed(n, u)
BY Zenon DEF Unclaimed, Confirmed

\* A name without ClusterSPIFFEID is an object state (AbsentObject).
LEMMA AbsentObjectType ==
    AbsentObject \in ObjectStates /\ AbsentObject.uid = 0 /\ ~AbsentObject.there
BY DEF AbsentObject, ObjectStates, NoClaim, Claims

\* The writes to a ClusterSPIFFEID yield object states.
LEMMA ObjectTypes ==
    ASSUME NEW x \in ObjectStates
    PROVE  /\ [x EXCEPT !.dying = TRUE] \in ObjectStates
           /\ [x EXCEPT !.held = TRUE] \in ObjectStates
           /\ [x EXCEPT !.held = FALSE] \in ObjectStates
           /\ \A body \in Plans \cup {NoPlan} : [x EXCEPT !.body = body] \in ObjectStates
           /\ \A u \in Nat : /\ [x EXCEPT !.there = TRUE, !.uid = u] \in ObjectStates
                             /\ [x EXCEPT !.uid = u, !.own = FALSE] \in ObjectStates
                             /\ [x EXCEPT !.uid = u] \in ObjectStates
BY Zenon DEF ObjectStates

\* The operator between two reconciles has the shape of its step (IdleOp).
LEMMA IdleOpType == IdleOp \in OpStates /\ Shape(IdleOp)
<1>1. IdleOp \in OpStates
  BY AbsentBindingType, AbsentObjectType DEF IdleOp, OpStates, Steps, Conditions
<1>2. Shape(IdleOp)
  BY Zenon DEF IdleOp, Shape
<1>. QED
  BY <1>1, <1>2

\* Memory o2 holds no binding and no object that memory o does not hold.
Keeps(o, o2) ==
    /\ o2.key = NoBinding \/ (o2.key = o.key /\ o2.main = o.main)
    /\ \A b \in Bindings : o2.list[b] = o.list[b] \/ o2.list[b] = AbsentBinding(0)
    /\ o2.seen = o.seen \/ o2.seen = AbsentObject
    /\ o2.pc \notin {"confirm", "clear"}

\* The memory while the status is being patched, field by field (Finish).
LEMMA StatusOpType ==
    ASSUME NEW key \in Bindings, NEW main \in BindingStates, NEW plan \in Plans \cup {NoPlan},
           NEW cond \in Conditions
    PROVE  [IdleOp EXCEPT !.pc = "status", !.key = key, !.main = main, !.plan = plan,
                          !.want = cond] \in OpStates
BY IdleOpType, ZenonT(90) DEF OpStates, Steps

\* Going on to patch the status (Finish).
LEMMA FinishOK ==
    ASSUME NEW o \in OpStates, o.key \in Bindings, NEW cond \in Conditions
    PROVE  Finish(o, cond) \in OpStates /\ Shape(Finish(o, cond)) /\ Keeps(o, Finish(o, cond))
<1>1. o.main \in BindingStates /\ o.plan \in Plans \cup {NoPlan}
  BY Zenon DEF OpStates
<1>2. Finish(o, cond) \in OpStates
  BY <1>1, StatusOpType, Zenon DEF Finish
<1>3. Shape(Finish(o, cond))
  BY DEF Finish, Shape, IdleOp
<1>4. Keeps(o, Finish(o, cond))
  BY DEF Finish, Keeps, IdleOp
<1>. QED
  BY <1>2, <1>3, <1>4

\* Giving up a reconcile (IdleOp).
LEMMA IdleKeeps == ASSUME NEW o PROVE Keeps(o, IdleOp)
BY DEF Keeps, IdleOp

\* Memory o is inside listManagedClusterSPIFFEIDs or cleanupManagedClusterSPIFFEIDs.
Called(o) ==
    /\ o \in OpStates
    /\ o.key \in Bindings
    /\ o.main.there /\ o.main.fin
    /\ o.ret # ""
    /\ o.ret \in {"finalize", "stateError", "rename"} => o.who = Main
    /\ o.ret \in {"deletingPeer", "brokenPeer"} => o.who \in Bindings
    /\ o.ret \in {"rename", "deletingPeer", "brokenPeer", "withdraw"} => o.plan \in Plans

\* Going on with the next listed binding (NextPeer).
LEMMA NextPeerOK ==
    ASSUME NEW o \in OpStates, o.key \in Bindings, o.main.there, o.main.fin, o.plan \in Plans
    PROVE  NextPeer(o) \in OpStates /\ Shape(NextPeer(o)) /\ Keeps(o, NextPeer(o))
<1>. DEFINE o2 == NextPeer(o)
<1>1. o2 = [o EXCEPT !.pc = "evaluate", !.todo = o.todo \ {o.who}, !.seen = AbsentObject]
  BY DEF NextPeer
<1>. HIDE DEF o2
<1>2. o2 \in OpStates
  BY <1>1, AbsentObjectType, ZenonT(60) DEF OpStates, Steps
<1>3. /\ o2.pc = "evaluate" /\ o2.key = o.key /\ o2.main = o.main /\ o2.plan = o.plan
      /\ o2.list = o.list /\ o2.seen = AbsentObject
  BY <1>1, Zenon DEF OpStates
<1>4. Shape(o2) /\ Keeps(o, o2)
  BY <1>3 DEF Shape, Keeps
<1>. QED
  BY <1>2, <1>4 DEF o2

\* Returning from listManagedClusterSPIFFEIDs (Listed).
LEMMA ListedOK ==
    ASSUME NEW o, Called(o), NEW found \in BOOLEAN, found \/ Copy(o, o.who).rec = Unclaimed
    PROVE  Listed(o, found) \in OpStates /\ Shape(Listed(o, found)) /\ Keeps(o, Listed(o, found))
<1>. DEFINE o2 == Listed(o, found)
<1>0. /\ o \in OpStates /\ o.key \in Bindings /\ o.main.there /\ o.main.fin
      /\ o.ret \in {"finalize", "stateError", "rename", "deletingPeer", "brokenPeer", "withdraw"}
  BY Zenon DEF Called, OpStates
<1>1. CASE o.ret = "finalize" /\ found
  BY <1>1, IdleOpType, IdleKeeps DEF Listed
<1>2. CASE o.ret = "finalize" /\ ~found
  <2>1. o2 = [o EXCEPT !.pc = "removeFinalizer"]
    BY <1>2 DEF Listed
  <2>2. o.main.rec = Unclaimed
    BY <1>2 DEF Copy, Called
  <2>. HIDE DEF o2
  <2>3. o2 \in OpStates
    BY <1>0, <2>1, ZenonT(60) DEF OpStates, Steps
  <2>4. /\ o2.pc = "removeFinalizer" /\ o2.key = o.key /\ o2.main = o.main
        /\ o2.list = o.list /\ o2.seen = o.seen
    BY <1>0, <2>1, Zenon DEF OpStates
  <2>5. Shape(o2) /\ Keeps(o, o2)
    BY <1>0, <2>2, <2>4 DEF Shape, Keeps
  <2>. QED
    BY <2>3, <2>5 DEF o2
<1>3. CASE o.ret = "stateError"
  BY <1>0, <1>3, FinishOK DEF Listed, Conditions
<1>4. CASE o.ret = "rename" /\ found
  BY <1>0, <1>4, FinishOK DEF Listed, Conditions
<1>5. CASE o.ret = "rename" /\ ~found
  <2>1. o2 = [o EXCEPT !.pc = "apply"]
    BY <1>5 DEF Listed
  <2>0. o.main.rec = Unclaimed
    BY <1>5 DEF Copy, Called
  <2>2. o.main.rec.name = "" /\ o.plan \in Plans
    BY <1>5, <2>0, UnclaimedFields, Zenon DEF Called
  <2>. HIDE DEF o2
  <2>3. o2 \in OpStates
    BY <1>0, <2>1, Zenon DEF OpStates, Steps
  <2>4. /\ o2.pc = "apply" /\ o2.key = o.key /\ o2.main = o.main /\ o2.plan = o.plan
        /\ o2.list = o.list /\ o2.seen = o.seen
    BY <1>0, <2>1, Zenon DEF OpStates
  <2>5. Shape(o2) /\ Keeps(o, o2)
    BY <1>0, <2>2, <2>4, Zenon DEF Shape, Keeps
  <2>. QED
    BY <2>3, <2>5 DEF o2
<1>6. CASE o.ret = "deletingPeer" /\ found
  <2>1. o2 = [o EXCEPT !.pc = "renderPeer"]
    BY <1>6 DEF Listed
  <2>2. o.who \in Bindings /\ o.plan \in Plans
    BY <1>6 DEF Called
  <2>. HIDE DEF o2
  <2>3. o2 \in OpStates
    BY <1>0, <2>1, Zenon DEF OpStates, Steps
  <2>4. /\ o2.pc = "renderPeer" /\ o2.key = o.key /\ o2.main = o.main /\ o2.plan = o.plan
        /\ o2.who = o.who /\ o2.list = o.list /\ o2.seen = o.seen
    BY <1>0, <2>1, Zenon DEF OpStates
  <2>5. Shape(o2) /\ Keeps(o, o2)
    BY <1>0, <2>2, <2>4 DEF Shape, Keeps
  <2>. QED
    BY <2>3, <2>5 DEF o2
<1>7. CASE o.ret = "deletingPeer" /\ ~found
  BY <1>0, <1>7, NextPeerOK DEF Listed, Called
<1>8. CASE o.ret = "brokenPeer"
  <2>. DEFINE o1 == [o EXCEPT !.blocked = IF found THEN @ \cup {o.who} ELSE @]
  <2>1. o2 = NextPeer(o1)
    BY <1>8 DEF Listed
  <2>2. o.who \in Bindings /\ o.plan \in Plans
    BY <1>8 DEF Called
  <2>3. o1 \in OpStates
    BY <1>0, <2>2, ZenonT(90) DEF OpStates
  <2>4. /\ o1.key = o.key /\ o1.main = o.main /\ o1.plan = o.plan
        /\ o1.list = o.list /\ o1.seen = o.seen
    BY <1>0, Zenon DEF OpStates
  <2>. HIDE DEF o1, o2
  <2>5. NextPeer(o1) \in OpStates /\ Shape(NextPeer(o1)) /\ Keeps(o1, NextPeer(o1))
    BY <1>0, <2>2, <2>3, <2>4, NextPeerOK
  <2>6. Keeps(o, NextPeer(o1))
    BY <2>4, <2>5 DEF Keeps
  <2>. QED
    BY <2>1, <2>5, <2>6 DEF o2
<1>9. CASE o.ret = "withdraw" /\ found
  BY <1>0, <1>9, FinishOK DEF Listed, Conditions
<1>10. CASE o.ret = "withdraw" /\ ~found
  <2>1. o2 = [o EXCEPT !.pc = "confirmAbsent", !.todo = @ \ {o.who}]
    BY <1>10 DEF Listed
  <2>2. o.plan \in Plans
    BY <1>10 DEF Called
  <2>. HIDE DEF o2
  <2>3. o2 \in OpStates
    BY <1>0, <2>1, ZenonT(60) DEF OpStates, Steps
  <2>4. /\ o2.pc = "confirmAbsent" /\ o2.key = o.key /\ o2.main = o.main /\ o2.plan = o.plan
        /\ o2.list = o.list /\ o2.seen = o.seen
    BY <1>0, <2>1, Zenon DEF OpStates
  <2>5. Shape(o2) /\ Keeps(o, o2)
    BY <1>0, <2>2, <2>4 DEF Shape, Keeps
  <2>. QED
    BY <2>3, <2>5 DEF o2
<1>. QED
  BY <1>0, <1>1, <1>2, <1>3, <1>4, <1>5, <1>6, <1>7, <1>8, <1>9, <1>10

\* Entering listManagedClusterSPIFFEIDs (ListManaged).
LEMMA ListManagedOK ==
    ASSUME NEW o, NEW x \in Bindings \cup {Main}, NEW ret,
           Called([o EXCEPT !.pc = "observe", !.who = x, !.mode = "list", !.ret = ret]),
           o \in OpStates
    PROVE  /\ ListManaged(o, x, ret) \in OpStates
           /\ Shape(ListManaged(o, x, ret))
           /\ Keeps(o, ListManaged(o, x, ret))
<1>. DEFINE call == [o EXCEPT !.pc = "observe", !.who = x, !.mode = "list", !.ret = ret]
<1>1. /\ call.pc = "observe" /\ call.key = o.key /\ call.main = o.main /\ call.list = o.list
      /\ call.seen = o.seen /\ call.who = x /\ call.mode = "list" /\ call.ret = ret
  BY Zenon DEF OpStates
<1>2. Called(call)
  OBVIOUS
<1>3. Copy(call, call.who) = Copy(o, x)
  BY <1>1 DEF Copy
<1>4. Copy(o, x).rec \in Records
  BY Zenon DEF Copy, OpStates, BindingStates
<1>5. ListManaged(o, x, ret)
      = IF Copy(o, x).rec.kind = "unclaimed" THEN Listed(call, FALSE) ELSE call
  BY DEF ListManaged
<1>. HIDE DEF call
<1>6. CASE Copy(o, x).rec.kind = "unclaimed"
  <2>1. Copy(call, call.who).rec = Unclaimed
    BY <1>3, <1>4, <1>6, Zenon DEF Records, WellFormed
  <2>2. /\ Listed(call, FALSE) \in OpStates /\ Shape(Listed(call, FALSE))
        /\ Keeps(call, Listed(call, FALSE))
    BY <1>2, <2>1, ListedOK, Zenon
  <2>3. Keeps(o, Listed(call, FALSE))
    BY <1>1, <2>2, Zenon DEF Keeps
  <2>. QED
    BY <1>5, <1>6, <2>2, <2>3, Zenon
<1>7. CASE Copy(o, x).rec.kind # "unclaimed"
  <2>1. call \in OpStates
    BY <1>2, Zenon DEF Called
  <2>2. Shape(call)
    BY <1>1, <1>2, <1>3, <1>7, Zenon DEF Shape, Called
  <2>3. Keeps(o, call)
    BY <1>1 DEF Keeps
  <2>. QED
    BY <1>5, <1>7, <2>1, <2>2, <2>3
<1>. QED
  BY <1>6, <1>7

\* Returning from cleanupManagedClusterSPIFFEIDs (CleanedUp).
LEMMA CleanedUpOK ==
    ASSUME NEW o, Called(o)
    PROVE  CleanedUp(o) \in OpStates /\ Shape(CleanedUp(o)) /\ Keeps(o, CleanedUp(o))
<1>1. /\ o \in OpStates /\ o.key \in Bindings /\ o.main.there /\ o.main.fin
  BY Zenon DEF Called
<1>2. CASE o.ret = "withdraw"
  <2>. DEFINE o2 == [o EXCEPT !.pc = "withdraw", !.todo = o.todo \ {o.who}]
  <2>1. CleanedUp(o) = o2
    BY <1>2 DEF CleanedUp
  <2>2. o.plan \in Plans
    BY <1>2 DEF Called
  <2>3. o2 \in OpStates
    BY <1>1, ZenonT(60) DEF OpStates, Steps
  <2>4. /\ o2.pc = "withdraw" /\ o2.key = o.key /\ o2.main = o.main /\ o2.plan = o.plan
        /\ o2.list = o.list /\ o2.seen = o.seen
    BY <1>1, Zenon DEF OpStates
  <2>. HIDE DEF o2
  <2>5. Shape(o2) /\ Keeps(o, o2)
    BY <1>1, <2>2, <2>4 DEF Shape, Keeps
  <2>. QED
    BY <2>1, <2>3, <2>5
<1>3. CASE o.ret # "withdraw"
  <2>. DEFINE call == [o EXCEPT !.pc = "observe", !.who = o.who, !.mode = "list", !.ret = o.ret]
  <2>1. CleanedUp(o) = ListManaged(o, o.who, o.ret)
    BY <1>3 DEF CleanedUp
  <2>2. o.who \in Bindings \cup {Main}
    BY <1>1, Zenon DEF OpStates
  <2>3. call \in OpStates
    BY <1>1, ZenonT(90) DEF OpStates, Steps
  <2>4. /\ call.key = o.key /\ call.main = o.main /\ call.plan = o.plan
        /\ call.who = o.who /\ call.ret = o.ret
    BY <1>1, Zenon DEF OpStates
  <2>5. Called(call)
    <3>. HIDE DEF call
    <3>. QED
      BY <2>3, <2>4, Zenon DEF Called
  <2>. QED
    BY <1>1, <2>1, <2>2, <2>5, ListManagedOK, Zenon
<1>. QED
  BY <1>2, <1>3

\* Going on once the record agrees with the observation (Settled).
LEMMA SettledOK ==
    ASSUME NEW o \in OpStates, NEW found \in BOOLEAN,
           o.key \in Bindings, o.main.there, o.main.fin,
           o.mode # "",
           o.mode \in {"cleanup", "list"} => Called(o),
           o.mode \in {"apply", "created"} => o.who = Main /\ o.plan \in Plans,
           found => /\ Copy(o, o.who).rec = Confirmed(Copy(o, o.who).rec.name, o.seen.uid)
                    /\ o.mode = "apply" => o.main.rec.name = o.plan.name,
           ~found => Copy(o, o.who).rec = Unclaimed
    PROVE  /\ Settled(o, found) \in OpStates
           /\ Shape(Settled(o, found))
           /\ Keeps(o, Settled(o, found))
<1>. DEFINE o2 == Settled(o, found)
<1>0. o.mode \in {"cleanup", "list", "apply", "created"}
  BY Zenon DEF OpStates
<1>1. CASE o.mode = "cleanup" /\ found
  <2>1. o2 = [o EXCEPT !.pc = "delete"]
    BY <1>1 DEF Settled
  <2>. HIDE DEF o2
  <2>2. o2 \in OpStates
    BY <2>1, Zenon DEF OpStates, Steps
  <2>3. /\ o2.pc = "delete" /\ o2.key = o.key /\ o2.main = o.main /\ o2.plan = o.plan
        /\ o2.who = o.who /\ o2.list = o.list /\ o2.seen = o.seen /\ o2.mode = o.mode
        /\ o2.ret = o.ret
    BY <2>1, Zenon DEF OpStates
  <2>4. Copy(o2, o2.who) = Copy(o, o.who)
    BY <2>3, Zenon DEF Copy
  <2>5. Copy(o, o.who).rec.kind = "confirmed"
    BY <1>1 DEF Confirmed
  <2>6. Called(o)
    BY <1>1
  <2>7. Shape(o2)
    BY <1>1, <2>3, <2>4, <2>5, <2>6, Zenon DEF Shape, Called
  <2>8. Keeps(o, o2)
    BY <2>3, Zenon DEF Keeps
  <2>. QED
    BY <2>2, <2>7, <2>8, Zenon DEF o2
<1>2. CASE o.mode = "cleanup" /\ ~found
  BY <1>2, CleanedUpOK DEF Settled
<1>3. CASE o.mode = "list"
  <2>1. Settled(o, found) = Listed(o, found)
    BY <1>3 DEF Settled
  <2>. QED
    BY <1>3, <2>1, ListedOK
<1>4. CASE o.mode = "apply" /\ found
  <2>1. o2 = [o EXCEPT !.pc = "update"]
    BY <1>4 DEF Settled
  <2>2. o.who = Main /\ o.plan \in Plans /\ o.main.rec = Confirmed(o.plan.name, o.seen.uid)
    BY <1>4 DEF Copy
  <2>. HIDE DEF o2
  <2>3. o2 \in OpStates
    BY <2>1, ZenonT(60) DEF OpStates, Steps
  <2>4. /\ o2.pc = "update" /\ o2.key = o.key /\ o2.main = o.main /\ o2.plan = o.plan
        /\ o2.who = o.who /\ o2.list = o.list /\ o2.seen = o.seen
    BY <2>1, Zenon DEF OpStates
  <2>5. Shape(o2) /\ Keeps(o, o2)
    BY <2>2, <2>4, Zenon DEF Shape, Keeps
  <2>. QED
    BY <2>3, <2>5, Zenon DEF o2
<1>5. CASE o.mode = "apply" /\ ~found /\ o.seen.there
  <2>1. o2 = Finish(o, "ApplyFailed")
    BY <1>5 DEF Settled, ApplyFailed
  <2>. QED
    BY <2>1, FinishOK, Zenon DEF Conditions
<1>6. CASE o.mode = "apply" /\ ~found /\ ~o.seen.there
  <2>1. o2 = [o EXCEPT !.pc = "reserve"]
    BY <1>6 DEF Settled
  <2>2. o.who = Main /\ o.plan \in Plans /\ o.main.rec = Unclaimed
    BY <1>6 DEF Copy
  <2>. HIDE DEF o2
  <2>3. o2 \in OpStates
    BY <2>1, ZenonT(60) DEF OpStates, Steps
  <2>4. /\ o2.pc = "reserve" /\ o2.key = o.key /\ o2.main = o.main /\ o2.plan = o.plan
        /\ o2.who = o.who /\ o2.list = o.list /\ o2.seen = o.seen
    BY <2>1, Zenon DEF OpStates
  <2>5. Shape(o2) /\ Keeps(o, o2)
    BY <2>2, <2>4, Zenon DEF Shape, Keeps
  <2>. QED
    BY <2>3, <2>5, Zenon DEF o2
<1>7. CASE o.mode = "created"
  <2>1. o2 = Finish(o, "Ready")
    BY <1>7 DEF Settled
  <2>. QED
    BY <2>1, FinishOK, Zenon DEF Conditions
<1>. QED
  BY <1>0, <1>1, <1>2, <1>3, <1>4, <1>5, <1>6, <1>7, Zenon

-----------------------------------------------------------------------------
(* Steps. *)

\* IsCopy in the next state, of a copy c of this state.
NextIsCopy(c, b) ==
    /\ c.rv <= live'[b].rv
    /\ c.rv = live'[b].rv => c = live'[b]
    /\ c.rec.uid < nextUid'
    /\ \A n \in Names :
          object'[n].there /\ c.rec = Confirmed(n, object'[n].uid) => live'[b].rec = c.rec

\* What every step does to the stored state: a binding that changes gets a higher
\* resourceVersion and gives up no incarnation that is there, and an object that
\* was not there before has a fresh UID.
Grows ==
    /\ \A b \in Bindings :
          \/ live'[b] = live[b]
          \/ /\ live'[b].rv > live[b].rv
             /\ \A n \in Names : object[n].there /\ live[b].rec = Confirmed(n, object[n].uid)
                                 => live'[b].rec = live[b].rec
    /\ \A n \in Names : object'[n].there => \/ object[n].there /\ object'[n].uid = object[n].uid
                                            \/ object'[n].uid = nextUid
    /\ nextUid' >= nextUid

\* What StoredOK says about the bindings and objects of the next state.
NextStored ==
    /\ \A b \in Bindings :
          /\ live'[b].rv > 0
          /\ live'[b].rec.uid < nextUid'
          /\ live'[b].rec = Unclaimed \/ (live'[b].there /\ live'[b].fin)
    /\ \A n \in Names : object'[n].uid < nextUid'
    /\ nextUid' > 0

\* Arithmetic on the counters: what one step adds, and where they start.
LEMMA Successor == ASSUME NEW n \in Nat PROVE n + 1 \in Nat /\ n < n + 1
OBVIOUS

\* Arithmetic of versions.
LEMMA Versions ==
    ASSUME NEW i \in Nat, NEW j \in Nat
    PROVE  /\ 0 <= i /\ i <= i /\ (i <= j => i = j \/ i < j) /\ (i > j <=> j < i) /\ (i >= j <=> j <= i)
           /\ i <= j => ~(j < i)
BY SMT

\* The version after j is later than any up to j.
LEMMA NextVersion ==
    ASSUME NEW i \in Nat, NEW j \in Nat, NEW v, v = j + 1, i <= j
    PROVE  v \in Nat /\ j <= v /\ i <= v /\ i < v /\ v > i /\ ~(i >= v)
BY SMT

\* A later version is at least as late.
LEMMA LaterVersion == ASSUME NEW i \in Nat, NEW j \in Nat, j > i PROVE j >= i /\ i < j
BY SMT

\* A version before one that is reached is before it.
LEMMA EarlierVersion ==
    ASSUME NEW i \in Nat, NEW j \in Nat, NEW k \in Nat, i < j, j <= k PROVE i < k
BY SMT

\* Versions are ordered.
LEMMA UpTo == ASSUME NEW i \in Nat, NEW j \in Nat, NEW k \in Nat, i <= j, j <= k PROVE i <= k
BY SMT

\* A step that writes neither a binding nor an object keeps what StoredOK says.
LEMMA StoredStays ==
    ASSUME ReconcilerInvariant, UNCHANGED <<live, object, nextUid>>
    PROVE  Grows /\ NextStored
<1>1. nextUid \in Nat
  BY DEF ReconcilerInvariant, TypeOK
<1>2. Grows
  BY <1>1 DEF Grows
<1>3. NextStored
  BY <1>1 DEF ReconcilerInvariant, StoredOK, NextStored
<1>. QED
  BY <1>2, <1>3

\* A copy older than the stored binding that confirms no object is a valid copy.
LEMMA CopyBelow ==
    ASSUME NEW c, NEW b, c.rv = 0, live[b].rv = 1, c.rec.uid = 0, nextUid = 1,
           \A n \in Names : c.rec # Confirmed(n, object[n].uid)
    PROVE  IsCopy(c, b)
BY DEF IsCopy

\* The memory o holds copies of the next state's bindings.
NextHeld(o) ==
    /\ \A b \in Bindings : NextIsCopy(o.list[b], b)
    /\ o.key \in Bindings => NextIsCopy(o.main, o.key)
    /\ o.seen.uid < nextUid'

\* A copy remains a copy (the resourceVersion of patchOwnershipStatus and Update).
LEMMA CopyRemains ==
    ASSUME TypeOK, TypeOK', Grows, NEW c \in BindingStates, NEW b \in Bindings, IsCopy(c, b)
    PROVE  NextIsCopy(c, b)
<1>1. /\ live[b] \in BindingStates /\ live'[b] \in BindingStates
      /\ nextUid \in Nat /\ nextUid' \in Nat
  BY DEF TypeOK
<1>2. /\ c.rv \in Nat /\ live[b].rv \in Nat /\ live'[b].rv \in Nat
      /\ c.rec \in Records
  BY <1>1 DEF BindingStates
<1>3. c.rec.uid \in Nat
  BY <1>2, Zenon DEF Records
<1>4. c.rv <= live'[b].rv /\ (c.rv = live'[b].rv => c = live'[b])
  BY <1>2 DEF Grows, IsCopy
<1>5. c.rec.uid < nextUid'
  BY <1>1, <1>3 DEF Grows, IsCopy
<1>6. ASSUME NEW n \in Names, object'[n].there, c.rec = Confirmed(n, object'[n].uid)
      PROVE  live'[b].rec = c.rec
  <2>1. c.rec.uid = object'[n].uid
    BY <1>6, ConfirmedFields
  <2>2. c.rec.uid < nextUid
    BY DEF IsCopy
  <2>3. object[n].there /\ object'[n].uid = object[n].uid
    BY <1>1, <1>3, <1>6, <2>1, <2>2 DEF Grows
  <2>4. live[b].rec = c.rec
    BY <1>6, <2>3 DEF IsCopy
  <2>. QED
    BY <1>6, <2>3, <2>4 DEF Grows
<1>. QED
  BY <1>4, <1>5, <1>6 DEF NextIsCopy

\* What the operator holds remains so (NextHeld).
LEMMA HeldRemains ==
    ASSUME TypeOK, TypeOK', Grows, Copies, StoredOK
    PROVE  NextHeld(op) /\ \A b \in Bindings : NextIsCopy(cache[b], b) /\ NextIsCopy(live[b], b)
<1>1. op \in OpStates /\ live \in [Bindings -> BindingStates] /\ cache \in [Bindings -> BindingStates]
  BY DEF TypeOK
<1>2. /\ op.main \in BindingStates /\ op.list \in [Bindings -> BindingStates]
      /\ op.seen.uid \in Nat /\ nextUid \in Nat /\ nextUid' \in Nat
  BY <1>1, Zenon DEF OpStates, TypeOK, ObjectStates
<1>3. ASSUME NEW b \in Bindings PROVE NextIsCopy(op.list[b], b) /\ NextIsCopy(cache[b], b)
  BY <1>1, <1>2, CopyRemains DEF Copies
<1>4. op.key \in Bindings => NextIsCopy(op.main, op.key)
  BY <1>2, CopyRemains DEF Copies
<1>5. op.seen.uid < nextUid'
  BY <1>2 DEF StoredOK, Grows
<1>6. ASSUME NEW b \in Bindings PROVE NextIsCopy(live[b], b)
  <2>1. live[b] \in BindingStates /\ live[b].rv \in Nat
    BY <1>1 DEF BindingStates
  <2>2. IsCopy(live[b], b)
    BY <2>1 DEF IsCopy, StoredOK
  <2>. QED
    BY <2>1, <2>2, CopyRemains
<1>. QED
  BY <1>3, <1>4, <1>5, <1>6 DEF NextHeld

\* A binding the operator does not know is a copy of any binding (IdleOp).
LEMMA AbsentIsCopy ==
    ASSUME TypeOK', NextStored, NEW b \in Bindings PROVE NextIsCopy(AbsentBinding(0), b)
<1>1. live'[b].rv \in Nat /\ live'[b].rv > 0 /\ nextUid' > 0
  BY DEF TypeOK, BindingStates, NextStored
<1>2. AbsentBinding(0).rv = 0 /\ AbsentBinding(0).rec = Unclaimed
  BY AbsentBindingType
<1>3. AbsentBinding(0).rec.uid = 0 /\ AbsentBinding(0).rec.kind = "unclaimed"
  BY <1>2, UnclaimedFields, Zenon
<1>4. ASSUME NEW n \in Names PROVE AbsentBinding(0).rec # Confirmed(n, object'[n].uid)
  <2>1. Confirmed(n, object'[n].uid).kind = "confirmed"
    BY ConfirmedFields
  <2>. QED
    BY <1>3, <2>1
<1>. QED
  BY <1>1, <1>2, <1>3, <1>4 DEF NextIsCopy

\* The next state satisfies the invariant if it holds copies that memory o holds.
LEMMA StepOK ==
    ASSUME TypeOK', NextStored, Shape(op'), Pursued', ~LateCreates => inflight' = {},
           \A b \in Bindings : NextIsCopy(cache'[b], b),
           NEW o, NextHeld(o),
           op'.key = NoBinding \/ (op'.key = o.key /\ op'.main = o.main),
           \A b \in Bindings : op'.list[b] = o.list[b] \/ op'.list[b] = AbsentBinding(0),
           op'.seen = o.seen \/ op'.seen = AbsentObject
    PROVE  ReconcilerInvariant'
<1>1. op'.seen.uid < nextUid'
  BY AbsentObjectType DEF NextHeld, NextStored
<1>2. StoredOK'
  BY <1>1, SMTT(30) DEF NextStored, StoredOK
<1>3. ASSUME NEW b \in Bindings PROVE IsCopy(op.list[b], b)'
  <2>2. NextIsCopy(AbsentBinding(0), b)
    BY AbsentIsCopy
  <2>3. NextIsCopy(op'.list[b], b)
    BY <2>2 DEF NextHeld
  <2>. QED
    BY <2>3 DEF NextIsCopy, IsCopy
<1>4. op'.key \in Bindings => IsCopy(op.main, op.key)'
  <2>1. op'.key \in Bindings => NextIsCopy(op'.main, op'.key)
    BY ConstantsAssumption, Zenon DEF NextHeld
  <2>. QED
    BY <2>1 DEF NextIsCopy, IsCopy
<1>5. ASSUME NEW b \in Bindings PROVE IsCopy(cache[b], b)'
  <2>1. NextIsCopy(cache'[b], b)
    OBVIOUS
  <2>. QED
    BY <2>1 DEF NextIsCopy, IsCopy
<1>6. Copies'
  BY <1>3, <1>4, <1>5 DEF Copies
<1>. QED
  BY <1>2, <1>6 DEF ReconcilerInvariant

\* A step after which the operator is neither about to confirm nor to clear a record.
LEMMA MemoryStep ==
    ASSUME ReconcilerInvariant, TypeOK', Grows, NextStored, Shape(op'), cache' = cache,
           inflight' = inflight, NEW o, NextHeld(o), Keeps(o, op')
    PROVE  ReconcilerInvariant'
<1>1. Pursued'
  BY DEF Keeps, Pursued
<1>2. ~LateCreates => inflight' = {}
  BY DEF ReconcilerInvariant
<1>3. \A b \in Bindings : NextIsCopy(cache'[b], b)
  BY HeldRemains DEF ReconcilerInvariant
<1>4. /\ op'.key = NoBinding \/ (op'.key = o.key /\ op'.main = o.main)
      /\ \A b \in Bindings : op'.list[b] = o.list[b] \/ op'.list[b] = AbsentBinding(0)
      /\ op'.seen = o.seen \/ op'.seen = AbsentObject
  BY DEF Keeps
<1>. QED
  BY <1>1, <1>2, <1>3, <1>4, StepOK, SMTT(30)

\* A step that leaves what is stored alone, typed and growing trivially.
LEMMA StoredUnchanged ==
    ASSUME ReconcilerInvariant, op' \in OpStates, faults' \in Nat,
           UNCHANGED <<live, cache, object, pool, inflight, nextUid, nextClaim, moves>>
    PROVE  TypeOK' /\ Grows /\ NextStored
<1>1. TypeOK'
  BY DEF ReconcilerInvariant, TypeOK
<1>2. Grows
  BY DEF ReconcilerInvariant, TypeOK, Grows
<1>3. NextStored
  BY DEF ReconcilerInvariant, StoredOK, NextStored
<1>. QED
  BY <1>1, <1>2, <1>3

\* A step that changes the operator's memory only, and only drops copies.
LEMMA LocalStep ==
    ASSUME ReconcilerInvariant, op' \in OpStates, Shape(op'), Keeps(op, op'), faults' \in Nat,
           UNCHANGED <<live, cache, object, pool, inflight, nextUid, nextClaim, moves>>
    PROVE  ReconcilerInvariant'
<1>1. TypeOK' /\ Grows /\ NextStored
  BY StoredUnchanged
<1>2. NextHeld(op)
  BY <1>1, HeldRemains DEF ReconcilerInvariant
<1>. QED
  BY <1>1, <1>2, MemoryStep

\* What the invariant says about a stored binding.
LEMMA LiveFacts ==
    ASSUME ReconcilerInvariant, NEW b \in Bindings
    PROVE  /\ live \in [Bindings -> BindingStates]
           /\ live[b] \in BindingStates
           /\ live[b].rec \in Records
           /\ live[b].rv \in Nat
           /\ live[b].rv + 1 \in Nat
<1>1. live \in [Bindings -> BindingStates] /\ live[b] \in BindingStates
  BY Zenon DEF ReconcilerInvariant, TypeOK
<1>2. live[b].rec \in Records /\ live[b].rv \in Nat
  BY <1>1, Zenon DEF BindingStates
<1>3. live[b].rv + 1 \in Nat
  BY <1>2
<1>. QED
  BY <1>1, <1>2, <1>3

\* The recorded UID of the copy the operator works on was handed out before.
LEMMA PursuedCopy ==
    ASSUME ReconcilerInvariant, op.key \in Bindings
    PROVE  /\ Copy(op, op.who) \in BindingStates
           /\ Target(op.who) \in Bindings
           /\ IsCopy(Copy(op, op.who), Target(op.who))
           /\ Copy(op, op.who).rec \in Records
           /\ Copy(op, op.who).rec.uid \in Nat
           /\ Copy(op, op.who).rec.uid < nextUid
<1>1. op \in OpStates
  BY DEF ReconcilerInvariant, TypeOK
<1>2. Copy(op, op.who) \in BindingStates /\ Target(op.who) \in Bindings
  BY <1>1, Zenon DEF OpStates, Copy, Target
<1>3. IsCopy(Copy(op, op.who), Target(op.who))
  BY <1>1, ConstantsAssumption, Zenon DEF OpStates, Copy, Target, ReconcilerInvariant, Copies
<1>4. Copy(op, op.who).rec \in Records
  BY <1>2 DEF BindingStates
<1>5. Copy(op, op.who).rec.uid \in Nat
  BY <1>4, Zenon DEF Records
<1>6. Copy(op, op.who).rec.uid < nextUid
  BY <1>3 DEF IsCopy
<1>. QED
  BY <1>2, <1>3, <1>4, <1>5, <1>6

\* An object of the operator's own is the one that was there before.
OwnKept ==
    \A n \in Names : object'[n].there /\ object'[n].own =>
        \/ LateCreates
        \/ /\ object[n].there /\ object[n].own
           /\ object'[n].claim = object[n].claim
           /\ object'[n].uid = object[n].uid

\* A step of the environment, which does not change the operator's memory.
LEMMA EnvironmentStep ==
    ASSUME ReconcilerInvariant, TypeOK', Grows, NextStored, op' = op,
           ~LateCreates => inflight' = {},
           cache' = cache \/ cache' = live,
           OwnKept
    PROVE  ReconcilerInvariant'
<1>1. Shape(op')
  BY DEF ReconcilerInvariant
<1>2. NextHeld(op) /\ \A b \in Bindings : NextIsCopy(cache[b], b) /\ NextIsCopy(live[b], b)
  BY HeldRemains DEF ReconcilerInvariant
<1>3. \A b \in Bindings : NextIsCopy(cache'[b], b)
  BY <1>2
<1>4. ASSUME op.pc \in {"clear", "confirm"} PROVE Pursued'
  <2>. DEFINE rec == Copy(op, op.who).rec
              n == rec.name
  <2>1. op.key \in Bindings /\ rec.kind # "unclaimed"
    BY <1>4, Zenon DEF ReconcilerInvariant, Shape
  <2>2. rec \in Records /\ rec.uid \in Nat /\ rec.uid < nextUid
    BY <2>1, PursuedCopy
  <2>3. n \in Names
    BY <2>1, <2>2, Zenon DEF Records, WellFormed
  <2>. HIDE DEF rec, n
  <2>4. nextUid \in Nat
    BY DEF ReconcilerInvariant, TypeOK
  <2>5. rec.kind = "confirmed" /\ Matches(rec, object'[n]) => Matches(rec, object[n])
    BY <2>2, <2>3, <2>4 DEF Matches, Grows
  <2>6. ~LateCreates /\ object'[n].own /\ Matches(rec, object'[n])
        => object[n].own /\ Matches(rec, object[n]) /\ object'[n].uid = object[n].uid
    BY <2>3, ZenonT(60) DEF Matches, OwnKept
  <2>7. /\ op.pc = "clear" => /\ ~(rec.kind = "confirmed" /\ Matches(rec, object[n]))
                              /\ ~LateCreates => ~(object[n].own /\ Matches(rec, object[n]))
        /\ op.pc = "confirm" /\ ~LateCreates =>
              (object[n].own /\ Matches(rec, object[n]) => object[n].uid = op.seen.uid)
    BY DEF ReconcilerInvariant, Pursued, rec, n
  <2>8. /\ op.pc = "clear" => /\ ~(rec.kind = "confirmed" /\ Matches(rec, object'[n]))
                              /\ ~LateCreates => ~(object'[n].own /\ Matches(rec, object'[n]))
        /\ op.pc = "confirm" /\ ~LateCreates =>
              (object'[n].own /\ Matches(rec, object'[n]) => object'[n].uid = op.seen.uid)
    BY <2>5, <2>6, <2>7
  <2>9. rec = Copy(op', op'.who).rec /\ n = Copy(op', op'.who).rec.name
    BY SMTT(30) DEF rec, n
  <2>. QED
    BY <2>8, <2>9, Zenon DEF Pursued, Matches, Copy
<1>5. ASSUME op.pc \notin {"clear", "confirm"} PROVE Pursued'
  BY <1>5 DEF Pursued
<1>6. Pursued'
  BY <1>4, <1>5, SMTT(30)
<1>. QED
  BY <1>1, <1>2, <1>3, <1>6, StepOK

\* A step that stores a binding under a higher resourceVersion.
LEMMA BindingWritten ==
    ASSUME ReconcilerInvariant, NEW b \in Bindings, NEW new \in BindingStates,
           live' = [live EXCEPT ![b] = new],
           new.rv = live[b].rv + 1,
           new.rec.uid < nextUid,
           new.rec = Unclaimed \/ (new.there /\ new.fin),
           \A n \in Names : object[n].there /\ live[b].rec = Confirmed(n, object[n].uid)
                            => new.rec = live[b].rec,
           UNCHANGED <<cache, object, pool, inflight, nextUid>>,
           op' \in OpStates, nextClaim' \in Nat, moves' \in Nat, faults' \in Nat
    PROVE  TypeOK' /\ Grows /\ NextStored /\ NextIsCopy(new, b)
<1>1. /\ live \in [Bindings -> BindingStates] /\ live[b].rv \in Nat /\ nextUid \in Nat
      /\ object \in [Names -> ObjectStates] /\ new.rv \in Nat
  BY ZenonT(60) DEF ReconcilerInvariant, TypeOK, BindingStates
<1>2. live' \in [Bindings -> BindingStates]
  BY <1>1
<1>3. TypeOK'
  BY <1>2, SMTT(30) DEF ReconcilerInvariant, TypeOK
<1>4. live'[b] = new /\ \A x \in Bindings : x # b => live'[x] = live[x]
  BY <1>1, SMTT(30)
<1>5. Grows
  BY <1>1, <1>4 DEF Grows
<1>6. NextStored
  <2>1. new.rv > 0
    BY <1>1
  <2>. QED
    BY <1>1, <1>4, <2>1, ZenonT(60) DEF NextStored, ReconcilerInvariant, StoredOK
<1>7. NextIsCopy(new, b)
  BY <1>1, <1>4, SMTT(60) DEF NextIsCopy
<1>. QED
  BY <1>3, <1>5, <1>6, <1>7

\* A step that stores an object: the one that was there, or one with a fresh UID.
LEMMA ObjectWritten ==
    ASSUME ReconcilerInvariant, NEW n \in Names, NEW new \in ObjectStates,
           object' = [object EXCEPT ![n] = new],
           \/ nextUid' = nextUid /\ new.uid < nextUid /\
                 (new.there => object[n].there /\ new.uid = object[n].uid)
           \/ nextUid' = nextUid + 1 /\ new.uid = nextUid,
           UNCHANGED <<live, cache, pool, nextClaim>>,
           inflight' \in SUBSET inflight,
           op' \in OpStates, moves' \in Nat, faults' \in Nat
    PROVE  TypeOK' /\ Grows /\ NextStored
<1>1. /\ object \in [Names -> ObjectStates] /\ nextUid \in Nat /\ new.uid \in Nat
      /\ live \in [Bindings -> BindingStates]
  BY DEF ReconcilerInvariant, TypeOK, ObjectStates
<1>2. object' \in [Names -> ObjectStates] /\ nextUid' \in Nat /\ nextUid' >= nextUid
  BY <1>1
<1>3. TypeOK'
  BY <1>2 DEF ReconcilerInvariant, TypeOK
<1>4. object'[n] = new /\ \A x \in Names : x # n => object'[x] = object[x]
  BY <1>1
<1>5. Grows
  BY <1>1, <1>2, <1>4 DEF Grows
<1>6. \A x \in Names : object'[x].uid < nextUid'
  <2>1. ASSUME NEW x \in Names PROVE object'[x].uid < nextUid'
    <3>1. object[x].uid \in Nat /\ object[x].uid < nextUid
      BY <1>1 DEF ObjectStates, ReconcilerInvariant, StoredOK
    <3>. QED
      BY <1>1, <1>2, <1>4, <3>1, SMTT(30)
  <2>. QED
    BY <2>1
<1>7. ASSUME NEW b \in Bindings PROVE live'[b].rec.uid < nextUid'
  <2>1. live[b].rec \in Records
    BY <1>1 DEF BindingStates
  <2>2. live[b].rec.uid \in Nat
    BY <2>1, Zenon DEF Records
  <2>. QED
    BY <1>1, <1>2, <2>2 DEF ReconcilerInvariant, StoredOK
<1>8. NextStored
  BY <1>1, <1>2, <1>6, <1>7 DEF NextStored, ReconcilerInvariant, StoredOK
<1>. QED
  BY <1>3, <1>5, <1>8

-----------------------------------------------------------------------------
(* The environment. *)

\* A new binding is a binding state (NewBinding).
LEMMA NewBindingType ==
    ASSUME NEW s \in Specs, NEW rv \in Nat
    PROVE  /\ NewBinding(s, rv) \in BindingStates
           /\ NewBinding(s, rv).rec = Unclaimed
           /\ NewBinding(s, rv).rv = rv
<1>1. AbsentBinding(rv) \in BindingStates /\ AbsentBinding(rv).rec = Unclaimed /\ AbsentBinding(rv).rv = rv
  BY AbsentBindingType
<1>. QED
  BY <1>1, Zenon DEF NewBinding, BindingStates

\* What the invariant says about the object under a name.
LEMMA ObjectFacts ==
    ASSUME ReconcilerInvariant, NEW n \in Names
    PROVE  /\ object \in [Names -> ObjectStates]
           /\ object[n] \in ObjectStates
           /\ object[n].uid \in Nat /\ object[n].uid < nextUid
           /\ nextUid \in Nat /\ nextUid > 0
           /\ moves \in Nat
BY DEF ReconcilerInvariant, TypeOK, StoredOK, ObjectStates

\* Crashes, the cache, users and other controllers keep the invariant.
LEMMA EnvironmentOK ==
    ASSUME ReconcilerInvariant
    PROVE  Users \/ Others \/ Crash \/ SyncCache \/ (\E c \in inflight : LandCreate(c))
           => ReconcilerInvariant'
\* Crash, SyncCache and ChangePool preserve the invariant.
<1>CrashOK. ASSUME Crash PROVE ReconcilerInvariant'
  <2>. USE <1>CrashOK
  <2>1. op' = IdleOp /\ faults' \in Nat
    BY DEF Crash, Answer, ReconcilerInvariant, TypeOK
  <2>. QED
    BY <2>1, IdleOpType, IdleKeeps, LocalStep, SMTT(30) DEF Crash
\* The cache catches up with the stored bindings (SyncCache).
<1>SyncCacheOK. ASSUME SyncCache PROVE ReconcilerInvariant'
  <2>. USE <1>SyncCacheOK
  <2>1. TypeOK'
    BY DEF SyncCache, ReconcilerInvariant, TypeOK
  <2>2. UNCHANGED <<live, object, op, inflight, nextUid>> /\ nextUid \in Nat
    BY DEF SyncCache, ReconcilerInvariant, TypeOK
  <2>3. Grows
    BY <2>2 DEF Grows
  <2>4. NextStored
    BY <2>2 DEF ReconcilerInvariant, StoredOK, NextStored
  <2>5. OwnKept
    BY <2>2 DEF OwnKept
  <2>. QED
    BY <2>1, <2>2, <2>3, <2>4, <2>5, EnvironmentStep, SMTT(30) DEF SyncCache, ReconcilerInvariant
\* A user changes an InferencePool (ChangePool).
<1>ChangePoolOK. ASSUME NEW p \in Pools, ChangePool(p) PROVE ReconcilerInvariant'
  <2>. USE <1>ChangePoolOK
  <2>1. TypeOK'
    BY DEF ChangePool, Move, ReconcilerInvariant, TypeOK
  <2>2. UNCHANGED <<live, object, op, inflight, nextUid>> /\ nextUid \in Nat
    BY DEF ChangePool, ReconcilerInvariant, TypeOK
  <2>3. Grows
    BY <2>2 DEF Grows
  <2>4. NextStored
    BY <2>2 DEF ReconcilerInvariant, StoredOK, NextStored
  <2>5. OwnKept
    BY <2>2 DEF OwnKept
  <2>. QED
    BY <2>1, <2>2, <2>3, <2>4, <2>5, EnvironmentStep, SMTT(30) DEF ChangePool, ReconcilerInvariant
\* A user writes a binding (CreateBinding, EditBinding and DeleteBinding).
<1>UserWrite.
      ASSUME NEW b \in Bindings, NEW new \in BindingStates,
             live' = [live EXCEPT ![b] = new], new.rv = live[b].rv + 1,
             new.rec = live[b].rec,
             new.rec = Unclaimed \/ (new.there /\ new.fin),
             Move, UNCHANGED <<cache, object, pool, inflight, nextUid, nextClaim, op, faults>>
      PROVE  ReconcilerInvariant'
  <2>. USE <1>UserWrite
  <2>1. /\ new.rec.uid < nextUid /\ op' \in OpStates /\ nextClaim' \in Nat /\ moves' \in Nat
        /\ faults' \in Nat
    BY DEF ReconcilerInvariant, StoredOK, TypeOK, Move
  <2>2. TypeOK' /\ Grows /\ NextStored
    BY <2>1, BindingWritten, Zenon
  <2>3. OwnKept
    BY DEF OwnKept
  <2>. QED
    BY <2>2, <2>3, EnvironmentStep, SMTT(30) DEF ReconcilerInvariant
\* The actions of the users preserve the invariant (CreateBinding).
<1>CreateBindingOK.
      ASSUME NEW b \in Bindings, NEW s \in Specs, CreateBinding(b, s)
      PROVE  ReconcilerInvariant'
  <2>. USE <1>CreateBindingOK
  <2>. DEFINE new == NewBinding(s, live[b].rv + 1)
  <2>1. live[b].rv \in Nat /\ live[b].rv + 1 \in Nat
    BY DEF ReconcilerInvariant, TypeOK, BindingStates
  <2>2. new \in BindingStates /\ new.rec = Unclaimed /\ new.rv = live[b].rv + 1
    BY <2>1, NewBindingType
  <2>3. live[b].rec = Unclaimed
    BY DEF CreateBinding, ReconcilerInvariant, StoredOK
  <2>. QED
    BY <2>2, <2>3, <1>UserWrite, Zenon DEF CreateBinding
\* The actions of the users preserve the invariant (EditBinding).
<1>EditBindingOK.
      ASSUME NEW b \in Bindings, NEW s \in Specs, EditBinding(b, s)
      PROVE  ReconcilerInvariant'
  <2>. USE <1>EditBindingOK
  <2>. DEFINE new == [live[b] EXCEPT !.spec = s, !.rv = live[b].rv + 1]
  <2>1. live \in [Bindings -> BindingStates] /\ live[b] \in BindingStates
    BY DEF ReconcilerInvariant, TypeOK
  <2>2. /\ new \in BindingStates /\ new.rec = live[b].rec /\ new.rv = live[b].rv + 1
        /\ (new.there <=> live[b].there) /\ (new.fin <=> live[b].fin)
    <3>1. live[b].rv + 1 \in Nat
      BY <2>1 DEF BindingStates
    <3>2. new.rec = live[b].rec /\ new.rv = live[b].rv + 1
      BY <2>1 DEF BindingStates
    <3>3. new.there = live[b].there /\ new.fin = live[b].fin
      BY <2>1 DEF BindingStates
    <3>. QED
      BY <2>1, <3>1, <3>2, <3>3, BindingTypes, Zenon
  <2>3. live' = [live EXCEPT ![b] = new]
    BY <2>1, Zenon DEF EditBinding
  <2>4. live[b].rec = Unclaimed \/ (live[b].there /\ live[b].fin)
    BY DEF ReconcilerInvariant, StoredOK
  <2>. HIDE DEF new
  <2>5. new.rec = Unclaimed \/ (new.there /\ new.fin)
    BY <2>2, <2>4
  <2>6. Move /\ UNCHANGED <<cache, object, pool, inflight, nextUid, nextClaim, op, faults>>
    BY DEF EditBinding
  <2>. QED
    BY <2>2, <2>3, <2>5, <2>6, <1>UserWrite, Zenon
\* The actions of the users preserve the invariant (DeleteBinding).
<1>DeleteBindingOK.
      ASSUME NEW b \in Bindings, DeleteBinding(b)
      PROVE  ReconcilerInvariant'
  <2>. USE <1>DeleteBindingOK
  <2>1. live \in [Bindings -> BindingStates] /\ live[b] \in BindingStates
    BY DEF ReconcilerInvariant, TypeOK
  <2>2. live[b].rec = Unclaimed \/ (live[b].there /\ live[b].fin)
    BY DEF ReconcilerInvariant, StoredOK
  <2>3. CASE live[b].fin
    <3>. DEFINE new == [live[b] EXCEPT !.deleting = TRUE, !.rv = live[b].rv + 1]
    <3>1. /\ new \in BindingStates /\ new.rec = live[b].rec /\ new.rv = live[b].rv + 1
          /\ (new.there <=> live[b].there) /\ (new.fin <=> live[b].fin)
      <4>1. live[b].rv + 1 \in Nat
        BY <2>1 DEF BindingStates
      <4>2. new.rec = live[b].rec /\ new.rv = live[b].rv + 1
        BY <2>1 DEF BindingStates
      <4>3. new.there = live[b].there /\ new.fin = live[b].fin
        BY <2>1 DEF BindingStates
      <4>. QED
        BY <2>1, <4>1, <4>2, <4>3, BindingTypes, Zenon
    <3>2. live' = [live EXCEPT ![b] = new]
      BY <2>1, <2>3, Zenon DEF DeleteBinding
    <3>. HIDE DEF new
    <3>3. new.rec = Unclaimed \/ (new.there /\ new.fin)
      BY <2>2, <3>1
    <3>4. Move /\ UNCHANGED <<cache, object, pool, inflight, nextUid, nextClaim, op, faults>>
      BY DEF DeleteBinding
    <3>. QED
      BY <3>1, <3>2, <3>3, <3>4, <1>UserWrite, Zenon
  <2>4. CASE ~live[b].fin
    <3>. DEFINE new == AbsentBinding(live[b].rv + 1)
    <3>1. live[b].rv + 1 \in Nat /\ live' = [live EXCEPT ![b] = new] /\ live[b].rec = Unclaimed
      BY <2>1, <2>2, <2>4, SMTT(30) DEF DeleteBinding, BindingStates
    <3>2. new \in BindingStates /\ new.rec = Unclaimed /\ new.rv = live[b].rv + 1
      BY <3>1, AbsentBindingType, SMTT(30)
    <3>. HIDE DEF new
    <3>. QED
      BY <3>1, <3>2, <1>UserWrite, Zenon DEF DeleteBinding
  <2>. QED
    BY <2>3, <2>4
\* The environment writes a ClusterSPIFFEID (the actions of other controllers, and
\* LandCreate).
<1>OthersWrite.
      ASSUME NEW n \in Names, NEW new \in ObjectStates,
             object' = [object EXCEPT ![n] = new],
             \/ nextUid' = nextUid /\ new.uid < nextUid /\
                   (new.there => object[n].there /\ new.uid = object[n].uid)
             \/ nextUid' = nextUid + 1 /\ new.uid = nextUid,
             new.there /\ new.own => \/ LateCreates
                                     \/ /\ object[n].there /\ object[n].own
                                        /\ new.claim = object[n].claim /\ new.uid = object[n].uid,
             moves' \in Nat, inflight' \in SUBSET inflight,
             UNCHANGED <<live, cache, pool, nextClaim, op, faults>>
      PROVE  ReconcilerInvariant'
  <2>. USE <1>OthersWrite
  <2>1. op' \in OpStates /\ faults' \in Nat
    BY DEF ReconcilerInvariant, TypeOK
  <2>2. TypeOK' /\ Grows /\ NextStored
    BY <2>1, ObjectWritten, Zenon
  <2>3. object'[n] = new /\ \A x \in Names : x # n => object'[x] = object[x]
    BY SMTT(30) DEF ReconcilerInvariant, TypeOK
  <2>4. OwnKept
    BY <2>3, SMTT(30) DEF OwnKept
  <2>5. ~LateCreates => inflight' = {}
    BY SMTT(30) DEF ReconcilerInvariant
  <2>. QED
    BY <2>2, <2>4, <2>5, EnvironmentStep, SMTT(30)
\* Someone else creates a ClusterSPIFFEID (OthersCreate).
<1>OthersCreateOK. ASSUME NEW n \in Names, OthersCreate(n) PROVE ReconcilerInvariant'
  <2>. USE <1>OthersCreateOK
  <2>. DEFINE new == [AbsentObject EXCEPT !.there = TRUE, !.uid = nextUid]
  <2>1. /\ object \in [Names -> ObjectStates] /\ object[n] \in ObjectStates
        /\ object[n].uid \in Nat /\ object[n].uid < nextUid /\ nextUid \in Nat /\ moves \in Nat
    BY ObjectFacts
  <2>2. new \in ObjectStates
    BY <2>1, AbsentObjectType, ObjectTypes, Zenon
  <2>3. new.uid = nextUid /\ ~new.own
    BY <2>1, AbsentObjectType DEF AbsentObject
  <2>4. object' = [object EXCEPT ![n] = new]
    BY <2>1 DEF OthersCreate
  <2>5. moves' \in Nat /\ inflight' \in SUBSET inflight
    BY <2>1 DEF OthersCreate, Move
  <2>. HIDE DEF new
  <2>. QED
    BY <2>1, <2>2, <2>3, <2>4, <2>5, <1>OthersWrite, Zenon DEF OthersCreate
\* Someone else replaces a ClusterSPIFFEID (OthersReplace).
<1>OthersReplaceOK. ASSUME NEW n \in Names, OthersReplace(n) PROVE ReconcilerInvariant'
  <2>. USE <1>OthersReplaceOK
  <2>. DEFINE new == [object[n] EXCEPT !.uid = nextUid, !.own = FALSE]
  <2>1. /\ object \in [Names -> ObjectStates] /\ object[n] \in ObjectStates
        /\ object[n].uid \in Nat /\ object[n].uid < nextUid /\ nextUid \in Nat /\ moves \in Nat
    BY ObjectFacts
  <2>2. new \in ObjectStates
    BY <2>1, AbsentObjectType, ObjectTypes, Zenon
  <2>3. new.uid = nextUid /\ ~new.own
    BY <2>1 DEF ObjectStates
  <2>4. object' = [object EXCEPT ![n] = new]
    BY <2>1, Zenon DEF OthersReplace
  <2>5. moves' \in Nat /\ inflight' \in SUBSET inflight
    BY <2>1 DEF OthersReplace, Move
  <2>. HIDE DEF new
  <2>. QED
    BY <2>1, <2>2, <2>3, <2>4, <2>5, <1>OthersWrite, Zenon DEF OthersReplace
\* Someone else edits a ClusterSPIFFEID (OthersEdit).
<1>OthersEditOK. ASSUME NEW n \in Names, OthersEdit(n) PROVE ReconcilerInvariant'
  <2>. USE <1>OthersEditOK
  <2>. DEFINE new == [object[n] EXCEPT !.body = NoPlan]
  <2>1. /\ object \in [Names -> ObjectStates] /\ object[n] \in ObjectStates
        /\ object[n].uid \in Nat /\ object[n].uid < nextUid /\ nextUid \in Nat /\ moves \in Nat
    BY ObjectFacts
  <2>2. new \in ObjectStates
    BY <2>1, AbsentObjectType, ObjectTypes, Zenon
  <2>3. /\ new.there = object[n].there /\ new.own = object[n].own
        /\ new.uid = object[n].uid /\ new.claim = object[n].claim
    BY <2>1 DEF ObjectStates
  <2>4. object' = [object EXCEPT ![n] = new]
    BY <2>1 DEF OthersEdit
  <2>5. moves' \in Nat /\ inflight' \in SUBSET inflight
    BY <2>1 DEF OthersEdit, Move
  <2>. HIDE DEF new
  <2>. QED
    BY <2>1, <2>2, <2>3, <2>4, <2>5, <1>OthersWrite, Zenon DEF OthersEdit
\* Someone else holds a ClusterSPIFFEID by a finalizer (OthersHold).
<1>OthersHoldOK. ASSUME NEW n \in Names, OthersHold(n) PROVE ReconcilerInvariant'
  <2>. USE <1>OthersHoldOK
  <2>. DEFINE new == [object[n] EXCEPT !.held = TRUE]
  <2>1. /\ object \in [Names -> ObjectStates] /\ object[n] \in ObjectStates
        /\ object[n].uid \in Nat /\ object[n].uid < nextUid /\ nextUid \in Nat /\ moves \in Nat
    BY ObjectFacts
  <2>2. new \in ObjectStates
    BY <2>1, AbsentObjectType, ObjectTypes, Zenon
  <2>3. /\ new.there = object[n].there /\ new.own = object[n].own
        /\ new.uid = object[n].uid /\ new.claim = object[n].claim
    BY <2>1 DEF ObjectStates
  <2>4. object' = [object EXCEPT ![n] = new]
    BY <2>1 DEF OthersHold
  <2>5. moves' \in Nat /\ inflight' \in SUBSET inflight
    BY <2>1 DEF OthersHold, Move
  <2>. HIDE DEF new
  <2>. QED
    BY <2>1, <2>2, <2>3, <2>4, <2>5, <1>OthersWrite, Zenon DEF OthersHold
\* Someone else deletes a ClusterSPIFFEID (OthersDelete).
<1>OthersDeleteOK. ASSUME NEW n \in Names, OthersDelete(n) PROVE ReconcilerInvariant'
  <2>. USE <1>OthersDeleteOK
  <2>1. /\ object \in [Names -> ObjectStates] /\ object[n] \in ObjectStates
        /\ object[n].uid \in Nat /\ object[n].uid < nextUid /\ nextUid \in Nat /\ moves \in Nat
        /\ nextUid > 0
    BY ObjectFacts
  <2>2. moves' \in Nat /\ inflight' \in SUBSET inflight
    BY <2>1 DEF OthersDelete, Move
  <2>3. CASE object[n].held
    <3>. DEFINE new == [object[n] EXCEPT !.dying = TRUE]
    <3>1. new \in ObjectStates
      BY <2>1, ObjectTypes, Zenon
    <3>2. /\ new.there = object[n].there /\ new.own = object[n].own
          /\ new.uid = object[n].uid /\ new.claim = object[n].claim
      BY <2>1 DEF ObjectStates
    <3>3. object' = [object EXCEPT ![n] = new]
      BY <2>1, <2>3 DEF OthersDelete
    <3>. HIDE DEF new
    <3>. QED
      BY <2>1, <2>2, <3>1, <3>2, <3>3, <1>OthersWrite, Zenon DEF OthersDelete
  <2>4. CASE ~(object[n].held)
    <3>1. object' = [object EXCEPT ![n] = AbsentObject]
      BY <2>1, <2>4 DEF OthersDelete
    <3>. QED
      BY <2>1, <2>2, <3>1, AbsentObjectType, <1>OthersWrite, Zenon DEF OthersDelete
  <2>. QED
    BY <2>3, <2>4
\* Someone else releases a ClusterSPIFFEID (OthersRelease).
<1>OthersReleaseOK. ASSUME NEW n \in Names, OthersRelease(n) PROVE ReconcilerInvariant'
  <2>. USE <1>OthersReleaseOK
  <2>1. /\ object \in [Names -> ObjectStates] /\ object[n] \in ObjectStates
        /\ object[n].uid \in Nat /\ object[n].uid < nextUid /\ nextUid \in Nat /\ moves \in Nat
        /\ nextUid > 0
    BY ObjectFacts
  <2>2. moves' \in Nat /\ inflight' \in SUBSET inflight
    BY <2>1 DEF OthersRelease, Move
  <2>3. CASE ~object[n].dying
    <3>. DEFINE new == [object[n] EXCEPT !.held = FALSE]
    <3>1. new \in ObjectStates
      BY <2>1, ObjectTypes, Zenon
    <3>2. /\ new.there = object[n].there /\ new.own = object[n].own
          /\ new.uid = object[n].uid /\ new.claim = object[n].claim
      BY <2>1 DEF ObjectStates
    <3>3. object' = [object EXCEPT ![n] = new]
      BY <2>1, <2>3 DEF OthersRelease
    <3>. HIDE DEF new
    <3>. QED
      BY <2>1, <2>2, <3>1, <3>2, <3>3, <1>OthersWrite, Zenon DEF OthersRelease
  <2>4. CASE ~(~object[n].dying)
    <3>1. object' = [object EXCEPT ![n] = AbsentObject]
      BY <2>1, <2>4 DEF OthersRelease
    <3>. QED
      BY <2>1, <2>2, <3>1, AbsentObjectType, <1>OthersWrite, Zenon DEF OthersRelease
  <2>. QED
    BY <2>3, <2>4
\* A Create that was given up takes effect (LandCreate).
<1>LandCreateOK. ASSUME NEW c \in inflight, LandCreate(c) PROVE ReconcilerInvariant'
  <2>. USE <1>LandCreateOK
  <2>1. inflight' \in SUBSET inflight /\ LateCreates
    BY DEF LandCreate, ReconcilerInvariant
  <2>2. c.name \in Names /\ c.body \in ObjectStates
    BY DEF ReconcilerInvariant, TypeOK
  <2>3. moves' \in Nat /\ op' \in OpStates /\ faults' \in Nat
    BY DEF LandCreate, ReconcilerInvariant, TypeOK
  <2>4. CASE object[c.name].there
    <3>1. TypeOK'
      BY <2>1, <2>4 DEF LandCreate, ReconcilerInvariant, TypeOK
    <3>2. Grows /\ NextStored /\ OwnKept
      BY <2>1, <2>4 DEF LandCreate, ReconcilerInvariant, TypeOK, StoredOK, Grows, NextStored, OwnKept
    <3>. QED
      BY <2>1, <3>1, <3>2, EnvironmentStep DEF LandCreate
  <2>5. CASE ~object[c.name].there
    <3>. DEFINE new == [c.body EXCEPT !.uid = nextUid]
    <3>1. nextUid \in Nat
      BY DEF ReconcilerInvariant, TypeOK
    <3>2. new \in ObjectStates
      BY <2>2, <3>1, ObjectTypes, Zenon
    <3>3. new.uid = nextUid
      BY <2>2 DEF ObjectStates
    <3>4. object' = [object EXCEPT ![c.name] = new] /\ nextUid' = nextUid + 1
      BY <2>5 DEF LandCreate
    <3>5. UNCHANGED <<live, cache, pool, nextClaim, op, faults>>
      BY DEF LandCreate
    <3>. HIDE DEF new
    <3>. QED
      BY <2>1, <2>2, <2>3, <3>2, <3>3, <3>4, <3>5, <1>OthersWrite, Zenon
  <2>. QED
    BY <2>4, <2>5
<1>1. CASE Users
  <2>1. ASSUME NEW b \in Bindings, DeleteBinding(b) PROVE ReconcilerInvariant'
    BY <2>1, <1>DeleteBindingOK, ZenonT(60)
  <2>2. ASSUME NEW b \in Bindings, NEW s \in Specs, CreateBinding(b, s) \/ EditBinding(b, s)
        PROVE  ReconcilerInvariant'
    BY <2>2, <1>CreateBindingOK, <1>EditBindingOK, ZenonT(60)
  <2>3. ASSUME NEW p \in Pools, ChangePool(p) PROVE ReconcilerInvariant'
    BY <2>3, <1>ChangePoolOK, ZenonT(60)
  <2>. QED
    BY <1>1, <2>1, <2>2, <2>3, ZenonT(60) DEF Users
<1>2. CASE Others
  <2>1. ASSUME NEW n \in SharedNames,
               OthersCreate(n) \/ OthersReplace(n) \/ OthersDelete(n) \/ OthersEdit(n)
        PROVE  ReconcilerInvariant'
    <3>1. n \in Names
      BY ConstantsAssumption, Zenon
    <3>. QED
      BY <2>1, <3>1, <1>OthersCreateOK, <1>OthersReplaceOK, <1>OthersDeleteOK, <1>OthersEditOK, ZenonT(60)
  <2>2. ASSUME NEW n \in Names, OthersHold(n) \/ OthersRelease(n) PROVE ReconcilerInvariant'
    BY <2>2, <1>OthersHoldOK, <1>OthersReleaseOK, ZenonT(60)
  <2>. QED
    BY <1>2, <2>1, <2>2, ZenonT(60) DEF Others
<1>3. ASSUME NEW c \in inflight, LandCreate(c) PROVE ReconcilerInvariant'
  BY <1>3, <1>LandCreateOK, ZenonT(60)
<1>. QED
  BY <1>1, <1>2, <1>3, <1>CrashOK, <1>SyncCacheOK, ZenonT(60)

-----------------------------------------------------------------------------
(* The reconciler: evaluating bindings and settling conflicts. *)

\* The memory of a reconcile that holds nothing but the fetched binding.
Fetched(key, main) == [IdleOp EXCEPT !.key = key, !.main = main]

\* Its type and fields.
LEMMA FetchedFields ==
    ASSUME NEW key \in Bindings, NEW main \in BindingStates, NEW o, o = Fetched(key, main)
    PROVE  /\ o \in OpStates /\ o.key = key /\ o.main = main
           /\ o.seen = AbsentObject /\ o.who = Main
           /\ \A b \in Bindings : o.list[b] = AbsentBinding(0)
<1>1. o \in OpStates
  BY IdleOpType, Zenon DEF Fetched, OpStates
<1>2. o.key = key /\ o.main = main
  BY IdleOpType, Zenon DEF Fetched, OpStates
<1>3. o.list = IdleOp.list /\ o.seen = IdleOp.seen /\ o.who = IdleOp.who
  BY IdleOpType, ZenonT(60) DEF Fetched, OpStates
<1>4. IdleOp.list = [b \in Bindings |-> AbsentBinding(0)] /\ IdleOp.seen = AbsentObject /\ IdleOp.who = Main
  BY DEF IdleOp
<1>. QED
  BY <1>1, <1>2, <1>3, <1>4

\* The memory of a reconcile that holds nothing but the fetched binding and its plan.
Planned(key, main, plan) == [IdleOp EXCEPT !.key = key, !.main = main, !.plan = plan]

\* Its type and fields.
LEMMA PlannedFields ==
    ASSUME NEW key \in Bindings, NEW main \in BindingStates, NEW plan \in Plans, NEW o, o = Planned(key, main, plan)
    PROVE  /\ o \in OpStates /\ o.key = key /\ o.main = main /\ o.plan = plan
           /\ o.seen = AbsentObject /\ o.who = Main
           /\ \A b \in Bindings : o.list[b] = AbsentBinding(0)
<1>1. o \in OpStates
  BY IdleOpType, Zenon DEF Planned, OpStates
<1>2. o.key = key /\ o.main = main /\ o.plan = plan
  BY IdleOpType, Zenon DEF Planned, OpStates
<1>3. o.list = IdleOp.list /\ o.seen = IdleOp.seen /\ o.who = IdleOp.who
  BY IdleOpType, Zenon DEF Planned, OpStates
<1>4. IdleOp.list = [b \in Bindings |-> AbsentBinding(0)] /\ IdleOp.seen = AbsentObject /\ IdleOp.who = Main
  BY DEF IdleOp
<1>. QED
  BY <1>1, <1>2, <1>3, <1>4

\* Entering the helpers (ListManaged and CleanUp).
LEMMA CallOK ==
    ASSUME NEW o \in OpStates, NEW x \in Bindings \cup {Main}, NEW mode \in {"cleanup", "list"},
           NEW ret \in {"finalize", "stateError", "rename", "deletingPeer", "brokenPeer", "withdraw"},
           o.key \in Bindings, o.main.there, o.main.fin,
           ret \in {"finalize", "stateError", "rename"} => x = Main,
           ret \in {"deletingPeer", "brokenPeer"} => x \in Bindings,
           ret \in {"rename", "deletingPeer", "brokenPeer", "withdraw"} => o.plan \in Plans
    PROVE  Called([o EXCEPT !.pc = "observe", !.who = x, !.mode = mode, !.ret = ret])
<1>. DEFINE call == [o EXCEPT !.pc = "observe", !.who = x, !.mode = mode, !.ret = ret]
<1>1. call \in OpStates
  BY ZenonT(90) DEF OpStates, Steps
<1>2. call.key = o.key /\ call.main = o.main /\ call.plan = o.plan /\ call.who = x /\ call.ret = ret
  BY Zenon DEF OpStates
<1>. HIDE DEF call
<1>3. Called(call)
  BY <1>1, <1>2, Zenon DEF Called
<1>. QED
  BY <1>3 DEF call

\* What the invariant says about the memory.
LEMMA OpFacts ==
    ASSUME ReconcilerInvariant
    PROVE  /\ op \in OpStates /\ Shape(op)
           /\ op.pc # "idle" => op.key \in Bindings
           /\ op.pc \notin {"idle", "addFinalizer", "status"} => op.main.there /\ op.main.fin
           /\ op.main \in BindingStates /\ op.list \in [Bindings -> BindingStates]
           /\ op.seen \in ObjectStates
           /\ faults \in Nat
BY Zenon DEF ReconcilerInvariant, TypeOK, Shape, OpStates

\* A reply counts at most one failure (Answer).
LEMMA AnswerType == ASSUME ReconcilerInvariant, NEW r, Answer(r) PROVE faults' \in Nat
BY DEF Answer, ReconcilerInvariant, TypeOK

\* The memory during the evaluation of conflicts.
LEMMA EvaluationFacts ==
    ASSUME ReconcilerInvariant,
           op.pc \in {"evaluate", "renderPeer", "withdraw", "confirmAbsent", "apply", "create", "update"}
    PROVE  /\ op \in OpStates /\ op.key \in Bindings /\ op.main.there /\ op.main.fin
           /\ op.plan \in Plans
BY OpFacts, Zenon DEF Shape

\* The steps of reconcileConflictState, and those before it, keep the invariant.
LEMMA EvaluationOK ==
    ASSUME ReconcilerInvariant
    PROVE  \/ \E b \in Bindings : StartReconcile(b) \/ LookUpDeleting(b)
           \/ \E b \in Bindings, r \in Replies : RenderPeer(b, r)
           \/ \E r \in Replies : RenderOwn(r)
           \/ ListBindings \/ DecideConflict \/ WithdrawnAll \/ SettleConflict \/ CRDMissing
           \/ \E m \in Bindings \cup {Main} : WithdrawMember(m) \/ ConfirmAbsent(m)
           => ReconcilerInvariant'
\* Entering cleanupManagedClusterSPIFFEIDs (CleanUp).
<1>CleanUpOK.
      ASSUME NEW o, NEW x \in Bindings \cup {Main}, NEW ret,
             Called([o EXCEPT !.pc = "observe", !.who = x, !.mode = "cleanup", !.ret = ret]),
             o \in OpStates
      PROVE  /\ CleanUp(o, x, ret) \in OpStates
             /\ Shape(CleanUp(o, x, ret))
             /\ Keeps(o, CleanUp(o, x, ret))
  <2>. USE <1>CleanUpOK
  <2>. DEFINE call == [o EXCEPT !.pc = "observe", !.who = x, !.mode = "cleanup", !.ret = ret]
  <2>1. /\ call.pc = "observe" /\ call.key = o.key /\ call.main = o.main /\ call.list = o.list
        /\ call.seen = o.seen /\ call.who = x /\ call.mode = "cleanup" /\ call.ret = ret
    BY Zenon DEF OpStates
  <2>2. Called(call)
    OBVIOUS
  <2>3. Copy(call, call.who) = Copy(o, x)
    BY <2>1 DEF Copy
  <2>4. CleanUp(o, x, ret) = IF Copy(o, x).rec.kind = "unclaimed" THEN CleanedUp(call) ELSE call
    BY DEF CleanUp
  <2>. HIDE DEF call
  <2>5. CASE Copy(o, x).rec.kind = "unclaimed"
    <3>1. CleanedUp(call) \in OpStates /\ Shape(CleanedUp(call)) /\ Keeps(call, CleanedUp(call))
      BY <2>2, CleanedUpOK
    <3>2. Keeps(o, CleanedUp(call))
      BY <2>1, <3>1 DEF Keeps
    <3>. QED
      BY <2>4, <2>5, <3>1, <3>2
  <2>6. CASE Copy(o, x).rec.kind # "unclaimed"
    <3>1. call \in OpStates
      BY <2>2, Zenon DEF Called
    <3>2. Shape(call)
      BY <2>1, <2>2, <2>3, <2>6, Zenon DEF Shape, Called
    <3>3. Keeps(o, call)
      BY <2>1 DEF Keeps
    <3>. QED
      BY <2>4, <2>6, <3>1, <3>2, <3>3
  <2>. QED
    BY <2>5, <2>6
\* Cleaning up on behalf of `ret'.
<1>CleanUpCallOK.
      ASSUME NEW o \in OpStates, NEW x \in Bindings \cup {Main},
             NEW ret \in {"finalize", "stateError", "rename", "withdraw"},
             o.key \in Bindings, o.main.there, o.main.fin,
             ret # "withdraw" => x = Main,
             ret \in {"rename", "withdraw"} => o.plan \in Plans
      PROVE  /\ CleanUp(o, x, ret) \in OpStates
             /\ Shape(CleanUp(o, x, ret))
             /\ Keeps(o, CleanUp(o, x, ret))
  <2>. USE <1>CleanUpCallOK
  <2>1. Called([o EXCEPT !.pc = "observe", !.who = x, !.mode = "cleanup", !.ret = ret])
    BY CallOK, Zenon
  <2>. QED
    BY <2>1, <1>CleanUpOK, Zenon
\* Listing on behalf of `ret'.
<1>ListCallOK.
      ASSUME NEW o \in OpStates, NEW x \in Bindings \cup {Main},
             NEW ret \in {"deletingPeer", "brokenPeer", "withdraw"},
             o.key \in Bindings, o.main.there, o.main.fin,
             ret # "withdraw" => x \in Bindings,
             o.plan \in Plans
      PROVE  /\ ListManaged(o, x, ret) \in OpStates
             /\ Shape(ListManaged(o, x, ret))
             /\ Keeps(o, ListManaged(o, x, ret))
  <2>. USE <1>ListCallOK
  <2>1. Called([o EXCEPT !.pc = "observe", !.who = x, !.mode = "list", !.ret = ret])
    BY CallOK, Zenon
  <2>. QED
    BY <2>1, ListManagedOK, Zenon
\* A copy the cache hands out is a copy (Cached).
<1>CachedIsCopy.
      ASSUME TypeOK', Grows, NEW b \in Bindings
      PROVE  Cached(b) \in BindingStates /\ NextIsCopy(Cached(b), b)
  BY <1>CachedIsCopy, HeldRemains DEF ReconcilerInvariant, TypeOK, Cached
\* Reconcile starts (StartReconcile).
<1>StartReconcileOK. ASSUME NEW b \in Bindings, StartReconcile(b) PROVE ReconcilerInvariant'
  <2>. USE <1>StartReconcileOK
  <2>. DEFINE o == Fetched(b, Cached(b))
  <2>1. Cached(b) \in BindingStates
    BY DEF ReconcilerInvariant, TypeOK, Cached
  <2>2. o = Fetched(b, Cached(b))
    OBVIOUS
  <2>4. op' = CASE o.main.deleting -> CleanUp(o, Main, "finalize")
                [] ~o.main.deleting /\ o.main.fin -> [o EXCEPT !.pc = "render"]
                [] OTHER -> [o EXCEPT !.pc = "addFinalizer"]
    BY DEF StartReconcile, Fetched
  <2>. HIDE DEF o
  <2>3. /\ o \in OpStates /\ o.key = b /\ o.main = Cached(b)
        /\ o.seen = AbsentObject /\ \A x \in Bindings : o.list[x] = AbsentBinding(0)
    BY <2>1, <2>2, FetchedFields
  <2>5. o.main.there /\ (o.main.deleting => o.main.fin)
    BY <2>3 DEF StartReconcile
  <2>6. op' \in OpStates /\ Shape(op') /\ Keeps(o, op')
    <3>1. CASE o.main.deleting
      <4>1. op' = CleanUp(o, Main, "finalize")
        BY <2>4, <3>1, ZenonT(60)
      <4>. QED
        BY <2>3, <2>5, <3>1, <4>1, <1>CleanUpCallOK
    <3>2. CASE ~o.main.deleting /\ o.main.fin
      <4>1. op' = [o EXCEPT !.pc = "render"]
        BY <2>4, <3>2
      <4>2. op' \in OpStates
        BY <2>3, <4>1, ZenonT(60) DEF OpStates, Steps
      <4>3. op'.pc = "render" /\ op'.key = o.key /\ op'.main = o.main /\ op'.list = o.list /\ op'.seen = o.seen
        BY <2>3, <4>1, Zenon DEF OpStates
      <4>. QED
        BY <2>3, <2>5, <3>2, <4>2, <4>3, ZenonT(60) DEF Shape, Keeps
    <3>3. CASE ~o.main.deleting /\ ~o.main.fin
      <4>1. op' = [o EXCEPT !.pc = "addFinalizer"]
        BY <2>4, <3>3
      <4>2. op' \in OpStates
        BY <2>3, <4>1, ZenonT(60) DEF OpStates, Steps
      <4>3. op'.pc = "addFinalizer" /\ op'.key = o.key /\ op'.main = o.main /\ op'.list = o.list /\ op'.seen = o.seen
        BY <2>3, <4>1, Zenon DEF OpStates
      <4>. QED
        BY <2>3, <2>5, <4>2, <4>3, SMTT(30) DEF Shape, Keeps
    <3>. QED
      BY <3>1, <3>2, <3>3, ZenonT(60)
  <2>7. faults' \in Nat /\ UNCHANGED <<live, cache, object, pool, inflight, nextUid, nextClaim, moves>>
    BY DEF StartReconcile, ReconcilerInvariant, TypeOK
  <2>8. TypeOK' /\ Grows /\ NextStored
    BY <2>6, <2>7, StoredUnchanged, ZenonT(60)
  <2>9. NextHeld(o)
    <3>1. NextIsCopy(o.main, o.key)
      BY <2>3, <2>8, <1>CachedIsCopy, SMTT(30)
    <3>2. \A x \in Bindings : NextIsCopy(o.list[x], x)
      BY <2>3, <2>8, AbsentIsCopy, SMTT(30)
    <3>. QED
      BY <2>3, <2>8, <3>1, <3>2, AbsentObjectType, SMTT(30) DEF NextHeld, NextStored
  <2>. QED
    BY <2>6, <2>7, <2>8, <2>9, MemoryStep
\* Rendering the binding itself (RenderOwn).
<1>RenderOwnOK. ASSUME NEW r, RenderOwn(r) PROVE ReconcilerInvariant'
  <2>. USE <1>RenderOwnOK
  <2>1. /\ op \in OpStates /\ op.key \in Bindings /\ op.main.there /\ op.main.fin
    BY OpFacts DEF RenderOwn
  <2>2. op' \in OpStates /\ Shape(op') /\ Keeps(op, op')
    <3>1. CASE op' = IdleOp
      BY <3>1, IdleOpType, IdleKeeps, ZenonT(60)
    <3>2. ASSUME NEW plan \in Plans, op' = [op EXCEPT !.pc = "list", !.plan = plan]
          PROVE  op' \in OpStates /\ Shape(op') /\ Keeps(op, op')
      <4>1. op' \in OpStates
        BY <2>1, <3>2, ZenonT(60) DEF OpStates, Steps
      <4>2. /\ op'.pc = "list" /\ op'.key = op.key /\ op'.main = op.main /\ op'.plan = plan
            /\ op'.list = op.list /\ op'.seen = op.seen
        BY <2>1, <3>2, Zenon DEF OpStates
      <4>. QED
        BY <2>1, <4>1, <4>2, SMTT(30) DEF Shape, Keeps
    <3>3. CASE op' = CleanUp(op, Main, "stateError")
      BY <2>1, <3>3, <1>CleanUpCallOK
    <3>. QED
      BY <3>1, <3>2, <3>3, Zenon DEF RenderOwn
  <2>3. faults' \in Nat
    BY AnswerType DEF RenderOwn
  <2>. QED
    BY <2>2, <2>3, LocalStep, Zenon DEF RenderOwn
\* Listing the bindings of the namespace (ListBindings).
<1>ListBindingsOK. ASSUME ListBindings PROVE ReconcilerInvariant'
  <2>. USE <1>ListBindingsOK
  <2>. DEFINE list == [b \in Bindings |-> Cached(b)]
              todo == {b \in Bindings : Cached(b).there}
  <2>1. /\ op \in OpStates /\ op.key \in Bindings /\ op.main.there /\ op.main.fin
        /\ op.plan \in Plans
    BY OpFacts DEF ListBindings, Shape
  <2>2. list \in [Bindings -> BindingStates] /\ todo \subseteq Bindings \cup {Main}
    BY DEF ReconcilerInvariant, TypeOK, Cached
  <2>3. op' = [op EXCEPT !.pc = "evaluate", !.list = list, !.todo = todo]
    BY DEF ListBindings
  <2>4. \A b \in Bindings : list[b] = Cached(b)
    OBVIOUS
  <2>. HIDE DEF list, todo
  <2>5. op' \in OpStates
    BY <2>1, <2>2, <2>3, ZenonT(60) DEF OpStates, Steps
  <2>6. /\ op'.pc = "evaluate" /\ op'.key = op.key /\ op'.main = op.main /\ op'.plan = op.plan
        /\ op'.list = list /\ op'.seen = op.seen
    BY <2>1, <2>3, Zenon DEF OpStates
  <2>7. Shape(op') /\ Keeps(op', op')
    BY <2>1, <2>6 DEF Shape, Keeps
  <2>8. faults' \in Nat /\ UNCHANGED <<live, cache, object, pool, inflight, nextUid, nextClaim, moves>>
    BY OpFacts DEF ListBindings
  <2>9. TypeOK' /\ Grows /\ NextStored
    BY <2>5, <2>8, StoredUnchanged, SMTT(30)
  <2>10. NextHeld(op')
    <3>1. NextHeld(op)
      BY <2>9, HeldRemains DEF ReconcilerInvariant
    <3>2. \A b \in Bindings : NextIsCopy(list[b], b)
      BY <2>4, <2>9, <1>CachedIsCopy
    <3>. QED
      BY <2>6, <3>1, <3>2, SMTT(30) DEF NextHeld
  <2>. QED
    BY <2>7, <2>8, <2>9, <2>10, MemoryStep
\* Looking up the output of a binding that is being deleted (LookUpDeleting).
<1>LookUpDeletingOK.
      ASSUME NEW peer \in Bindings, LookUpDeleting(peer) PROVE ReconcilerInvariant'
  <2>. USE <1>LookUpDeletingOK
  <2>1. /\ op \in OpStates /\ op.key \in Bindings /\ op.main.there /\ op.main.fin
        /\ op.plan \in Plans
    BY EvaluationFacts, ZenonT(60) DEF LookUpDeleting
  <2>2. op' \in OpStates /\ Shape(op') /\ Keeps(op, op')
    BY <2>1, <1>ListCallOK DEF LookUpDeleting
  <2>. QED
    BY <2>2, OpFacts, LocalStep DEF LookUpDeleting
\* Rendering a listed binding (RenderPeer).
<1>RenderPeerOK.
      ASSUME NEW peer \in Bindings, NEW r, RenderPeer(peer, r)
      PROVE  ReconcilerInvariant'
  <2>. USE <1>RenderPeerOK
  <2>1. /\ op \in OpStates /\ op.key \in Bindings /\ op.main.there /\ op.main.fin
        /\ op.plan \in Plans
    BY EvaluationFacts DEF RenderPeer
  <2>2. op' \in OpStates /\ Shape(op') /\ Keeps(op, op')
    <3>1. CASE op' = ApplyFailed(op)
      BY <2>1, <3>1, FinishOK, ZenonT(60) DEF ApplyFailed, Conditions
    <3>2. ASSUME NEW plan \in Plans,
                 op' = NextPeer([[op EXCEPT !.who = peer] EXCEPT !.plans = [@ EXCEPT ![peer] = plan]])
          PROVE  op' \in OpStates /\ Shape(op') /\ Keeps(op, op')
      <4>. DEFINE o == [[op EXCEPT !.who = peer] EXCEPT !.plans = [@ EXCEPT ![peer] = plan]]
      <4>1. o = [op EXCEPT !.who = peer, !.plans = [op.plans EXCEPT ![peer] = plan]]
        BY <2>1, Zenon DEF OpStates
      <4>2. op' = NextPeer(o)
        BY <3>2
      <4>. HIDE DEF o
      <4>3. o \in OpStates
        BY <2>1, <4>1, Zenon DEF OpStates
      <4>4. /\ o.key = op.key /\ o.main = op.main /\ o.plan = op.plan /\ o.list = op.list
            /\ o.seen = op.seen
        BY <2>1, <4>1, Zenon DEF OpStates
      <4>5. op' \in OpStates /\ Shape(op') /\ Keeps(o, op')
        BY <2>1, <4>2, <4>3, <4>4, NextPeerOK
      <4>. QED
        BY <4>4, <4>5 DEF Keeps
    <3>3. CASE op' = ListManaged(op, peer, "brokenPeer")
      BY <2>1, <3>3, <1>ListCallOK, ZenonT(60)
    <3>. QED
      BY <3>1, <3>2, <3>3, Zenon DEF RenderPeer
  <2>3. faults' \in Nat
    BY AnswerType DEF RenderPeer
  <2>. QED
    BY <2>2, <2>3, LocalStep, Zenon DEF RenderPeer
\* The copies whose output is withdrawn (Members).
<1>MembersType. ASSUME op \in OpStates, op.key \in Bindings PROVE Members(op) \subseteq Bindings \cup {Main}
  <2>. USE <1>MembersType
  <2>1. op.blocked \subseteq Bindings
    BY Zenon DEF OpStates
  <2>2. Conflicts(op) \subseteq Bindings
    BY DEF Conflicts, ConflictPeers
  <2>. QED
    BY <2>1, <2>2 DEF Members
\* Deciding what the evaluation calls for (DecideConflict).
<1>DecideConflictOK. ASSUME DecideConflict PROVE ReconcilerInvariant'
  <2>. USE <1>DecideConflictOK
  <2>. DEFINE members == Members(op)
              free == Planned(op.key, op.main, op.plan)
  <2>1. /\ op \in OpStates /\ op.key \in Bindings /\ op.main.there /\ op.main.fin
        /\ op.plan \in Plans /\ op.main \in BindingStates
    BY EvaluationFacts, OpFacts, Zenon DEF DecideConflict
  <2>2. members \subseteq Bindings \cup {Main}
    BY <2>1, <1>MembersType
  <2>3. op' = IF members # {}
              THEN [op EXCEPT !.pc = "withdraw", !.members = members, !.todo = members]
              ELSE IF op.main.rec.name \in {"", op.plan.name}
                   THEN [free EXCEPT !.pc = "apply"]
                   ELSE CleanUp(free, Main, "rename")
    BY Zenon DEF DecideConflict, Planned
  <2>4. free = Planned(op.key, op.main, op.plan)
    BY SMTT(30)
  <2>. HIDE DEF members, free
  <2>5. /\ free \in OpStates /\ free.key = op.key /\ free.main = op.main /\ free.plan = op.plan
        /\ free.seen = AbsentObject /\ \A b \in Bindings : free.list[b] = AbsentBinding(0)
    BY <2>1, <2>4, PlannedFields
  <2>6. op' \in OpStates /\ Shape(op') /\ Keeps(op, op')
    <3>1. CASE members # {}
      <4>1. op' = [op EXCEPT !.pc = "withdraw", !.members = members, !.todo = members]
        BY <2>3, <3>1
      <4>2. op' \in OpStates
        BY <2>1, <2>2, <4>1, Zenon DEF OpStates, Steps
      <4>3. /\ op'.pc = "withdraw" /\ op'.key = op.key /\ op'.main = op.main /\ op'.plan = op.plan
            /\ op'.list = op.list /\ op'.seen = op.seen
        BY <2>1, <4>1, Zenon DEF OpStates
      <4>. QED
        BY <2>1, <4>2, <4>3, SMTT(30) DEF Shape, Keeps
    <3>2. CASE members = {} /\ op.main.rec.name \in {"", op.plan.name}
      <4>1. op' = [free EXCEPT !.pc = "apply"]
        BY <2>3, <3>2, Zenon
      <4>2. op' \in OpStates
        BY <2>5, <4>1, ZenonT(60) DEF OpStates, Steps
      <4>3. /\ op'.pc = "apply" /\ op'.key = free.key /\ op'.main = free.main /\ op'.plan = free.plan
            /\ op'.list = free.list /\ op'.seen = free.seen
        BY <2>5, <4>1, Zenon DEF OpStates
      <4>. QED
        BY <2>1, <2>5, <3>2, <4>2, <4>3, Zenon DEF Shape, Keeps
    <3>3. CASE op' = CleanUp(free, Main, "rename")
      <4>1. op' \in OpStates /\ Shape(op') /\ Keeps(free, op')
        BY <2>1, <2>5, <3>3, <1>CleanUpCallOK, SMTT(30)
      <4>. QED
        BY <2>5, <4>1, SMTT(30) DEF Keeps
    <3>. QED
      BY <2>3, <3>1, <3>2, <3>3, ZenonT(60)
  <2>. QED
    BY <2>6, OpFacts, LocalStep, Zenon DEF DecideConflict
\* Withdrawing the output of a member (WithdrawMember).
<1>WithdrawMemberOK.
      ASSUME NEW m \in Bindings \cup {Main}, WithdrawMember(m)
      PROVE  ReconcilerInvariant'
  <2>. USE <1>WithdrawMemberOK
  <2>1. /\ op \in OpStates /\ op.key \in Bindings /\ op.main.there /\ op.main.fin
        /\ op.plan \in Plans
    BY EvaluationFacts, SMTT(30) DEF WithdrawMember
  <2>2. op' \in OpStates /\ Shape(op') /\ Keeps(op, op')
    BY <2>1, <1>CleanUpCallOK DEF WithdrawMember
  <2>. QED
    BY <2>2, OpFacts, LocalStep, SMTT(30) DEF WithdrawMember
\* The first loop of withdrawConflictOutputs is done (WithdrawnAll).
<1>WithdrawnAllOK. ASSUME WithdrawnAll PROVE ReconcilerInvariant'
  <2>. USE <1>WithdrawnAllOK
  <2>1. /\ op \in OpStates /\ op.key \in Bindings /\ op.main.there /\ op.main.fin
        /\ op.plan \in Plans
    BY EvaluationFacts DEF WithdrawnAll
  <2>2. op' = [op EXCEPT !.pc = "confirmAbsent", !.todo = op.members]
    BY DEF WithdrawnAll
  <2>3. op' \in OpStates
    BY <2>1, <2>2, ZenonT(60) DEF OpStates, Steps
  <2>4. /\ op'.pc = "confirmAbsent" /\ op'.key = op.key /\ op'.main = op.main /\ op'.plan = op.plan
        /\ op'.list = op.list /\ op'.seen = op.seen
    BY <2>1, <2>2, Zenon DEF OpStates
  <2>5. Shape(op') /\ Keeps(op, op')
    BY <2>1, <2>4, ZenonT(60) DEF Shape, Keeps
  <2>. QED
    BY <2>3, <2>5, OpFacts, LocalStep DEF WithdrawnAll
\* Confirming that a member has no output (ConfirmAbsent).
<1>ConfirmAbsentOK.
      ASSUME NEW m \in Bindings \cup {Main}, ConfirmAbsent(m)
      PROVE  ReconcilerInvariant'
  <2>. USE <1>ConfirmAbsentOK
  <2>1. /\ op \in OpStates /\ op.key \in Bindings /\ op.main.there /\ op.main.fin
        /\ op.plan \in Plans
    BY EvaluationFacts, SMTT(30) DEF ConfirmAbsent
  <2>2. op' \in OpStates /\ Shape(op') /\ Keeps(op, op')
    BY <2>1, <1>ListCallOK DEF ConfirmAbsent
  <2>. QED
    BY <2>2, OpFacts, LocalStep, SMTT(30) DEF ConfirmAbsent
\* The conflict is settled (SettleConflict).
<1>SettleConflictOK. ASSUME SettleConflict PROVE ReconcilerInvariant'
  <2>. USE <1>SettleConflictOK
  <2>1. op \in OpStates /\ op.key \in Bindings
    BY EvaluationFacts DEF SettleConflict
  <2>2. op' \in OpStates /\ Shape(op') /\ Keeps(op, op')
    <3>1. CASE op' = Finish(op, "PendingConflict")
      BY <2>1, <3>1, FinishOK DEF Conditions
    <3>2. CASE op' = [Finish(op, "Conflict") EXCEPT !.members = op.members]
      <4>. DEFINE o == Finish(op, "Conflict")
      <4>1. o \in OpStates /\ Shape(o) /\ Keeps(op, o) /\ o.pc = "status"
        BY <2>1, FinishOK, ZenonT(90) DEF Conditions, Finish, IdleOp
      <4>2. op' = [o EXCEPT !.members = op.members] /\ op.members \subseteq Bindings \cup {Main}
        BY <2>1, <3>2, Zenon DEF OpStates
      <4>. HIDE DEF o
      <4>3. op' \in OpStates
        BY <4>1, <4>2, Zenon DEF OpStates
      <4>4. /\ op'.pc = o.pc /\ op'.key = o.key /\ op'.main = o.main /\ op'.plan = o.plan
            /\ op'.list = o.list /\ op'.seen = o.seen
        BY <4>1, <4>2, Zenon DEF OpStates
      <4>5. Keeps(op, op')
        BY <4>1, <4>4, ZenonT(60) DEF Keeps
      <4>6. Shape(op')
        BY <4>1, <4>4, ZenonT(60) DEF Shape
      <4>. QED
        BY <4>3, <4>5, <4>6
    <3>. QED
      BY <3>1, <3>2 DEF SettleConflict
  <2>. QED
    BY <2>2, OpFacts, LocalStep DEF SettleConflict
\* The CRD is missing (CRDMissing).
<1>CRDMissingOK. ASSUME CRDMissing PROVE ReconcilerInvariant'
  <2>. USE <1>CRDMissingOK
  <2>1. /\ op \in OpStates /\ op.key \in Bindings /\ op.main.there /\ op.main.fin
    BY EvaluationFacts, SMTT(30) DEF CRDMissing
  <2>2. op' \in OpStates /\ Shape(op') /\ Keeps(op, op')
    BY <2>1, <1>CleanUpCallOK DEF CRDMissing
  <2>3. faults' \in Nat
    BY AnswerType, ZenonT(60) DEF CRDMissing
  <2>. QED
    BY <2>2, <2>3, LocalStep, ZenonT(60) DEF CRDMissing
<1>1. ASSUME NEW b \in Bindings, StartReconcile(b) \/ LookUpDeleting(b) PROVE ReconcilerInvariant'
  BY <1>1, <1>StartReconcileOK, <1>LookUpDeletingOK, ZenonT(60)
<1>2. ASSUME NEW b \in Bindings, NEW r \in Replies, RenderPeer(b, r) PROVE ReconcilerInvariant'
  BY <1>2, <1>RenderPeerOK, ZenonT(60)
<1>3. ASSUME NEW r \in Replies, RenderOwn(r) PROVE ReconcilerInvariant'
  BY <1>3, <1>RenderOwnOK, ZenonT(60)
<1>4. CASE ListBindings \/ DecideConflict \/ WithdrawnAll \/ SettleConflict \/ CRDMissing
  BY <1>4, <1>ListBindingsOK, <1>DecideConflictOK, <1>WithdrawnAllOK, <1>SettleConflictOK, <1>CRDMissingOK, ZenonT(60)
<1>5. ASSUME NEW m \in Bindings \cup {Main}, WithdrawMember(m) \/ ConfirmAbsent(m)
      PROVE  ReconcilerInvariant'
  BY <1>5, <1>WithdrawMemberOK, <1>ConfirmAbsentOK, ZenonT(60)
<1>. QED
  BY <1>1, <1>2, <1>3, <1>4, <1>5, ZenonT(60)

-----------------------------------------------------------------------------
(* The reconciler: finalizers, ownership records and status. *)

\* The records the operator writes are well formed.
LEMMA RecordTypes ==
    /\ Unclaimed \in Records
    /\ \A n \in Names, u \in Nat : Confirmed(n, u) \in Records
    /\ \A n \in Names, c \in Claims : Pending(n, c) \in Records
<1>1. NoClaim \in Claims
  BY DEF NoClaim, Claims
<1>2. Unclaimed \in Records
  BY <1>1, Zenon DEF Unclaimed, Records, WellFormed
<1>3. ASSUME NEW n \in Names, NEW u \in Nat PROVE Confirmed(n, u) \in Records
  BY <1>1, Zenon DEF Confirmed, Records, WellFormed
<1>4. ASSUME NEW n \in Names, NEW c \in Claims PROVE Pending(n, c) \in Records
  BY Zenon DEF Pending, Records, WellFormed
<1>. QED
  BY <1>2, <1>3, <1>4

\* A binding stored with another record (Recorded).
LEMMA RecordedFields ==
    ASSUME ReconcilerInvariant, op.key \in Bindings, NEW rec \in Records, NEW new, new = Recorded(rec)
    PROVE  /\ new \in BindingStates
           /\ new.rec = rec
           /\ new.rv = live[Target(op.who)].rv + 1
           /\ (new.there <=> live[Target(op.who)].there)
           /\ (new.fin <=> live[Target(op.who)].fin)
<1>. DEFINE b == Target(op.who)
<1>1. b \in Bindings /\ live[b] \in BindingStates
  <2>1. b \in Bindings
    BY PursuedCopy, Zenon
  <2>. QED
    BY <2>1, Zenon DEF ReconcilerInvariant, TypeOK
<1>2. live[b].rv + 1 \in Nat
  BY <1>1 DEF BindingStates
<1>3. new = [live[b] EXCEPT !.rec = rec, !.rv = live[b].rv + 1]
  BY <1>1 DEF Recorded, BindingStates
<1>. HIDE DEF b
<1>4. new \in BindingStates
  <2>1. [live[b] EXCEPT !.rec = rec, !.rv = live[b].rv + 1] \in BindingStates
    BY <1>1, <1>2, BindingTypes, Zenon
  <2>. QED
    BY <1>3, <2>1
<1>5. new.rec = rec /\ new.rv = live[b].rv + 1
  BY <1>1, <1>3 DEF BindingStates
<1>6. new.there = live[b].there /\ new.fin = live[b].fin
  BY <1>1, <1>3, ZenonT(60) DEF BindingStates
<1>. QED
  BY <1>4, <1>5, <1>6, ZenonT(60) DEF b

\* The memory with another copy of a binding (WithCopy).
LEMMA WithCopyFields ==
    ASSUME op \in OpStates, NEW new \in BindingStates, NEW o, o = WithCopy(op, op.who, new)
    PROVE  /\ o \in OpStates
           /\ o.key = op.key /\ o.plan = op.plan /\ o.who = op.who /\ o.mode = op.mode
           /\ o.ret = op.ret /\ o.seen = op.seen
           /\ Copy(o, o.who) = new
           /\ op.who = Main => o.main = new /\ o.list = op.list
           /\ op.who # Main => /\ o.main = op.main
                               /\ \A b \in Bindings : o.list[b] = IF b = op.who THEN new ELSE op.list[b]
<1>1. CASE op.who = Main
  <2>1. o = [op EXCEPT !.main = new]
    BY <1>1 DEF WithCopy
  <2>2. o \in OpStates
    BY <2>1, Zenon DEF OpStates
  <2>3. /\ o.key = op.key /\ o.plan = op.plan /\ o.who = op.who /\ o.mode = op.mode
        /\ o.ret = op.ret /\ o.seen = op.seen /\ o.main = new /\ o.list = op.list
    BY <2>1, Zenon DEF OpStates
  <2>. QED
    BY <1>1, <2>2, <2>3 DEF Copy
<1>2. CASE op.who # Main
  <2>. DEFINE list == [op.list EXCEPT ![op.who] = new]
  <2>1. o = [op EXCEPT !.list = list]
    BY <1>2, Zenon DEF WithCopy, OpStates
  <2>2. /\ list \in [Bindings -> BindingStates]
        /\ \A b \in Bindings : list[b] = IF b = op.who THEN new ELSE op.list[b]
        /\ op.who \in Bindings
    BY <1>2, Zenon DEF OpStates
  <2>. HIDE DEF list
  <2>3. o \in OpStates
    BY <2>1, <2>2, ZenonT(90) DEF OpStates
  <2>4. /\ o.key = op.key /\ o.plan = op.plan /\ o.who = op.who /\ o.mode = op.mode
        /\ o.ret = op.ret /\ o.seen = op.seen /\ o.main = op.main /\ o.list = list
    BY <2>1, Zenon DEF OpStates
  <2>. QED
    BY <1>2, <2>2, <2>3, <2>4, SMTT(30) DEF Copy
<1>. QED
  BY <1>1, <1>2, ZenonT(60)

\* A step of the operator that fails, after it stored something or not (ApplyFailed
\* and IdleOp).
LEMMA GivingUp ==
    ASSUME ReconcilerInvariant, op.key \in Bindings, TypeOK', Grows, NextStored, cache' = cache,
           inflight' = inflight,
           op' = IdleOp \/ \E cond \in Conditions : op' = Finish(op, cond)
    PROVE  ReconcilerInvariant'
<1>1. Shape(op') /\ Keeps(op, op')
  BY OpFacts, FinishOK, IdleOpType, IdleKeeps, ZenonT(60)
<1>2. NextHeld(op)
  BY HeldRemains, ZenonT(60) DEF ReconcilerInvariant
<1>. QED
  BY <1>1, <1>2, MemoryStep, ZenonT(60)

\* The writes to the binding itself keep the invariant.
LEMMA RecordingOK ==
    ASSUME ReconcilerInvariant
    PROVE  (\E r \in Replies : \/ Confirm(r) \/ Clear(r) \/ Reserve(r)
                              \/ AddFinalizer(r) \/ RemoveFinalizer(r) \/ PatchStatus(r))
           => ReconcilerInvariant'
\* As above: a clear record's UID is below every UID still to be handed out.
<1>ZeroBelow. ASSUME NEW n, n > 0 PROVE 0 \in Nat /\ 0 < n
  BY <1>ZeroBelow
\* Writing the record of the copy the operator works on (patchOwnershipStatus).
<1>PatchRecordOK.
      ASSUME NEW r, NEW rec \in Records, NEW found \in BOOLEAN,
             op.pc \in {"confirm", "clear"},
             PatchOwnership(r, Recorded(rec), Settled(WithCopy(op, op.who, Recorded(rec)), found)),
             found => rec = Confirmed(Copy(op, op.who).rec.name, op.seen.uid),
             ~found => rec = Unclaimed,
             \A n \in Names : object[n].there => Copy(op, op.who).rec # Confirmed(n, object[n].uid),
             UNCHANGED <<cache, object, pool, inflight, nextUid, nextClaim, moves>>
      PROVE  ReconcilerInvariant'
  <2>. USE <1>PatchRecordOK
  <2>. DEFINE c == Copy(op, op.who)
              b == Target(op.who)
              new == Recorded(rec)
              o == WithCopy(op, op.who, new)
  <2>1. /\ op \in OpStates /\ op.key \in Bindings /\ op.main.there /\ op.main.fin
    BY OpFacts
  <2>2. /\ c.rec.kind # "unclaimed" /\ op.mode # ""
        /\ op.mode \in {"apply", "created"} =>
              op.who = Main /\ op.main.rec.name = op.plan.name /\ op.plan \in Plans
        /\ op.mode \in {"cleanup", "list"} =>
              /\ op.ret # ""
              /\ op.ret \in {"finalize", "stateError", "rename"} => op.who = Main
              /\ op.ret \in {"deletingPeer", "brokenPeer"} => op.who \in Bindings
              /\ op.ret \in {"rename", "deletingPeer", "brokenPeer", "withdraw"} => op.plan \in Plans
    BY OpFacts, Zenon DEF Shape
  <2>3. c \in BindingStates /\ b \in Bindings /\ IsCopy(c, b) /\ live[b] \in BindingStates
    BY <2>1, PursuedCopy, Zenon DEF ReconcilerInvariant, TypeOK
  <2>4. /\ new \in BindingStates /\ new.rec = rec /\ new.rv = live[b].rv + 1
        /\ (new.there <=> live[b].there) /\ (new.fin <=> live[b].fin)
    BY <2>1, RecordedFields, Zenon
  <2>5. /\ o \in OpStates
        /\ o.key = op.key /\ o.plan = op.plan /\ o.who = op.who /\ o.mode = op.mode
        /\ o.ret = op.ret /\ o.seen = op.seen
        /\ Copy(o, o.who) = new
        /\ op.who = Main => o.main = new /\ o.list = op.list
        /\ op.who # Main => /\ o.main = op.main
                            /\ \A x \in Bindings : o.list[x] = IF x = op.who THEN new ELSE op.list[x]
    BY <2>1, <2>4, WithCopyFields, ZenonT(90)
  <2>6. rec.uid \in Nat /\ rec.uid < nextUid
    <3>1. op.seen.uid \in Nat /\ op.seen.uid < nextUid /\ nextUid > 0
      BY OpFacts, Zenon DEF ObjectStates, ReconcilerInvariant, StoredOK
    <3>2. CASE found
      <4>1. rec = Confirmed(Copy(op, op.who).rec.name, op.seen.uid)
        BY <3>2, ZenonT(60)
      <4>2. Confirmed(Copy(op, op.who).rec.name, op.seen.uid).uid = op.seen.uid
        BY Zenon DEF Confirmed
      <4>. QED
        BY <3>1, <4>1, <4>2, ZenonT(60)
    <3>3. CASE ~found
      <4>1. rec = Unclaimed
        BY <3>3
      <4>2. rec.uid = 0
        BY <4>1, UnclaimedFields, Zenon
      <4>. QED
        BY <3>1, <4>2, <1>ZeroBelow, ZenonT(60)
    <3>. QED
      BY <3>2, <3>3, SMTT(30)
  <2>7. \/ live' = live /\ op' = ApplyFailed(op)
        \/ c.rv = live[b].rv /\ live' = [live EXCEPT ![b] = new]
              /\ (op' = ApplyFailed(op) \/ op' = Settled(o, found))
    BY Zenon DEF PatchOwnership
  <2>8. faults' \in Nat /\ moves' \in Nat /\ nextClaim' \in Nat
    BY AnswerType, Zenon DEF PatchOwnership, ReconcilerInvariant, TypeOK
  <2>9. b = IF op.who = Main THEN op.key ELSE op.who
    BY ZenonT(60) DEF Target
  <2>10. c = IF op.who = Main THEN op.main ELSE op.list[op.who]
    BY SMTT(30) DEF Copy
  <2>. HIDE DEF c, b, new, o
  <2>11. CASE live' = live /\ op' = ApplyFailed(op)
    <3>1. op' \in OpStates /\ Shape(op') /\ Keeps(op, op')
      BY <2>1, <2>11, FinishOK, ZenonT(60) DEF ApplyFailed, Conditions
    <3>. QED
      BY <2>8, <2>11, <3>1, LocalStep, ZenonT(60)
  <2>12. CASE c.rv = live[b].rv /\ live' = [live EXCEPT ![b] = new]
              /\ (op' = ApplyFailed(op) \/ op' = Settled(o, found))
    <3>1. c = live[b]
      BY <2>3, <2>12, ZenonT(60) DEF IsCopy
    <3>2. live[b].there /\ live[b].fin
      <4>1. live[b].rec # Unclaimed
        BY <2>2, <3>1, UnclaimedFields, ZenonT(60)
      <4>. QED
        BY <2>3, <4>1, SMTT(30) DEF ReconcilerInvariant, StoredOK
    <3>3. op' \in OpStates /\ Shape(op') /\ (op' = ApplyFailed(op) \/ Keeps(o, op'))
      <4>1. CASE op' = ApplyFailed(op)
        BY <2>1, <4>1, FinishOK, Zenon DEF ApplyFailed, Conditions
      <4>2. CASE op' = Settled(o, found)
        <5>1. o.key \in Bindings /\ o.main.there /\ o.main.fin
          BY <2>1, <2>4, <2>5, <3>2, Zenon
        <5>2. o.mode \in {"cleanup", "list"} => Called(o)
          BY <2>2, <2>5, <5>1, Zenon DEF Called
        <5>3. found => /\ Copy(o, o.who).rec = Confirmed(Copy(o, o.who).rec.name, o.seen.uid)
                       /\ o.mode = "apply" => o.main.rec.name = o.plan.name
          <6>. SUFFICES ASSUME found PROVE /\ new.rec = Confirmed(new.rec.name, op.seen.uid)
                                           /\ o.mode = "apply" => o.main.rec.name = o.plan.name
            BY <2>5, ZenonT(60)
          <6>1. new.rec = Confirmed(c.rec.name, op.seen.uid)
            BY <2>4, ZenonT(60) DEF c
          <6>2. Confirmed(c.rec.name, op.seen.uid).name = c.rec.name
            BY Zenon DEF Confirmed
          <6>3. new.rec.name = c.rec.name
            BY <6>1, <6>2, ZenonT(60)
          <6>. QED
            BY <2>2, <2>5, <2>10, <6>1, <6>3, Zenon
        <5>4. ~found => Copy(o, o.who).rec = Unclaimed
          BY <2>4, <2>5, ZenonT(60)
        <5>5. o.mode # "" /\ (o.mode \in {"apply", "created"} => o.who = Main /\ o.plan \in Plans)
          BY <2>2, <2>5, Zenon
        <5>. QED
          BY <2>5, <4>2, <5>1, <5>2, <5>3, <5>4, <5>5, SettledOK, Zenon
      <4>. QED
        BY <2>12, <4>1, <4>2, ZenonT(60)
    <3>4. TypeOK' /\ Grows /\ NextStored /\ NextIsCopy(new, b)
      <4>1. new.rec.uid < nextUid /\ (new.rec = Unclaimed \/ (new.there /\ new.fin))
        BY <2>4, <2>6, <3>2, ZenonT(60)
      <4>2. \A n \in Names : object[n].there /\ live[b].rec = Confirmed(n, object[n].uid)
                             => new.rec = live[b].rec
        BY <3>1, ZenonT(60) DEF c
      <4>. QED
        BY <2>3, <2>4, <2>8, <2>12, <3>3, <4>1, <4>2, BindingWritten, Zenon
    <3>5. CASE op' = ApplyFailed(op)
      BY <2>1, <3>4, <3>5, GivingUp, ZenonT(60) DEF ApplyFailed, Conditions
    <3>6. CASE Keeps(o, op')
      <4>1. NextHeld(op)
        BY <3>4, HeldRemains, ZenonT(60) DEF ReconcilerInvariant
      <4>2. NextHeld(o)
        <5>1. \A x \in Bindings : NextIsCopy(o.list[x], x)
          BY <2>5, <2>9, <3>4, <4>1, Zenon DEF NextHeld
        <5>2. o.key \in Bindings => NextIsCopy(o.main, o.key)
          BY <2>5, <2>9, <3>4, <4>1, Zenon DEF NextHeld
        <5>. QED
          BY <2>5, <4>1, <5>1, <5>2, Zenon DEF NextHeld
      <4>. QED
        BY <3>3, <3>4, <3>6, <4>2, MemoryStep, ZenonT(60)
    <3>. QED
      BY <3>3, <3>5, <3>6, ZenonT(60)
  <2>. QED
    BY <2>7, <2>11, <2>12, ZenonT(60)
\* Replacing a claim by the UID that was observed (Confirm).
<1>ConfirmOK. ASSUME NEW r, Confirm(r) PROVE ReconcilerInvariant'
  <2>. USE <1>ConfirmOK
  <2>. DEFINE c == Copy(op, op.who)
              rec == Confirmed(c.rec.name, op.seen.uid)
  <2>1. op.key \in Bindings /\ c.rec.kind = "pending"
    BY OpFacts, Zenon DEF Confirm, Shape
  <2>2. c.rec.name \in Names
    BY <2>1, PursuedCopy, ZenonT(60) DEF Records, WellFormed
  <2>3. rec \in Records
    BY <2>2, OpFacts, RecordTypes, SMTT(30) DEF ObjectStates
  <2>4. ASSUME NEW n \in Names PROVE c.rec # Confirmed(n, object[n].uid)
    BY <2>1, ConfirmedFields
  <2>5. /\ op.pc = "confirm"
        /\ PatchOwnership(r, Recorded(rec), Settled(WithCopy(op, op.who, Recorded(rec)), TRUE))
        /\ UNCHANGED <<cache, object, pool, inflight, nextUid, nextClaim, moves>>
    BY Zenon DEF Confirm
  <2>. QED
    BY <2>3, <2>4, <2>5, <1>PatchRecordOK, Zenon
\* Clearing a record that no longer matches (Clear).
<1>ClearOK. ASSUME NEW r, Clear(r) PROVE ReconcilerInvariant'
  <2>. USE <1>ClearOK
  <2>. DEFINE c == Copy(op, op.who)
  <2>1. ASSUME NEW n \in Names, object[n].there PROVE c.rec # Confirmed(n, object[n].uid)
    <3>. SUFFICES ASSUME c.rec = Confirmed(n, object[n].uid) PROVE FALSE
      BY ZenonT(60)
    <3>1. c.rec.kind = "confirmed" /\ c.rec.name = n /\ c.rec.uid = object[n].uid
      BY ConfirmedFields, SMTT(60)
    <3>. QED
      BY <2>1, <3>1, Zenon DEF Clear, ReconcilerInvariant, Pursued, Matches
  <2>2. /\ op.pc = "clear"
        /\ PatchOwnership(r, Recorded(Unclaimed), Settled(WithCopy(op, op.who, Recorded(Unclaimed)), FALSE))
        /\ UNCHANGED <<cache, object, pool, inflight, nextUid, nextClaim, moves>>
    BY Zenon DEF Clear
  <2>3. Unclaimed \in Records
    BY RecordTypes
  <2>. QED
    BY <2>1, <2>2, <2>3, <1>PatchRecordOK, Zenon
\* The memory after the claim is reserved is an operator state (Reserve).
<1>ReservedType.
      ASSUME NEW o \in OpStates, NEW c \in BindingStates
      PROVE  [o EXCEPT !.pc = "create", !.main = c] \in OpStates
  BY <1>ReservedType, ZenonT(90) DEF OpStates, Steps
\* Reserving a claim (Reserve).
<1>ReserveOK. ASSUME NEW r, Reserve(r) PROVE ReconcilerInvariant'
  <2>. USE <1>ReserveOK
  <2>. DEFINE b == op.key
              claim == [by |-> op.key, no |-> nextClaim]
              rec == Pending(op.plan.name, claim)
              stored == Recorded(rec)
              new == [stored EXCEPT !.cond = "PendingOutput", !.shown = NoPlan]
              next == [op EXCEPT !.pc = "create", !.main = new]
  <2>1. /\ op \in OpStates /\ op.key \in Bindings /\ op.main.there /\ op.main.fin
        /\ op.plan \in Plans /\ op.who = Main /\ op.main.rec = Unclaimed
    BY OpFacts, ZenonT(60) DEF Reserve, Shape
  <2>2. Copy(op, op.who) = op.main /\ Target(op.who) = b
    BY <2>1, ZenonT(60) DEF Copy, Target
  <2>3. IsCopy(op.main, b) /\ nextClaim \in Nat /\ live[b] \in BindingStates
    BY <2>1 DEF ReconcilerInvariant, Copies, TypeOK
  <2>4. rec \in Records
    <3>1. claim \in Claims
      BY <2>1, <2>3 DEF Claims
    <3>2. op.plan.name \in Names
      BY <2>1, ConstantsAssumption, Zenon
    <3>. QED
      BY <3>1, <3>2, RecordTypes, ZenonT(60)
  <2>5. rec.uid = 0 /\ rec = Pending(op.plan.name, rec.claim)
    BY PendingFields, SMTT(60)
  <2>6. /\ PatchOwnership(r, new, next)
        /\ nextClaim' = IF live' = live THEN nextClaim ELSE nextClaim + 1
        /\ UNCHANGED <<cache, object, pool, inflight, nextUid, moves>>
    BY ZenonT(60) DEF Reserve
  <2>. HIDE DEF rec
  <2>7. /\ stored \in BindingStates /\ stored.rec = rec /\ stored.rv = live[b].rv + 1
        /\ (stored.there <=> live[b].there) /\ (stored.fin <=> live[b].fin)
    BY <2>1, <2>2, <2>4, RecordedFields
  <2>. HIDE DEF stored
  <2>8. new \in BindingStates
    BY <2>7, BindingTypes, Zenon DEF Conditions
  <2>9. new.rec = rec /\ new.rv = live[b].rv + 1
    <3>1. new.rec = stored.rec /\ new.rv = stored.rv
      BY <2>7 DEF BindingStates
    <3>. QED
      BY <2>7, <3>1
  <2>10. (new.there <=> live[b].there) /\ (new.fin <=> live[b].fin)
    <3>1. new.there = stored.there /\ new.fin = stored.fin
      BY <2>7 DEF BindingStates
    <3>. QED
      BY <2>7, <3>1
  <2>11. next = [op EXCEPT !.pc = "create", !.main = new]
    OBVIOUS
  <2>. HIDE DEF new, next
  <2>12. next \in OpStates
    BY <2>1, <2>8, <2>11, <1>ReservedType, Zenon
  <2>13. /\ next.pc = "create" /\ next.key = op.key /\ next.main = new /\ next.plan = op.plan
         /\ next.who = op.who /\ next.list = op.list /\ next.seen = op.seen
    BY <2>1, <2>11, ZenonT(60) DEF OpStates
  <2>14. \/ live' = live /\ op' = ApplyFailed(op)
         \/ op.main.rv = live[b].rv /\ live' = [live EXCEPT ![b] = new]
               /\ (op' = ApplyFailed(op) \/ op' = next)
    BY <2>2, <2>6 DEF PatchOwnership
  <2>15. faults' \in Nat /\ moves' \in Nat /\ nextClaim' \in Nat
    <3>1. faults' \in Nat
      BY <2>6, AnswerType, ZenonT(60) DEF PatchOwnership
    <3>2. moves' \in Nat
      BY <2>6 DEF ReconcilerInvariant, TypeOK
    <3>3. nextClaim' \in Nat
      BY <2>3, <2>6, Successor, Zenon
    <3>. QED
      BY <3>1, <3>2, <3>3, ZenonT(60)
  <2>16. CASE live' = live /\ op' = ApplyFailed(op)
    <3>1. op' \in OpStates /\ Shape(op') /\ Keeps(op, op')
      BY <2>1, <2>16, FinishOK DEF ApplyFailed, Conditions
    <3>. QED
      BY <2>6, <2>15, <2>16, <3>1, LocalStep, SMTT(30)
  <2>17. CASE op.main.rv = live[b].rv /\ live' = [live EXCEPT ![b] = new]
               /\ (op' = ApplyFailed(op) \/ op' = next)
    <3>1. op.main = live[b]
      BY <2>3, <2>17, ZenonT(60) DEF IsCopy
    <3>2. op' \in OpStates /\ Shape(op') /\ (op' = ApplyFailed(op) \/ Keeps(next, op'))
      <4>1. CASE op' = ApplyFailed(op)
        BY <2>1, <4>1, FinishOK DEF ApplyFailed, Conditions
      <4>2. CASE op' = next
        <5>1. next.main.there /\ next.main.fin
          BY <2>1, <2>10, <2>13, <3>1, ZenonT(60)
        <5>2. next.main.rec = Pending(next.plan.name, next.main.rec.claim)
          BY <2>5, <2>9, <2>13, ZenonT(60)
        <5>3. Shape(next)
          BY <2>1, <2>13, <5>1, <5>2, ZenonT(60) DEF Shape
        <5>4. Keeps(next, next)
          BY <2>13 DEF Keeps
        <5>. QED
          BY <2>12, <4>2, <5>3, <5>4, ZenonT(60)
      <4>. QED
        BY <2>17, <4>1, <4>2, SMTT(30)
    <3>3. TypeOK' /\ Grows /\ NextStored /\ NextIsCopy(new, b)
      <4>1. new.rec.uid < nextUid
        <5>1. new.rec.uid = 0
          BY <2>5, <2>9, SMTT(30)
        <5>. QED
          BY <5>1, SMTT(30) DEF ReconcilerInvariant, StoredOK
      <4>2. new.there /\ new.fin
        BY <2>1, <2>10, <3>1, SMTT(30)
      <4>3. \A n \in Names : live[b].rec # Confirmed(n, object[n].uid)
        BY <2>1, <3>1, UnclaimedIsNotConfirmed, SMTT(30)
      <4>. QED
        BY <2>1, <2>6, <2>8, <2>9, <2>15, <2>17, <3>2, <4>1, <4>2, <4>3, BindingWritten, ZenonT(60)
    <3>4. CASE op' = ApplyFailed(op)
      BY <2>1, <2>6, <3>3, <3>4, GivingUp, SMTT(30) DEF ApplyFailed, Conditions
    <3>5. CASE Keeps(next, op')
      <4>1. NextHeld(op)
        BY <3>3, HeldRemains, ZenonT(60) DEF ReconcilerInvariant
      <4>2. NextHeld(next)
        BY <2>13, <3>3, <4>1 DEF NextHeld
      <4>. QED
        BY <2>6, <3>2, <3>3, <3>5, <4>2, MemoryStep, ZenonT(60)
    <3>. QED
      BY <3>2, <3>4, <3>5, ZenonT(60)
  <2>. QED
    BY <2>14, <2>16, <2>17
\* Adding the finalizer (AddFinalizer).
<1>AddFinalizerOK. ASSUME NEW r, AddFinalizer(r) PROVE ReconcilerInvariant'
  <2>. USE <1>AddFinalizerOK
  <2>. DEFINE b == op.key
              new == [live[b] EXCEPT !.fin = TRUE, !.rv = @ + 1]
  <2>1. op \in OpStates /\ op.key \in Bindings /\ op.main.there
    BY OpFacts, SMTT(30) DEF AddFinalizer, Shape
  <2>2. /\ live[b] \in BindingStates /\ live[b].rv + 1 \in Nat /\ IsCopy(op.main, b)
        /\ live \in [Bindings -> BindingStates]
    <3>1. live \in [Bindings -> BindingStates] /\ live[b] \in BindingStates
      BY <2>1, SMTT(30) DEF ReconcilerInvariant, TypeOK
    <3>2. live[b].rv + 1 \in Nat
      BY <3>1, SMTT(30) DEF BindingStates
    <3>3. IsCopy(op.main, b)
      BY <2>1, SMTT(30) DEF ReconcilerInvariant, Copies
    <3>. QED
      BY <3>1, <3>2, <3>3, SMTT(30)
  <2>3. new = [live[b] EXCEPT !.fin = TRUE, !.rv = live[b].rv + 1]
    BY <2>2 DEF BindingStates
  <2>4. /\ \/ live' = live /\ op' = IdleOp
           \/ op.main.rv = live[b].rv /\ live' = [live EXCEPT ![b] = new]
                 /\ (op' = IdleOp \/ op' = [op EXCEPT !.pc = "render", !.main = new])
        /\ UNCHANGED <<cache, object, pool, inflight, nextUid, nextClaim, moves>>
    BY DEF AddFinalizer
  <2>. HIDE DEF new
  <2>5. new \in BindingStates
    <3>1. [live[b] EXCEPT !.fin = TRUE, !.rv = live[b].rv + 1] \in BindingStates
      BY <2>2, BindingTypes, Zenon
    <3>. QED
      BY <2>3, <3>1
  <2>6. new.rec = live[b].rec /\ new.rv = live[b].rv + 1
    BY <2>2, <2>3, SMTT(30) DEF BindingStates
  <2>7. new.there = live[b].there /\ new.fin = TRUE
    BY <2>2, <2>3, SMTT(30) DEF BindingStates
  <2>8. faults' \in Nat /\ moves' \in Nat /\ nextClaim' \in Nat
    BY AnswerType, SMTT(30) DEF AddFinalizer, ReconcilerInvariant, TypeOK
  <2>9. CASE live' = live /\ op' = IdleOp
    BY <2>4, <2>8, <2>9, IdleOpType, IdleKeeps, LocalStep, ZenonT(60)
  <2>10. CASE op.main.rv = live[b].rv /\ live' = [live EXCEPT ![b] = new]
                 /\ (op' = IdleOp \/ op' = [op EXCEPT !.pc = "render", !.main = new])
    <3>1. op.main = live[b]
      BY <2>2, <2>10, SMTT(30) DEF IsCopy
    <3>2. /\ op' \in OpStates /\ Shape(op')
          /\ \/ op' = IdleOp
             \/ /\ Keeps(op', op') /\ op'.main = new
                /\ op'.key = op.key /\ op'.list = op.list /\ op'.seen = op.seen
      <4>1. CASE op' = IdleOp
        <5>1. op' \in OpStates /\ Shape(op')
          BY <4>1, IdleOpType, ZenonT(60)
        <5>. QED
          BY <4>1, <5>1
      <4>2. CASE op' = [op EXCEPT !.pc = "render", !.main = new]
        <5>1. op' \in OpStates
          BY <2>1, <2>5, <4>2, ZenonT(60) DEF OpStates, Steps
        <5>2. /\ op'.pc = "render" /\ op'.key = op.key /\ op'.main = new /\ op'.list = op.list
              /\ op'.seen = op.seen
          BY <2>1, <4>2, ZenonT(60) DEF OpStates
        <5>3. new.there /\ new.fin
          BY <2>1, <2>7, <3>1
        <5>. QED
          BY <2>1, <5>1, <5>2, <5>3, ZenonT(60) DEF Shape, Keeps
      <4>. QED
        BY <2>10, <4>1, <4>2, SMTT(30)
    <3>3. TypeOK' /\ Grows /\ NextStored /\ NextIsCopy(new, b)
      <4>1. new.rec.uid < nextUid
        BY <2>1, <2>6, SMTT(30) DEF ReconcilerInvariant, StoredOK
      <4>2. new.there /\ new.fin
        BY <2>1, <2>7, <3>1
      <4>. QED
        BY <2>1, <2>4, <2>5, <2>6, <2>8, <2>10, <3>2, <4>1, <4>2, BindingWritten, ZenonT(60)
    <3>4. CASE op' = IdleOp
      BY <2>1, <2>4, <3>3, <3>4, GivingUp, SMTT(30)
    <3>5. CASE Keeps(op', op') /\ op'.main = new /\ op'.key = op.key /\ op'.list = op.list
               /\ op'.seen = op.seen
      <4>1. NextHeld(op)
        BY <3>3, HeldRemains DEF ReconcilerInvariant
      <4>2. NextHeld(op')
        BY <3>3, <3>5, <4>1, ZenonT(60) DEF NextHeld
      <4>. QED
        BY <2>4, <3>2, <3>3, <3>5, <4>2, MemoryStep, ZenonT(60)
    <3>. QED
      BY <3>2, <3>4, <3>5, SMTT(30)
  <2>. QED
    BY <2>4, <2>9, <2>10, SMTT(30)
\* Removing the finalizer, and with it the binding (RemoveFinalizer).
<1>RemoveFinalizerOK. ASSUME NEW r, RemoveFinalizer(r) PROVE ReconcilerInvariant'
  <2>. USE <1>RemoveFinalizerOK
  <2>. DEFINE b == op.key
              new == AbsentBinding(live[b].rv + 1)
  <2>1. op.key \in Bindings /\ op.main.rec = Unclaimed
    BY OpFacts, ZenonT(60) DEF RemoveFinalizer, Shape
  <2>2. live[b].rv + 1 \in Nat /\ IsCopy(op.main, b)
    <3>1. IsCopy(op.main, b)
      BY <2>1, Zenon DEF ReconcilerInvariant, Copies
    <3>2. live[b].rv + 1 \in Nat
      BY <2>1, LiveFacts, Zenon
    <3>. QED
      BY <3>1, <3>2
  <2>3. new \in BindingStates /\ new.rec = Unclaimed /\ new.rv = live[b].rv + 1
    BY <2>2, AbsentBindingType, ZenonT(60)
  <2>4. /\ live' = live \/ (op.main.rv = live[b].rv /\ live' = [live EXCEPT ![b] = new])
        /\ op' = IdleOp
        /\ UNCHANGED <<cache, object, pool, inflight, nextUid, nextClaim, moves>>
    BY ZenonT(60) DEF RemoveFinalizer
  <2>5. faults' \in Nat /\ moves' \in Nat /\ nextClaim' \in Nat
    BY AnswerType, ZenonT(60) DEF RemoveFinalizer, ReconcilerInvariant, TypeOK
  <2>. HIDE DEF new
  <2>6. CASE live' = live
    BY <2>4, <2>5, <2>6, IdleOpType, IdleKeeps, LocalStep, ZenonT(60)
  <2>7. CASE op.main.rv = live[b].rv /\ live' = [live EXCEPT ![b] = new]
    <3>1. live[b].rec = Unclaimed
      BY <2>1, <2>2, <2>7, SMTT(30) DEF IsCopy
    <3>2. new.rec.uid < nextUid
      <4>1. new.rec.uid = 0
        BY <2>3, UnclaimedFields, Zenon
      <4>. QED
        BY <4>1 DEF ReconcilerInvariant, StoredOK
    <3>3. TypeOK' /\ Grows /\ NextStored
      <4>1. \A n \in Names : live[b].rec # Confirmed(n, object[n].uid)
        BY <3>1, UnclaimedIsNotConfirmed, SMTT(30)
      <4>2. op' \in OpStates
        BY <2>4, IdleOpType, SMTT(30)
      <4>. QED
        BY <2>1, <2>3, <2>4, <2>5, <2>7, <3>2, <4>1, <4>2, BindingWritten, ZenonT(60)
    <3>. QED
      BY <2>1, <2>4, <3>3, GivingUp, ZenonT(60)
  <2>. QED
    BY <2>4, <2>6, <2>7, ZenonT(60)
\* Patching the conditions (PatchStatus).
<1>PatchStatusOK. ASSUME NEW r, PatchStatus(r) PROVE ReconcilerInvariant'
  <2>. USE <1>PatchStatusOK
  <2>. DEFINE b == op.key
              shown == IF op.want = "Ready" THEN op.plan ELSE NoPlan
              new == [live[b] EXCEPT !.cond = op.want, !.shown = shown, !.rv = live[b].rv + 1]
  <2>1. op.key \in Bindings /\ op.want \in Conditions /\ shown \in Plans \cup {NoPlan}
    BY OpFacts, Zenon DEF PatchStatus, OpStates
  <2>2. /\ live[b] \in BindingStates /\ live[b].rv + 1 \in Nat
        /\ live \in [Bindings -> BindingStates]
    BY <2>1 DEF ReconcilerInvariant, TypeOK, BindingStates
  <2>3. new \in BindingStates
    BY <2>1, <2>2, BindingTypes, Zenon
  <2>4. new.rec = live[b].rec /\ new.rv = live[b].rv + 1
    BY <2>2 DEF BindingStates
  <2>5. new.there = live[b].there /\ new.fin = live[b].fin
    BY <2>2, SMTT(30) DEF BindingStates
  <2>6. /\ live' = live \/ live' = [live EXCEPT ![b] = new]
        /\ op' = IdleOp
        /\ UNCHANGED <<cache, object, pool, inflight, nextUid, nextClaim, moves>>
    BY <2>2, SMTT(30) DEF PatchStatus, BindingStates
  <2>7. faults' \in Nat /\ moves' \in Nat /\ nextClaim' \in Nat
    BY AnswerType DEF PatchStatus, ReconcilerInvariant, TypeOK
  <2>. HIDE DEF new
  <2>8. CASE live' = live
    BY <2>6, <2>7, <2>8, IdleOpType, IdleKeeps, LocalStep, ZenonT(60)
  <2>9. CASE live' = [live EXCEPT ![b] = new]
    <3>1. new.rec.uid < nextUid
      BY <2>1, <2>4, ZenonT(60) DEF ReconcilerInvariant, StoredOK
    <3>2. new.rec = Unclaimed \/ (new.there /\ new.fin)
      BY <2>1, <2>4, <2>5, SMTT(30) DEF ReconcilerInvariant, StoredOK
    <3>3. TypeOK' /\ Grows /\ NextStored
      BY <2>1, <2>3, <2>4, <2>6, <2>7, <2>9, <3>1, <3>2, IdleOpType, BindingWritten, ZenonT(60)
    <3>. QED
      BY <2>1, <2>6, <3>3, GivingUp, ZenonT(60)
  <2>. QED
    BY <2>6, <2>8, <2>9
<1>. QED
  BY <1>ConfirmOK, <1>ClearOK, <1>ReserveOK, <1>AddFinalizerOK, <1>RemoveFinalizerOK, <1>PatchStatusOK, ZenonT(60)

-----------------------------------------------------------------------------
(* The reconciler: observing and writing outputs. *)

\* What the memory holds at the steps of reconcileClusterSPIFFEIDs.
LEMMA ApplyFacts ==
    ASSUME ReconcilerInvariant, op.pc \in {"create", "update"}
    PROVE  /\ op \in OpStates /\ op.key \in Bindings /\ op.main.there /\ op.main.fin
           /\ op.plan \in Plans /\ op.plan.name \in Names /\ op.who = Main
           /\ op.pc = "create" => op.main.rec = Pending(op.plan.name, op.main.rec.claim)
           /\ op.pc = "update" => op.main.rec = Confirmed(op.plan.name, op.seen.uid)
           /\ op.main.rec.claim \in Claims
<1>1. op.main.rec \in Records
  BY OpFacts DEF BindingStates
<1>2. op.main.rec.claim \in Claims
  BY <1>1, Zenon DEF Records
<1>. QED
  BY <1>2, OpFacts, ConstantsAssumption, ZenonT(60) DEF Shape

\* The steps that look at outputs, delete, create and update them keep the invariant.
LEMMA OutputOK ==
    ASSUME ReconcilerInvariant
    PROVE  \/ DelayCreate
           \/ \E r \in Replies :
                 Observe(r) \/ ObserveDesired(r) \/ Delete(r) \/ Create(r) \/ UpdateOutput(r)
           => ReconcilerInvariant'
\* The object a step observes is remembered as it is (op.seen).
<1>SeenStep.
      ASSUME NEW n \in Names, NEW o, o.seen = object[n], o.key = op.key,
             o.main = op.main, o.list = op.list, op' \in OpStates, Shape(op'),
             faults' \in Nat,
             UNCHANGED <<live, cache, object, pool, inflight, nextUid, nextClaim, moves>>,
             op'.key = NoBinding \/ (op'.key = o.key /\ op'.main = o.main),
             \A b \in Bindings : op'.list[b] = o.list[b] \/ op'.list[b] = AbsentBinding(0),
             op'.seen = o.seen \/ op'.seen = AbsentObject,
             Pursued'
      PROVE  ReconcilerInvariant'
  <2>. USE <1>SeenStep
  <2>1. TypeOK' /\ Grows /\ NextStored
    BY StoredUnchanged, SMTT(30)
  <2>2. NextHeld(op) /\ \A b \in Bindings : NextIsCopy(cache[b], b)
    BY <2>1, HeldRemains, ZenonT(60) DEF ReconcilerInvariant
  <2>3. o.seen.uid < nextUid'
    BY ObjectFacts, SMTT(30)
  <2>4. NextHeld(o)
    BY <2>2, <2>3, ZenonT(60) DEF NextHeld
  <2>5. ~LateCreates => inflight' = {}
    BY DEF ReconcilerInvariant
  <2>. QED
    BY <2>1, <2>2, <2>4, <2>5, StepOK, ZenonT(60)
\* Get of the recorded name (Observe).
<1>ObserveOK. ASSUME NEW r, Observe(r) PROVE ReconcilerInvariant'
  <2>. USE <1>ObserveOK
  <2>. DEFINE rec == Copy(op, op.who).rec
              n == rec.name
              o == [op EXCEPT !.seen = object[n]]
  <2>1. /\ op \in OpStates /\ op.key \in Bindings /\ op.main.there /\ op.main.fin
    BY OpFacts DEF Observe
  <2>2. /\ rec.kind # "unclaimed" /\ op.ret # "" /\ op.mode \in {"cleanup", "list"}
        /\ op.ret \in {"finalize", "stateError", "rename"} => op.who = Main
        /\ op.ret \in {"deletingPeer", "brokenPeer"} => op.who \in Bindings
        /\ op.ret \in {"rename", "deletingPeer", "brokenPeer", "withdraw"} => op.plan \in Plans
    BY OpFacts, Zenon DEF Observe, Shape
  <2>3. rec \in Records
    BY <2>1, PursuedCopy
  <2>4. n \in Names
    BY <2>2, <2>3, Zenon DEF Records, WellFormed
  <2>5. op' = IF r = "fail" THEN ApplyFailed(op)
              ELSE IF ~Matches(rec, o.seen) THEN [o EXCEPT !.pc = "clear"]
              ELSE IF rec.kind = "pending" THEN [o EXCEPT !.pc = "confirm"]
              ELSE Settled(o, TRUE)
    BY DEF Observe
  <2>6. object[n] \in ObjectStates
    BY <2>4, ObjectFacts
  <2>7. o \in OpStates
    BY <2>1, <2>6, Zenon DEF OpStates
  <2>8. /\ o.key = op.key /\ o.main = op.main /\ o.list = op.list /\ o.plan = op.plan
        /\ o.who = op.who /\ o.mode = op.mode /\ o.ret = op.ret /\ o.seen = object[n]
    BY <2>1, Zenon DEF OpStates
  <2>9. Copy(o, o.who).rec = rec /\ Copy(op, op.who).rec = rec /\ n = rec.name
    BY <2>8 DEF Copy
  <2>. HIDE DEF o, rec, n
  <2>10. faults' \in Nat /\ UNCHANGED <<live, cache, object, pool, inflight, nextUid, nextClaim, moves>>
    BY AnswerType DEF Observe
  <2>11. CASE r = "fail"
    BY <2>1, <2>5, <2>10, <2>11, FinishOK, LocalStep, ZenonT(60) DEF ApplyFailed, Conditions
  <2>12. ASSUME NEW pc \in {"clear", "confirm"}, op' = [o EXCEPT !.pc = pc],
                pc = "clear" => ~Matches(rec, object[n]),
                pc = "confirm" => rec.kind = "pending"
         PROVE  ReconcilerInvariant'
    <3>1. op' \in OpStates
      BY <2>7, <2>12, ZenonT(60) DEF OpStates, Steps
    <3>2. /\ op'.pc = pc /\ op'.key = op.key /\ op'.main = op.main /\ op'.list = op.list
          /\ op'.plan = op.plan /\ op'.who = op.who /\ op'.mode = op.mode /\ op'.ret = op.ret
          /\ op'.seen = object[n]
      BY <2>7, <2>8, <2>12, Zenon DEF OpStates
    <3>3. Copy(op', op'.who).rec = rec
      BY <2>9, <3>2 DEF Copy
    <3>4. Shape(op')
      BY <2>1, <2>2, <2>12, <3>2, <3>3, Zenon DEF Shape
    <3>5. object' = object
      BY <2>10
    <3>6. Pursued'
      BY <2>9, <2>12, <3>2, <3>3, <3>5, ZenonT(90) DEF Pursued, Matches, Copy
    <3>. QED
      BY <2>4, <2>8, <2>10, <3>1, <3>2, <3>4, <3>6, <1>SeenStep, SMTT(30)
  <2>13. CASE r # "fail" /\ Matches(rec, o.seen) /\ rec.kind # "pending"
    <3>1. op' = Settled(o, TRUE)
      BY <2>5, <2>13
    <3>2. Called(o)
      BY <2>1, <2>2, <2>7, <2>8, Zenon DEF Called
    <3>3. rec = Confirmed(rec.name, o.seen.uid)
      BY <2>2, <2>3, <2>13, Zenon DEF Records, WellFormed, Matches
    <3>4. op' \in OpStates /\ Shape(op') /\ Keeps(o, op')
      <4>1. o.mode # "" /\ o.mode \in {"cleanup", "list"}
        BY <2>2, <2>8, Zenon
      <4>2. Copy(o, o.who).rec = Confirmed(Copy(o, o.who).rec.name, o.seen.uid)
        BY <2>9, <3>3
      <4>3. o.key \in Bindings /\ o.main.there /\ o.main.fin
        BY <2>1, <2>8, ZenonT(60)
      <4>. QED
        BY <2>7, <3>1, <3>2, <4>1, <4>2, <4>3, SettledOK, Zenon
    <3>5. Pursued'
      BY <3>4 DEF Keeps, Pursued
    <3>. QED
      BY <2>4, <2>8, <2>10, <3>4, <3>5, <1>SeenStep, SMTT(60) DEF Keeps
  <2>. QED
    BY <2>5, <2>8, <2>11, <2>12, <2>13, Zenon
\* Get of the desired name (ObserveDesired).
<1>ObserveDesiredOK. ASSUME NEW r, ObserveDesired(r) PROVE ReconcilerInvariant'
  <2>. USE <1>ObserveDesiredOK
  <2>. DEFINE rec == op.main.rec
              n == op.plan.name
              o == [op EXCEPT !.who = Main, !.mode = "apply", !.seen = object[n]]
  <2>1. /\ op \in OpStates /\ op.key \in Bindings /\ op.main.there /\ op.main.fin
        /\ op.plan \in Plans /\ rec.name \in {"", n} /\ n \in Names
    BY OpFacts, ConstantsAssumption, ZenonT(60) DEF ObserveDesired, Shape
  <2>2. rec \in Records
    BY OpFacts DEF BindingStates
  <2>3. rec.kind = "unclaimed" => rec = Unclaimed
    BY <2>2, Zenon DEF Records, WellFormed
  <2>4. rec.kind = "pending" => rec.name = n /\ rec = Pending(n, rec.claim)
    BY <2>1, <2>2, ConstantsAssumption, Zenon DEF Records, WellFormed
  <2>5. rec.kind \notin {"unclaimed", "pending"} =>
           rec.kind = "confirmed" /\ rec.name = n /\ rec = Confirmed(n, rec.uid)
    BY <2>1, <2>2, ConstantsAssumption, Zenon DEF Records, WellFormed
  <2>6. op' = IF r = "fail" THEN ApplyFailed(op)
              ELSE CASE rec.kind = "unclaimed" -> Settled(o, FALSE)
                     [] rec.kind = "pending" ->
                          IF Matches(rec, o.seen) THEN [o EXCEPT !.pc = "confirm"]
                          ELSE IF o.seen.there THEN [o EXCEPT !.pc = "clear"]
                          ELSE [o EXCEPT !.pc = "create"]
                     [] OTHER ->
                          IF Matches(rec, o.seen) THEN Settled(o, TRUE)
                          ELSE [o EXCEPT !.pc = "clear"]
    BY DEF ObserveDesired
  <2>7. object[n] \in ObjectStates
    BY <2>1, ObjectFacts, Zenon
  <2>8. o \in OpStates
    BY <2>1, <2>7, Zenon DEF OpStates
  <2>9. /\ o.key = op.key /\ o.main = op.main /\ o.list = op.list /\ o.plan = op.plan
        /\ o.who = Main /\ o.mode = "apply" /\ o.seen = object[n]
    BY <2>1, Zenon DEF OpStates
  <2>10. Copy(o, o.who).rec = rec
    BY <2>9 DEF Copy
  <2>11. faults' \in Nat /\ UNCHANGED <<live, cache, object, pool, inflight, nextUid, nextClaim, moves>>
    BY AnswerType DEF ObserveDesired
  <2>12. rec = op.main.rec /\ n = op.plan.name
    OBVIOUS
  <2>. HIDE DEF o, rec, n
  <2>13. CASE r = "fail"
    BY <2>1, <2>6, <2>11, <2>13, FinishOK, LocalStep, ZenonT(60) DEF ApplyFailed, Conditions
  <2>14. ASSUME NEW pc \in {"clear", "confirm", "create"}, op' = [o EXCEPT !.pc = pc],
                rec.kind # "unclaimed", rec.name = n,
                pc = "clear" => ~Matches(rec, object[n]),
                pc # "clear" => rec.kind = "pending"
         PROVE  ReconcilerInvariant'
    <3>1. op' \in OpStates
      BY <2>8, <2>14, ZenonT(60) DEF OpStates, Steps
    <3>2. /\ op'.pc = pc /\ op'.key = op.key /\ op'.main = op.main /\ op'.list = op.list
          /\ op'.plan = op.plan /\ op'.who = Main /\ op'.mode = "apply"
          /\ op'.seen = object[n]
      BY <2>8, <2>9, <2>14, Zenon DEF OpStates
    <3>3. Copy(op', op'.who).rec = rec
      BY <2>12, <3>2 DEF Copy
    <3>4. pc = "create" => op'.main.rec = Pending(op'.plan.name, op'.main.rec.claim)
      BY <2>4, <2>12, <2>14, <3>2, SMTT(30)
    <3>5. Shape(op')
      BY <2>1, <2>12, <2>14, <3>2, <3>3, <3>4, ZenonT(90) DEF Shape
    <3>6. object' = object
      BY <2>11
    <3>7. Pursued'
      BY <2>14, <3>2, <3>3, <3>6 DEF Pursued, Matches, Copy
    <3>. QED
      BY <2>1, <2>9, <2>11, <3>1, <3>2, <3>5, <3>7, <1>SeenStep, ZenonT(60)
  <2>15. ASSUME NEW found \in BOOLEAN, op' = Settled(o, found), ~found => rec = Unclaimed,
                found => rec = Confirmed(n, object[n].uid) /\ rec.name = n
         PROVE  ReconcilerInvariant'
    <3>1. op' \in OpStates /\ Shape(op') /\ Keeps(o, op')
      <4>1. o.key \in Bindings /\ o.main.there /\ o.main.fin
        BY <2>1, <2>9, Zenon
      <4>2. found => /\ Copy(o, o.who).rec = Confirmed(Copy(o, o.who).rec.name, o.seen.uid)
                     /\ o.main.rec.name = o.plan.name
        BY <2>9, <2>10, <2>12, <2>15, ZenonT(60)
      <4>3. ~found => Copy(o, o.who).rec = Unclaimed
        BY <2>10, <2>15, ZenonT(60)
      <4>. QED
        BY <2>1, <2>8, <2>9, <2>15, <4>1, <4>2, <4>3, SettledOK, Zenon
    <3>2. Pursued'
      BY <3>1, ZenonT(60) DEF Keeps, Pursued
    <3>. QED
      BY <2>1, <2>9, <2>11, <3>1, <3>2, <1>SeenStep, ZenonT(90) DEF Keeps
  <2>16. CASE r # "fail" /\ rec.kind = "unclaimed"
    BY <2>3, <2>6, <2>15, <2>16, Zenon
  <2>17. CASE r # "fail" /\ rec.kind = "pending"
    <3>1. op' = IF Matches(rec, o.seen) THEN [o EXCEPT !.pc = "confirm"]
                ELSE IF o.seen.there THEN [o EXCEPT !.pc = "clear"]
                ELSE [o EXCEPT !.pc = "create"]
      BY <2>6, <2>17
    <3>. QED
      BY <2>4, <2>9, <2>14, <2>17, <3>1, SMTT(30)
  <2>18. CASE r # "fail" /\ rec.kind \notin {"unclaimed", "pending"}
    <3>1. op' = IF Matches(rec, o.seen) THEN Settled(o, TRUE) ELSE [o EXCEPT !.pc = "clear"]
      BY <2>6, <2>18, ZenonT(60)
    <3>2. Matches(rec, o.seen) => rec = Confirmed(n, object[n].uid)
      BY <2>5, <2>9, <2>18 DEF Matches
    <3>. QED
      BY <2>5, <2>9, <2>14, <2>15, <2>18, <3>1, <3>2, Zenon
  <2>. QED
    BY <2>13, <2>16, <2>17, <2>18, SMTT(30)
\* Deleting the recorded object (Delete).
<1>DeleteOK. ASSUME NEW r, Delete(r) PROVE ReconcilerInvariant'
  <2>. USE <1>DeleteOK
  <2>. DEFINE n == Copy(op, op.who).rec.name
  <2>1. /\ op \in OpStates /\ op.key \in Bindings /\ op.main.there /\ op.main.fin
        /\ Copy(op, op.who).rec.kind # "unclaimed" /\ op.mode = "cleanup"
        /\ op.ret # ""
        /\ op.ret \in {"finalize", "stateError", "rename"} => op.who = Main
        /\ op.ret \in {"deletingPeer", "brokenPeer"} => op.who \in Bindings
        /\ op.ret \in {"rename", "deletingPeer", "brokenPeer", "withdraw"} => op.plan \in Plans
    BY OpFacts, Zenon DEF Delete, Shape
  <2>2. n \in Names
    BY <2>1, PursuedCopy, ZenonT(60) DEF Records, WellFormed
  <2>3. /\ object \in [Names -> ObjectStates] /\ object[n] \in ObjectStates
        /\ object[n].uid \in Nat /\ object[n].uid < nextUid /\ nextUid > 0
    BY <2>2, ObjectFacts
  <2>4. op' \in OpStates /\ Shape(op') /\ Keeps(op, op')
    <3>1. CASE op' = CleanedUp(op)
      <4>1. Called(op)
        BY <2>1, Zenon DEF Called
      <4>. QED
        BY <3>1, <4>1, CleanedUpOK
    <3>2. CASE op' = ApplyFailed(op)
      BY <2>1, <3>2, FinishOK, Zenon DEF ApplyFailed, Conditions
    <3>. QED
      BY <3>1, <3>2, Zenon DEF Delete
  <2>5. /\ \/ object' = object
           \/ object[n].there /\ object' = [object EXCEPT ![n].dying = TRUE]
           \/ object' = [object EXCEPT ![n] = AbsentObject]
        /\ UNCHANGED <<live, cache, pool, inflight, nextUid, nextClaim, moves>>
    BY Zenon DEF Delete
  <2>6. faults' \in Nat /\ moves' \in Nat /\ inflight' \in SUBSET inflight
    BY <2>5, AnswerType, ZenonT(60) DEF Delete, ReconcilerInvariant, TypeOK
  <2>. HIDE DEF n
  <2>7. CASE object' = object
    BY <2>4, <2>5, <2>6, <2>7, LocalStep, SMTT(30)
  <2>8. ASSUME NEW new \in ObjectStates, object' = [object EXCEPT ![n] = new],
               new.uid < nextUid, new.there => object[n].there /\ new.uid = object[n].uid
        PROVE  ReconcilerInvariant'
    <3>1. TypeOK' /\ Grows /\ NextStored
      BY <2>2, <2>4, <2>5, <2>6, <2>8, ObjectWritten, ZenonT(60)
    <3>2. NextHeld(op)
      BY <3>1, HeldRemains DEF ReconcilerInvariant
    <3>. QED
      BY <2>4, <2>5, <3>1, <3>2, MemoryStep, SMTT(30)
  <2>9. CASE object[n].there /\ object' = [object EXCEPT ![n].dying = TRUE]
    <3>. DEFINE new == [object[n] EXCEPT !.dying = TRUE]
    <3>1. new \in ObjectStates
      BY <2>3, ObjectTypes, Zenon
    <3>2. new.uid = object[n].uid
      BY <2>3 DEF ObjectStates
    <3>3. object' = [object EXCEPT ![n] = new]
      BY <2>2, <2>3, <2>9
    <3>. HIDE DEF new
    <3>. QED
      BY <2>3, <2>8, <2>9, <3>1, <3>2, <3>3, ZenonT(60)
  <2>10. CASE object' = [object EXCEPT ![n] = AbsentObject]
    BY <2>3, <2>8, <2>10, AbsentObjectType, ZenonT(60)
  <2>. QED
    BY <2>5, <2>7, <2>9, <2>10, SMTT(30)
\* The object Create sends (Desired).
<1>DesiredType.
      ASSUME op.plan \in Plans, op.main.rec.claim \in Claims, NEW uid \in Nat
      PROVE  Desired(uid) \in ObjectStates /\ Desired(uid).uid = uid
  <2>. USE <1>DesiredType
  <2>1. ASSUME NEW claim \in Claims, NEW body \in Plans
        PROVE  [AbsentObject EXCEPT !.there = TRUE, !.uid = uid, !.claim = claim, !.body = body,
                                    !.own = TRUE] \in ObjectStates
    BY AbsentObjectType, Zenon DEF ObjectStates
  <2>2. Desired(uid) \in ObjectStates
    BY <2>1, Zenon DEF Desired
  <2>3. Desired(uid).uid = uid
    BY DEF Desired, AbsentObject
  <2>. QED
    BY <2>2, <2>3
\* Creating the output under the reserved claim (Create).
<1>CreateOK. ASSUME NEW r, Create(r) PROVE ReconcilerInvariant'
  <2>. USE <1>CreateOK
  <2>. DEFINE n == op.plan.name
              new == Desired(nextUid)
  <2>1. /\ op \in OpStates /\ op.key \in Bindings /\ op.main.there /\ op.main.fin
        /\ op.plan \in Plans /\ n \in Names /\ op.who = Main
        /\ op.main.rec = Pending(n, op.main.rec.claim) /\ op.main.rec.claim \in Claims
    BY ApplyFacts, SMTT(30) DEF Create
  <2>2. nextUid \in Nat /\ object \in [Names -> ObjectStates]
    BY SMTT(30) DEF ReconcilerInvariant, TypeOK
  <2>3. new \in ObjectStates /\ new.uid = nextUid
    BY <2>1, <2>2, <1>DesiredType
  <2>4. /\ \/ object' = object /\ nextUid' = nextUid /\ op' = ApplyFailed(op)
           \/ /\ object' = [object EXCEPT ![n] = new] /\ nextUid' = nextUid + 1
              /\ \/ op' = ApplyFailed(op)
                 \/ op' = [op EXCEPT !.pc = "confirm", !.mode = "created", !.seen = new]
        /\ UNCHANGED <<live, cache, pool, inflight, nextClaim, moves>>
    BY ZenonT(60) DEF Create
  <2>5. faults' \in Nat /\ moves' \in Nat /\ inflight' \in SUBSET inflight
    BY <2>4, AnswerType, SMTT(30) DEF Create, ReconcilerInvariant, TypeOK
  <2>. HIDE DEF new
  <2>6. CASE object' = object /\ nextUid' = nextUid /\ op' = ApplyFailed(op)
    <3>1. op' \in OpStates /\ Shape(op') /\ Keeps(op, op')
      BY <2>1, <2>6, FinishOK DEF ApplyFailed, Conditions
    <3>. QED
      BY <2>4, <2>5, <2>6, <3>1, LocalStep, ZenonT(60)
  <2>7. CASE /\ object' = [object EXCEPT ![n] = new] /\ nextUid' = nextUid + 1
             /\ op' = ApplyFailed(op)
    <3>1. op' \in OpStates
      BY <2>1, <2>7, FinishOK DEF ApplyFailed, Conditions
    <3>2. TypeOK' /\ Grows /\ NextStored
      BY <2>1, <2>3, <2>4, <2>5, <2>7, <3>1, ObjectWritten, ZenonT(60)
    <3>. QED
      BY <2>1, <2>4, <2>7, <3>2, GivingUp, ZenonT(60) DEF ApplyFailed, Conditions
  <2>8. CASE /\ object' = [object EXCEPT ![n] = new] /\ nextUid' = nextUid + 1
             /\ op' = [op EXCEPT !.pc = "confirm", !.mode = "created", !.seen = new]
    <3>0. op \in OpStates /\ new \in ObjectStates
      BY <2>1, <2>3
    <3>1. op' \in OpStates
      BY <2>8, <3>0, ZenonT(90) DEF OpStates, Steps
    <3>2. /\ op'.pc = "confirm" /\ op'.key = op.key /\ op'.main = op.main /\ op'.list = op.list
          /\ op'.plan = op.plan /\ op'.who = op.who /\ op'.mode = "created" /\ op'.seen = new
      BY <2>1, <2>8, Zenon DEF OpStates
    <3>3. Copy(op', op'.who).rec = op.main.rec
      BY <2>1, <3>2, ZenonT(60) DEF Copy
    <3>4. op.main.rec.kind = "pending" /\ op.main.rec.name = n
      <4>1. Pending(n, op.main.rec.claim).kind = "pending" /\ Pending(n, op.main.rec.claim).name = n
        BY Zenon DEF Pending
      <4>. QED
        BY <2>1, <4>1, Zenon
    <3>5. Shape(op')
      BY <2>1, <3>2, <3>3, <3>4, ZenonT(60) DEF Shape
    <3>6. TypeOK' /\ Grows /\ NextStored
      BY <2>1, <2>3, <2>4, <2>5, <2>8, <3>1, ObjectWritten, ZenonT(60)
    <3>7. object'[n] = new
      BY <2>1, <2>2, <2>8, SMTT(30)
    <3>8. Pursued'
      BY <3>2, <3>3, <3>4, <3>7, ZenonT(60) DEF Pursued, Copy
    <3>9. NextHeld(op) /\ \A b \in Bindings : NextIsCopy(cache[b], b)
      BY <3>6, HeldRemains DEF ReconcilerInvariant
    <3>10. op'.seen.uid < nextUid'
      BY <2>2, <2>3, <2>8, <3>2, Successor, ZenonT(60)
    <3>11. NextHeld(op')
      BY <3>2, <3>9, <3>10, SMTT(30) DEF NextHeld
    <3>12. ~LateCreates => inflight' = {}
      BY <2>4 DEF ReconcilerInvariant
    <3>13. \A b \in Bindings : NextIsCopy(cache'[b], b)
      BY <2>4, <3>9, ZenonT(60)
    <3>. QED
      BY <3>5, <3>6, <3>8, <3>11, <3>12, <3>13, StepOK, ZenonT(60)
  <2>. QED
    BY <2>4, <2>6, <2>7, <2>8, SMTT(30)
\* A Create that is given up (DelayCreate).
<1>DelayCreateOK. ASSUME DelayCreate PROVE ReconcilerInvariant'
  <2>. USE <1>DelayCreateOK
  <2>1. /\ op \in OpStates /\ op.key \in Bindings
        /\ op.plan \in Plans /\ op.plan.name \in Names /\ op.main.rec.claim \in Claims
    BY ApplyFacts DEF DelayCreate
  <2>2. Desired(0) \in ObjectStates
    BY <2>1, <1>DesiredType, ZenonT(60)
  <2>3. op' \in OpStates /\ Shape(op') /\ Keeps(op, op')
    BY <2>1, FinishOK, SMTT(30) DEF DelayCreate, ApplyFailed, Conditions
  <2>4. faults' \in Nat
    BY AnswerType DEF DelayCreate
  <2>5. [name |-> op.plan.name, body |-> Desired(0)] \in [name : Names, body : ObjectStates]
    BY <2>1, <2>2, ZenonT(60)
  <2>6. TypeOK'
    BY <2>3, <2>4, <2>5, ZenonT(60) DEF DelayCreate, ReconcilerInvariant, TypeOK
  <2>7. Grows /\ NextStored
    BY StoredStays, Zenon DEF DelayCreate
  <2>8. NextHeld(op) /\ \A b \in Bindings : NextIsCopy(cache'[b], b)
    BY <2>6, <2>7, HeldRemains, Zenon DEF ReconcilerInvariant, DelayCreate
  <2>9. Pursued' /\ (~LateCreates => inflight' = {})
    BY <2>3, Zenon DEF Keeps, Pursued, DelayCreate
  <2>10. /\ op'.key = NoBinding \/ (op'.key = op.key /\ op'.main = op.main)
         /\ \A b \in Bindings : op'.list[b] = op.list[b] \/ op'.list[b] = AbsentBinding(0)
         /\ op'.seen = op.seen \/ op'.seen = AbsentObject
    BY <2>3, ZenonT(60) DEF Keeps
  <2>. QED
    BY <2>3, <2>6, <2>7, <2>8, <2>9, <2>10, StepOK, ZenonT(60)
\* Updating the confirmed output (UpdateOutput).
<1>UpdateOutputOK. ASSUME NEW r, UpdateOutput(r) PROVE ReconcilerInvariant'
  <2>. USE <1>UpdateOutputOK
  <2>. DEFINE n == op.plan.name
              new == [object[n] EXCEPT !.body = op.plan]
  <2>1. /\ op \in OpStates /\ op.key \in Bindings /\ op.plan \in Plans /\ n \in Names
    BY ApplyFacts DEF UpdateOutput
  <2>2. /\ object \in [Names -> ObjectStates] /\ object[n] \in ObjectStates
        /\ object[n].uid < nextUid
    BY <2>1, ObjectFacts
  <2>3. new \in ObjectStates
    BY <2>1, <2>2, ObjectTypes, ZenonT(60)
  <2>4. new.uid = object[n].uid
    BY <2>2 DEF ObjectStates
  <2>5. new.there = object[n].there
    BY <2>2, ZenonT(60) DEF ObjectStates
  <2>6. /\ object' = object \/ object' = [object EXCEPT ![n] = new]
        /\ \E cond \in Conditions : op' = Finish(op, cond)
        /\ UNCHANGED <<live, cache, pool, inflight, nextUid, nextClaim, moves>>
    <3>1. object' = object \/ object' = [object EXCEPT ![n] = new]
      BY <2>1, <2>2, SMTT(30) DEF UpdateOutput
    <3>2. op' = Finish(op, "Ready") \/ op' = Finish(op, "ApplyFailed")
      BY DEF UpdateOutput, ApplyFailed
    <3>. QED
      BY <3>1, <3>2, SMTT(30) DEF UpdateOutput, Conditions
  <2>7. faults' \in Nat /\ moves' \in Nat /\ inflight' \in SUBSET inflight
    BY <2>6, AnswerType, ZenonT(60) DEF UpdateOutput, ReconcilerInvariant, TypeOK
  <2>. HIDE DEF new
  <2>8. op' \in OpStates /\ Shape(op') /\ Keeps(op, op')
    BY <2>1, <2>6, FinishOK, SMTT(30)
  <2>9. CASE object' = object
    BY <2>6, <2>7, <2>8, <2>9, LocalStep, ZenonT(60)
  <2>10. CASE object' = [object EXCEPT ![n] = new]
    <3>1. TypeOK' /\ Grows /\ NextStored
      BY <2>1, <2>2, <2>3, <2>4, <2>5, <2>6, <2>7, <2>8, <2>10, ObjectWritten, ZenonT(60)
    <3>. QED
      BY <2>1, <2>6, <3>1, GivingUp, ZenonT(60)
  <2>. QED
    BY <2>6, <2>9, <2>10, SMTT(30)
<1>. QED
  BY <1>DelayCreateOK, <1>ObserveOK, <1>ObserveDesiredOK, <1>DeleteOK, <1>CreateOK, <1>UpdateOutputOK, ZenonT(60)

-----------------------------------------------------------------------------
(* Theorems. *)

\* The initial states satisfy the invariant (Init).
LEMMA InitOK == Init => ReconcilerInvariant
<1>. SUFFICES ASSUME Init PROVE ReconcilerInvariant
  OBVIOUS
<1>1. /\ AbsentBinding(1) \in BindingStates /\ AbsentBinding(1).rec = Unclaimed
      /\ AbsentBinding(1).rv = 1
  BY AbsentBindingType
<1>2. \A s \in Specs : /\ NewBinding(s, 1) \in BindingStates /\ NewBinding(s, 1).rec = Unclaimed
                       /\ NewBinding(s, 1).rv = 1
  BY NewBindingType, SMTT(30)
<1>3. \A b \in Bindings : live[b] \in BindingStates /\ live[b].rec = Unclaimed /\ live[b].rv = 1
  BY <1>1, <1>2, SMTT(30) DEF Init
<1>4. live \in [Bindings -> BindingStates]
  BY <1>1, <1>2, SMTT(30) DEF Init
<1>5. op = IdleOp /\ op \in OpStates /\ Shape(op)
  BY IdleOpType DEF Init
<1>6. op.key = NoBinding /\ op.pc = "idle" /\ op.seen = AbsentObject
      /\ \A b \in Bindings : op.list[b] = AbsentBinding(0)
  BY <1>5, Zenon DEF IdleOp
<1>7. TypeOK
  BY <1>4, <1>5, AbsentObjectType, ZenonT(60) DEF Init, TypeOK
<1>8. StoredOK
  <2>1. \A b \in Bindings : live[b].rec.uid = 0
    BY <1>3, UnclaimedFields, Zenon
  <2>. QED
    BY <1>3, <1>6, <2>1, AbsentObjectType, SMTT(60) DEF Init, StoredOK
<1>9. Copies
  <2>1. ASSUME NEW b \in Bindings PROVE IsCopy(cache[b], b)
    <3>1. cache[b] = live[b]
      BY ZenonT(60) DEF Init
    <3>2. live[b].rv = 1 /\ live[b].rec = Unclaimed /\ live[b].rec.uid < nextUid
      BY <1>3, <1>8, ZenonT(60) DEF StoredOK
    <3>. QED
      BY <3>1, <3>2 DEF IsCopy
  <2>2. ASSUME NEW b \in Bindings PROVE IsCopy(op.list[b], b)
    <3>1. AbsentBinding(0).rv = 0 /\ AbsentBinding(0).rec = Unclaimed
      BY AbsentBindingType
    <3>2. AbsentBinding(0).rec.uid = 0
      BY <3>1, UnclaimedFields, Zenon
    <3>3. \A n \in Names : AbsentBinding(0).rec # Confirmed(n, object[n].uid)
      BY <3>1, UnclaimedIsNotConfirmed
    <3>4. PICK c : c = AbsentBinding(0)
      OBVIOUS
    <3>5. op.list[b] = c /\ nextUid = 1 /\ live[b].rv = 1
      BY <1>3, <1>6, <3>4, Zenon DEF Init
    <3>6. c.rv = 0 /\ c.rec.uid = 0 /\ \A n \in Names : c.rec # Confirmed(n, object[n].uid)
      BY <3>1, <3>2, <3>3, <3>4, Zenon
    <3>7. IsCopy(c, b)
      BY <3>5, <3>6, CopyBelow, ZenonT(60)
    <3>. QED
      BY <3>5, <3>7, SMTT(30)
  <2>. QED
    BY <1>6, <2>1, <2>2, ConstantsAssumption, ZenonT(60) DEF Copies
<1>10. Pursued
  BY <1>6 DEF Pursued
<1>. QED
  BY <1>5, <1>7, <1>8, <1>9, <1>10, ZenonT(60) DEF ReconcilerInvariant, Init

\* Every step preserves the invariant, one case per action of Next.
LEMMA NextOK == ReconcilerInvariant /\ [Next]_vars => ReconcilerInvariant'
<1>. SUFFICES ASSUME ReconcilerInvariant, [Next]_vars PROVE ReconcilerInvariant'
  OBVIOUS
<1>1. CASE Reconcile
  <2>1. ASSUME NEW r \in Replies,
               \/ AddFinalizer(r) \/ RenderOwn(r) \/ Observe(r) \/ Confirm(r) \/ Clear(r)
               \/ Delete(r) \/ RemoveFinalizer(r) \/ ObserveDesired(r) \/ Reserve(r) \/ Create(r)
               \/ UpdateOutput(r) \/ PatchStatus(r)
        PROVE  ReconcilerInvariant'
    BY <2>1, EvaluationOK, RecordingOK, OutputOK, ZenonT(60)
  <2>. QED
    BY <1>1, <2>1, EvaluationOK, OutputOK, ZenonT(60) DEF Reconcile
<1>2. CASE UNCHANGED vars
  <2>1. TypeOK' /\ op' = op /\ cache' = cache
    BY <1>2, ZenonT(60) DEF vars, ReconcilerInvariant, TypeOK
  <2>2. UNCHANGED <<live, object, inflight, nextUid>>
    BY <1>2, Zenon DEF vars
  <2>3. Grows /\ NextStored
    BY <2>2, StoredStays, ZenonT(60)
  <2>4. OwnKept /\ (~LateCreates => inflight' = {})
    BY <2>2 DEF ReconcilerInvariant, OwnKept
  <2>. QED
    BY <2>1, <2>3, <2>4, EnvironmentStep, ZenonT(60)
<1>. QED
  BY <1>1, <1>2, EnvironmentOK, ZenonT(60) DEF Next

\* The inductive invariant holds in every reachable state, for any number of
\* bindings, names and failures.
THEOREM Invariance == Spec => []ReconcilerInvariant
BY InitOK, NextOK, PTL DEF Spec

\* Type correctness: in particular the stored status always satisfies the
\* validation rules of the API (WellFormed).
THEOREM TypeCorrect == Spec => []TypeOK
<1>1. ReconcilerInvariant => TypeOK
  BY DEF ReconcilerInvariant
<1>. QED
  BY <1>1, Invariance, PTL

\* The operator never changes or deletes a ClusterSPIFFEID that the stored status of
\* a binding does not confirm by name and UID at that moment
\* (updateManagedClusterSPIFFEID and cleanupManagedClusterSPIFFEIDs).
THEOREM Authorization == Spec => MutationAuthorized
<1>. DEFINE Authorized ==
              op' # op => \A n \in Names :
                object[n].there /\ object'[n] # object[n]
                => \E b \in Bindings : live[b].rec = Confirmed(n, object[n].uid)
<1>1. ASSUME ReconcilerInvariant, [Next]_vars PROVE [Authorized]_vars
  <2>. SUFFICES ASSUME op' # op, NEW n \in Names, object[n].there, object'[n] # object[n]
                PROVE  \E b \in Bindings : live[b].rec = Confirmed(n, object[n].uid)
    OBVIOUS
  <2>1. (\E r \in Replies : Delete(r) \/ UpdateOutput(r) \/ Create(r))
    <3>1. ~(object' = object)
      OBVIOUS
    <3>2. ~Users /\ ~Others /\ ~Crash /\ ~SyncCache /\ ~(\E c \in inflight : LandCreate(c))
          /\ ~(UNCHANGED vars)
      BY <3>1, Zenon DEF Users, Others, Crash, SyncCache, LandCreate, vars, CreateBinding, EditBinding,
                  DeleteBinding, ChangePool, OthersCreate, OthersReplace, OthersDelete, OthersEdit,
                  OthersHold, OthersRelease
    <3>3. Reconcile
      BY <1>1, <3>2, ZenonT(60) DEF Next
    <3>. QED
      BY <3>1, <3>3, ZenonT(60) DEF Reconcile, StartReconcile, LookUpDeleting, RenderPeer, AddFinalizer,
         RenderOwn, Observe, Confirm, Clear, RemoveFinalizer, ObserveDesired, Reserve, PatchStatus,
         ListBindings, DecideConflict, WithdrawnAll, SettleConflict, WithdrawMember, ConfirmAbsent,
         DelayCreate, CRDMissing
  <2>2. ASSUME NEW r, Delete(r) PROVE \E b \in Bindings : live[b].rec = Confirmed(n, object[n].uid)
    <3>. DEFINE c == Copy(op, op.who)
    <3>1. op.key \in Bindings /\ c.rec = Confirmed(c.rec.name, op.seen.uid)
      BY <1>1, <2>2, OpFacts, ZenonT(60) DEF Delete, Shape
    <3>2. Target(op.who) \in Bindings /\ IsCopy(c, Target(op.who))
      BY <1>1, <3>1, PursuedCopy, ZenonT(60)
    <3>3. object \in [Names -> ObjectStates]
      BY <1>1 DEF ReconcilerInvariant, TypeOK
    <3>4. n = c.rec.name /\ object[n].uid = op.seen.uid
      BY <2>2, <3>3, Zenon DEF Delete
    <3>5. c.rec = Confirmed(n, object[n].uid)
      BY <3>1, <3>4, ZenonT(60)
    <3>6. live[Target(op.who)].rec = c.rec
      BY <3>2, <3>5, ZenonT(60) DEF IsCopy
    <3>. QED
      BY <3>2, <3>5, <3>6, ZenonT(60)
  <2>3. ASSUME NEW r, UpdateOutput(r)
        PROVE \E b \in Bindings : live[b].rec = Confirmed(n, object[n].uid)
    <3>1. op.key \in Bindings /\ op.main.rec = Confirmed(op.plan.name, op.seen.uid)
      BY <1>1, <2>3, ApplyFacts, ZenonT(60) DEF UpdateOutput
    <3>2. IsCopy(op.main, op.key)
      BY <1>1, <3>1, ZenonT(60) DEF ReconcilerInvariant, Copies
    <3>3. object \in [Names -> ObjectStates]
      BY <1>1 DEF ReconcilerInvariant, TypeOK
    <3>4. n = op.plan.name /\ object[n].uid = op.seen.uid
      BY <2>3, <3>3, ZenonT(60) DEF UpdateOutput
    <3>5. op.main.rec = Confirmed(n, object[n].uid)
      BY <3>1, <3>4, ZenonT(60)
    <3>6. live[op.key].rec = op.main.rec
      BY <3>2, <3>5 DEF IsCopy
    <3>. QED
      BY <3>1, <3>5, <3>6
  <2>4. ASSUME NEW r, Create(r) PROVE FALSE
    <3>1. object \in [Names -> ObjectStates]
      BY <1>1 DEF ReconcilerInvariant, TypeOK
    <3>. QED
      BY <2>4, <3>1, ZenonT(60) DEF Create
  <2>. QED
    BY <2>1, <2>2, <2>3, <2>4, ZenonT(60)
<1>2. ReconcilerInvariant /\ [Next]_vars => [Authorized]_vars
  BY <1>1
<1>. QED
  BY <1>2, Invariance, PTL DEF Spec, MutationAuthorized

\* What a step may do to a stored record that matches an object the operator created:
\* nothing but replace the claim by the UID of that very object.
Retains(b) ==
    \A n \in Names : Owns(b, n) /\ object[n].own =>
        \/ live'[b].rec = live[b].rec
        \/ live'[b].rec = Confirmed(n, object[n].uid)

\* Writing the record of the copy the operator works on retains what is owned (Confirm
\* and Clear).
LEMMA PatchRetains ==
    ASSUME ReconcilerInvariant, ~LateCreates, NEW r, NEW next, NEW rec \in Records, op.pc \in {"confirm", "clear"},
           PatchOwnership(r, Recorded(rec), next),
           op.pc = "confirm" => rec = Confirmed(Copy(op, op.who).rec.name, op.seen.uid),
           NEW b \in Bindings
    PROVE  Retains(b)
<1>. SUFFICES ASSUME NEW n \in Names, Owns(b, n), object[n].own, live'[b].rec # live[b].rec
              PROVE  live'[b].rec = Confirmed(n, object[n].uid)
  BY ZenonT(60) DEF Retains
<1>. DEFINE c == Copy(op, op.who)
            new == Recorded(rec)
<1>1. op.key \in Bindings /\ live \in [Bindings -> BindingStates]
  BY OpFacts, ZenonT(60) DEF ReconcilerInvariant, TypeOK
<1>2. Target(op.who) \in Bindings /\ IsCopy(c, Target(op.who))
  BY <1>1, PursuedCopy, Zenon
<1>3. new.rec = rec
  BY <1>1, RecordedFields, ZenonT(60)
<1>4. b = Target(op.who) /\ c.rv = live[b].rv /\ live'[b] = new
  <2>1. \/ live' = live
        \/ c.rv = live[Target(op.who)].rv /\ live' = [live EXCEPT ![Target(op.who)] = new]
    BY ZenonT(60) DEF PatchOwnership
  <2>. HIDE DEF c, new
  <2>. QED
    BY <1>1, <1>2, <2>1, ZenonT(60)
<1>5. c = live[b]
  BY <1>2, <1>4, Zenon DEF IsCopy
<1>6. c.rec.name = n /\ Matches(c.rec, object[n])
  BY <1>5, Zenon DEF Owns
<1>7. op.pc = "confirm" /\ object[n].uid = op.seen.uid
  BY <1>6, ZenonT(60) DEF ReconcilerInvariant, Pursued
<1>. QED
  BY <1>3, <1>4, <1>6, <1>7, ZenonT(60)

\* Every step retains what is owned.
LEMMA NextRetains ==
    ASSUME ReconcilerInvariant, ~LateCreates, [Next]_vars, NEW b \in Bindings PROVE Retains(b)
<1>1. CASE live' = live
  BY <1>1, SMTT(30) DEF Retains
<1>2. CASE live[b].rec = Unclaimed
  <2>1. ASSUME NEW n \in Names PROVE ~Owns(b, n)
    <3>1. live[b].rec.kind = "unclaimed"
      BY <1>2, UnclaimedFields, Zenon
    <3>. QED
      BY <3>1 DEF Owns, Matches
  <2>. QED
    BY <2>1, ZenonT(60) DEF Retains
<1>3. ASSUME NEW r, Confirm(r) PROVE Retains(b)
  <2>1. Confirmed(Copy(op, op.who).rec.name, op.seen.uid) \in Records
    <3>1. op.key \in Bindings /\ Copy(op, op.who).rec.kind = "pending"
      BY <1>3, OpFacts, ZenonT(60) DEF Confirm, Shape
    <3>2. Copy(op, op.who).rec.name \in Names
      BY <3>1, PursuedCopy, Zenon DEF Records, WellFormed
    <3>. QED
      BY <3>2, OpFacts, RecordTypes, ZenonT(60) DEF ObjectStates
  <2>. QED
    BY <1>3, <2>1, PatchRetains, Zenon DEF Confirm
<1>4. ASSUME NEW r, Clear(r) PROVE Retains(b)
  BY <1>4, RecordTypes, PatchRetains, ZenonT(60) DEF Clear
<1>5. ASSUME NEW x \in Bindings, NEW new, live' = [live EXCEPT ![x] = new],
             new.rec = live[x].rec \/ live[x].rec = Unclaimed
      PROVE  Retains(b)
  <2>1. live'[b].rec = live[b].rec \/ live[b].rec = Unclaimed
    BY <1>5 DEF ReconcilerInvariant, TypeOK
  <2>. QED
    BY <1>2, <2>1, ZenonT(60) DEF Retains
<1>6. ASSUME NEW r, Reserve(r) \/ RemoveFinalizer(r) PROVE Retains(b)
  <2>1. op.key \in Bindings /\ op.main.rec = Unclaimed /\ (Reserve(r) => op.who = Main)
    BY <1>6, OpFacts, ZenonT(60) DEF Reserve, RemoveFinalizer, Shape
  <2>2. live' # live => op.main.rv = live[op.key].rv /\ \E new : live' = [live EXCEPT ![op.key] = new]
    <3>1. CASE Reserve(r)
      <4>1. Copy(op, op.who) = op.main /\ Target(op.who) = op.key
        BY <2>1, <3>1 DEF Copy, Target
      <4>. QED
        BY <3>1, <4>1, ZenonT(60) DEF Reserve, PatchOwnership
    <3>2. CASE RemoveFinalizer(r)
      BY <3>2, Zenon DEF RemoveFinalizer
    <3>. QED
      BY <1>6, <3>1, <3>2, SMTT(30)
  <2>3. IsCopy(op.main, op.key)
    BY <2>1, ZenonT(60) DEF ReconcilerInvariant, Copies
  <2>. QED
    BY <1>1, <1>5, <2>1, <2>2, <2>3, ZenonT(60) DEF IsCopy
<1>7. ASSUME NEW r, AddFinalizer(r) \/ PatchStatus(r) PROVE Retains(b)
  <2>1. op.key \in Bindings /\ live \in [Bindings -> BindingStates] /\ live[op.key] \in BindingStates
    BY <1>7, OpFacts, ZenonT(60) DEF AddFinalizer, PatchStatus, ReconcilerInvariant, TypeOK
  <2>2. live'[b].rec = live[b].rec
    <3>1. CASE AddFinalizer(r)
      BY <2>1, <3>1, SMTT(30) DEF AddFinalizer, BindingStates
    <3>2. CASE PatchStatus(r)
      BY <2>1, <3>2 DEF PatchStatus, BindingStates
    <3>. QED
      BY <1>7, <3>1, <3>2, SMTT(30)
  <2>. QED
    BY <2>2, SMTT(30) DEF Retains
<1>8. CASE Users
  <2>1. /\ live \in [Bindings -> BindingStates]
        /\ \A x \in Bindings : live[x].rec = Unclaimed \/ (live[x].there /\ live[x].fin)
    BY DEF ReconcilerInvariant, TypeOK, StoredOK
  <2>2. ASSUME NEW x \in Bindings, NEW s \in Specs, CreateBinding(x, s) PROVE Retains(b)
    BY <1>5, <2>1, <2>2, ZenonT(60) DEF CreateBinding
  <2>3. ASSUME NEW x \in Bindings, NEW s \in Specs, EditBinding(x, s) PROVE Retains(b)
    <3>1. live'[b].rec = live[b].rec
      BY <2>1, <2>3 DEF EditBinding, BindingStates
    <3>. QED
      BY <3>1 DEF Retains
  <2>4. ASSUME NEW x \in Bindings, DeleteBinding(x) PROVE Retains(b)
    <3>1. CASE live[x].fin
      <4>1. live'[b].rec = live[b].rec
        BY <2>1, <2>4, <3>1, SMTT(30) DEF DeleteBinding, BindingStates
      <4>. QED
        BY <4>1 DEF Retains
    <3>2. CASE ~live[x].fin
      BY <1>5, <2>1, <2>4, <3>2, Zenon DEF DeleteBinding
    <3>. QED
      BY <3>1, <3>2, ZenonT(60)
  <2>5. ASSUME NEW p \in Pools, ChangePool(p) PROVE Retains(b)
    BY <1>1, <2>5, SMTT(30) DEF ChangePool
  <2>. QED
    BY <1>8, <2>2, <2>3, <2>4, <2>5, ZenonT(60) DEF Users
<1>9. CASE Others \/ Crash \/ SyncCache \/ (\E c \in inflight : LandCreate(c)) \/ UNCHANGED vars
  <2>1. live' = live
    BY <1>9, Zenon DEF Others, Crash, SyncCache, LandCreate, vars, OthersCreate, OthersReplace,
                OthersDelete, OthersEdit, OthersHold, OthersRelease
  <2>. QED
    BY <1>1, <2>1
<1>10. CASE Reconcile
  <2>1. \/ live' = live
        \/ \E r \in Replies : \/ AddFinalizer(r) \/ Confirm(r) \/ Clear(r) \/ RemoveFinalizer(r)
                              \/ Reserve(r) \/ PatchStatus(r)
    BY <1>10, ZenonT(60) DEF Reconcile, StartReconcile, LookUpDeleting, RenderPeer, RenderOwn, Observe, Delete,
         ObserveDesired, Create, UpdateOutput, ListBindings, DecideConflict, WithdrawnAll,
         SettleConflict, WithdrawMember, ConfirmAbsent, DelayCreate, CRDMissing
  <2>. QED
    BY <1>1, <1>3, <1>4, <1>6, <1>7, <2>1, SMTT(30)
<1>. QED
  BY <1>8, <1>9, <1>10, ZenonT(60) DEF Next

\* No step changes the claim an object carries, as long as it is the same object.
LEMMA ClaimsStay ==
    ASSUME ReconcilerInvariant, [Next]_vars, NEW n \in Names, object[n].there, object'[n].there,
           object'[n].uid = object[n].uid
    PROVE  object'[n].claim = object[n].claim
<1>1. /\ object \in [Names -> ObjectStates] /\ object[n] \in ObjectStates
      /\ object[n].uid \in Nat /\ object[n].uid < nextUid
  BY ObjectFacts
<1>2. CASE object' = object
  BY <1>2, ZenonT(60)
<1>3. ASSUME NEW r, Delete(r) \/ UpdateOutput(r) \/ Create(r) PROVE object'[n].claim = object[n].claim
  <2>1. CASE Delete(r)
    BY <1>1, <2>1, AbsentObjectType, ZenonT(60) DEF Delete, ObjectStates
  <2>2. CASE UpdateOutput(r)
    BY <1>1, <2>2, SMTT(30) DEF UpdateOutput, ObjectStates
  <2>3. CASE Create(r)
    BY <1>1, <2>3 DEF Create
  <2>. QED
    BY <1>3, <2>1, <2>2, <2>3, SMTT(30)
<1>4. ASSUME NEW c \in inflight, LandCreate(c) PROVE object'[n].claim = object[n].claim
  BY <1>1, <1>4, ZenonT(60) DEF LandCreate
<1>5. ASSUME NEW x \in Names, \/ OthersCreate(x) \/ OthersReplace(x) \/ OthersDelete(x)
                              \/ OthersEdit(x) \/ OthersHold(x) \/ OthersRelease(x)
      PROVE object'[n].claim = object[n].claim
  <2>1. CASE OthersCreate(x)
    BY <1>1, <2>1, SMTT(30) DEF OthersCreate
  <2>2. CASE OthersReplace(x)
    BY <1>1, <2>2 DEF OthersReplace, ObjectStates
  <2>3. CASE OthersDelete(x)
    BY <1>1, <2>3, AbsentObjectType, SMTT(30) DEF OthersDelete, ObjectStates
  <2>4. CASE OthersEdit(x)
    BY <1>1, <2>4, SMTT(30) DEF OthersEdit, ObjectStates
  <2>5. CASE OthersHold(x)
    BY <1>1, <2>5 DEF OthersHold, ObjectStates
  <2>6. CASE OthersRelease(x)
    BY <1>1, <2>6, AbsentObjectType, SMTT(30) DEF OthersRelease, ObjectStates
  <2>. QED
    BY <1>5, <2>1, <2>2, <2>3, <2>4, <2>5, <2>6, SMTT(30)
<1>6. \/ object' = object
      \/ \E r \in Replies : Delete(r) \/ UpdateOutput(r) \/ Create(r)
      \/ \E c \in inflight : LandCreate(c)
      \/ Others
  BY Zenon DEF Next, Users, Crash, SyncCache, vars, CreateBinding, EditBinding, DeleteBinding, ChangePool,
         Reconcile, StartReconcile, LookUpDeleting, RenderPeer, AddFinalizer,
         RenderOwn, Observe, Confirm, Clear, RemoveFinalizer, ObserveDesired, Reserve, PatchStatus,
         ListBindings, DecideConflict, WithdrawnAll, SettleConflict, WithdrawMember, ConfirmAbsent,
         DelayCreate, CRDMissing
<1>. QED
  BY <1>2, <1>3, <1>4, <1>5, <1>6, ConstantsAssumption, Zenon DEF Others

\* When a Create that was reported as failed has no later effect, the operator never
\* loses the record of an object it created while that object is there (the clear of
\* listManagedClusterSPIFFEIDs and the promotion of confirmClusterSPIFFEIDOwnership).
THEOREM Retention == ~LateCreates => (Spec => OwnershipRetained)
<1>. DEFINE Retained ==
              \A b \in Bindings, n \in Names :
                /\ Owns(b, n)
                /\ object[n].own
                /\ object'[n].there
                /\ object'[n].uid = object[n].uid
                => Owns(b, n)'
<1>. SUFFICES ASSUME ~LateCreates PROVE Spec => OwnershipRetained
  BY ZenonT(60)
<1>1. ASSUME ReconcilerInvariant, [Next]_vars PROVE Retained
  <2>. SUFFICES ASSUME NEW b \in Bindings, NEW n \in Names, Owns(b, n), object[n].own,
                       object'[n].there, object'[n].uid = object[n].uid
                PROVE  Owns(b, n)'
    OBVIOUS
  <2>1. Retains(b)
    BY <1>1, NextRetains, ZenonT(60)
  <2>2. object'[n].claim = object[n].claim
    BY <1>1, ClaimsStay, ZenonT(60) DEF Owns, Matches
  <2>3. CASE live'[b].rec = live[b].rec
    BY <2>2, <2>3, ZenonT(60) DEF Owns, Matches
  <2>4. CASE live'[b].rec = Confirmed(n, object[n].uid)
    <3>. DEFINE c == Confirmed(n, object[n].uid)
    <3>1. c.kind = "confirmed" /\ c.name = n /\ c.uid = object[n].uid
      BY Zenon DEF Confirmed
    <3>2. live'[b].rec = c
      BY <2>4, ZenonT(60)
    <3>. QED
      BY <3>1, <3>2, ZenonT(60) DEF Owns, Matches
  <2>. QED
    BY <2>1, <2>3, <2>4, ZenonT(60) DEF Retains
<1>2. ReconcilerInvariant /\ [Next]_vars => [Retained]_vars
  BY <1>1
<1>. QED
  BY <1>2, Invariance, PTL DEF Spec, OwnershipRetained

-----------------------------------------------------------------------------
(* What is about to be confirmed. *)

\* A UID is never used again: what has an old UID after a step is the object that had
\* it before.
LEMMA SameObject ==
    ASSUME ReconcilerInvariant, [Next]_vars, NEW n \in Names, object'[n].there,
           object'[n].uid < nextUid
    PROVE  object[n].there /\ object'[n].uid = object[n].uid /\ object'[n].claim = object[n].claim
<1>. DEFINE Same == object[n].there /\ object'[n].uid = object[n].uid
<1>. SUFFICES Same
  BY ClaimsStay, SMTT(30)
<1>1. /\ object \in [Names -> ObjectStates] /\ object[n] \in ObjectStates
      /\ object[n].uid \in Nat /\ nextUid \in Nat
  BY ObjectFacts, SMTT(30) DEF ReconcilerInvariant, TypeOK
<1>2. CASE object' = object
  BY <1>2
<1>3. ASSUME NEW r, Delete(r) \/ UpdateOutput(r) \/ Create(r) PROVE Same
  <2>1. CASE Delete(r)
    BY <1>1, <2>1, AbsentObjectType, ZenonT(60) DEF Delete, ObjectStates
  <2>2. CASE UpdateOutput(r)
    <3>1. CASE object' = object
      BY <3>1
    <3>2. CASE object' = [object EXCEPT ![op.plan.name].body = op.plan] /\ object[op.plan.name] = op.seen
      BY <1>1, <3>2, SMTT(30) DEF ObjectStates
    <3>. QED
      BY <2>2, <3>1, <3>2, SMTT(30) DEF UpdateOutput
  <2>3. CASE Create(r)
    BY <1>1, <2>3, AbsentObjectType, SMTT(30) DEF Create, Desired, ObjectStates
  <2>. QED
    BY <1>3, <2>1, <2>2, <2>3, SMTT(30)
<1>4. ASSUME NEW c \in inflight, LandCreate(c) PROVE Same
  <2>1. c.body \in ObjectStates
    BY ZenonT(60) DEF ReconcilerInvariant, TypeOK
  <2>. QED
    BY <1>1, <1>4, <2>1, SMTT(30) DEF LandCreate, ObjectStates
<1>5. ASSUME NEW x \in Names, \/ OthersCreate(x) \/ OthersReplace(x) \/ OthersDelete(x)
                              \/ OthersEdit(x) \/ OthersHold(x) \/ OthersRelease(x)
      PROVE Same
  <2>1. CASE OthersCreate(x)
    BY <1>1, <2>1, AbsentObjectType, SMTT(30) DEF OthersCreate, ObjectStates
  <2>2. CASE OthersReplace(x)
    BY <1>1, <2>2, SMTT(30) DEF OthersReplace, ObjectStates
  <2>3. CASE OthersDelete(x)
    BY <1>1, <2>3, AbsentObjectType, SMTT(30) DEF OthersDelete, ObjectStates
  <2>4. CASE OthersEdit(x)
    BY <1>1, <2>4 DEF OthersEdit, ObjectStates
  <2>5. CASE OthersHold(x)
    BY <1>1, <2>5 DEF OthersHold, ObjectStates
  <2>6. CASE OthersRelease(x)
    BY <1>1, <2>6, AbsentObjectType, SMTT(30) DEF OthersRelease, ObjectStates
  <2>. QED
    BY <1>5, <2>1, <2>2, <2>3, <2>4, <2>5, <2>6, SMTT(30)
<1>6. \/ object' = object
      \/ \E r \in Replies : Delete(r) \/ UpdateOutput(r) \/ Create(r)
      \/ \E c \in inflight : LandCreate(c)
      \/ Others
  BY ZenonT(60) DEF Next, Users, Crash, SyncCache, vars, CreateBinding, EditBinding, DeleteBinding, ChangePool,
         Reconcile, StartReconcile, LookUpDeleting, RenderPeer, AddFinalizer,
         RenderOwn, Observe, Confirm, Clear, RemoveFinalizer, ObserveDesired, Reserve, PatchStatus,
         ListBindings, DecideConflict, WithdrawnAll, SettleConflict, WithdrawMember, ConfirmAbsent,
         DelayCreate, CRDMissing
<1>. QED
  BY <1>2, <1>3, <1>4, <1>5, <1>6, ConstantsAssumption, Zenon DEF Others

\* The first part of Traced, which is about the record the operator is to confirm.
ToConfirm ==
    LET rec == Copy(op, op.who).rec
        o == object[rec.name]
    IN  op.pc = "confirm" => (o.there /\ o.uid = op.seen.uid => o.claim = rec.claim)

\* The invariant of the refinement holds in every reachable state.
LEMMA RefinementInvariance == Spec => []RefinementInvariant
\* The operator goes on with something other than a confirmation.
<1>FinishElsewhere. ASSUME NEW o, NEW cond PROVE Finish(o, cond).pc # "confirm"
  BY <1>FinishElsewhere DEF Finish, IdleOp
\* Returning from the list of managed outputs never leads to a confirmation.
<1>ListedElsewhere. ASSUME NEW o, NEW found, "pc" \in DOMAIN o PROVE Listed(o, found).pc # "confirm"
  <2>. USE <1>ListedElsewhere
  <2>1. ASSUME NEW p, "pc" \in DOMAIN p PROVE NextPeer(p).pc # "confirm"
    BY <2>1 DEF NextPeer
  <2>2. NextPeer([o EXCEPT !.blocked = IF found THEN @ \cup {o.who} ELSE @]).pc # "confirm"
    BY <2>1
  <2>3. IdleOp.pc # "confirm"
    BY DEF IdleOp
  <2>. QED
    BY <2>1, <2>2, <2>3, <1>FinishElsewhere, SMTT(30) DEF Listed
\* Nor does listing, ...
<1>ListManagedElsewhere. ASSUME NEW o, NEW x, NEW ret, "pc" \in DOMAIN o PROVE ListManaged(o, x, ret).pc # "confirm"
  BY <1>ListManagedElsewhere, <1>ListedElsewhere, ZenonT(60) DEF ListManaged
\* ... nor cleaning up, ...
<1>CleanedUpElsewhere. ASSUME NEW o, "pc" \in DOMAIN o PROVE CleanedUp(o).pc # "confirm"
  BY <1>CleanedUpElsewhere, <1>ListManagedElsewhere DEF CleanedUp
\* ... nor the cleanup it enters from elsewhere.
<1>CleanUpElsewhere. ASSUME NEW o, NEW x, NEW ret, "pc" \in DOMAIN o PROVE CleanUp(o, x, ret).pc # "confirm"
  BY <1>CleanUpElsewhere, <1>CleanedUpElsewhere, ZenonT(60) DEF CleanUp
\* ... nor a record that agrees with what was observed.
<1>SettledElsewhere. ASSUME NEW o, NEW found, "pc" \in DOMAIN o PROVE Settled(o, found).pc # "confirm"
  BY <1>SettledElsewhere, <1>CleanedUpElsewhere, <1>ListedElsewhere, <1>FinishElsewhere, SMTT(30) DEF Settled, ApplyFailed
\* The operator comes to confirm a record only by looking at the object under the
\* recorded name, or by creating it.
<1>Elsewhere.
      ASSUME ReconcilerInvariant, [Next]_vars
      PROVE  \/ op' = op
             \/ \E r \in Replies : Observe(r) \/ ObserveDesired(r) \/ Create(r)
             \/ op'.pc # "confirm"
  <2>. USE <1>Elsewhere
  <2>. DEFINE Goal == op'.pc # "confirm"
  <2>1. "pc" \in DOMAIN op /\ IdleOp.pc # "confirm"
    BY OpFacts, ZenonT(60) DEF OpStates, IdleOp
  <2>2. ASSUME NEW b \in Bindings, StartReconcile(b) PROVE Goal
    <3>. DEFINE o == [IdleOp EXCEPT !.key = b, !.main = Cached(b)]
    <3>1. "pc" \in DOMAIN o
      BY DEF IdleOp
    <3>. HIDE DEF o
    <3>2. /\ CleanUp(o, Main, "finalize").pc # "confirm"
          /\ [o EXCEPT !.pc = "render"].pc = "render"
          /\ [o EXCEPT !.pc = "addFinalizer"].pc = "addFinalizer"
      BY <3>1, <1>CleanUpElsewhere
    <3>. USE DEF o
    <3>. QED
      BY <2>2, <3>2, Zenon DEF StartReconcile
  <2>3. ASSUME NEW b \in Bindings, LookUpDeleting(b) PROVE Goal
    BY <2>1, <2>3, <1>ListManagedElsewhere, ZenonT(60) DEF LookUpDeleting
  <2>4. ASSUME NEW b \in Bindings, NEW r \in Replies, RenderPeer(b, r) PROVE Goal
    <3>1. ASSUME NEW plans PROVE NextPeer([[op EXCEPT !.who = b] EXCEPT !.plans = plans]).pc # "confirm"
      BY <2>1 DEF NextPeer
    <3>2. ListManaged(op, b, "brokenPeer").pc # "confirm" /\ ApplyFailed(op).pc # "confirm"
      BY <2>1, <1>ListManagedElsewhere, <1>FinishElsewhere, Zenon DEF ApplyFailed
    <3>. QED
      BY <2>4, <3>1, <3>2, ZenonT(60) DEF RenderPeer
  <2>5. ASSUME NEW r \in Replies, AddFinalizer(r) PROVE Goal
    BY <2>1, <2>5, SMTT(30) DEF AddFinalizer
  <2>6. ASSUME NEW r \in Replies, RenderOwn(r) PROVE Goal
    BY <2>1, <2>6, <1>CleanUpElsewhere, SMTT(30) DEF RenderOwn
  <2>7. ASSUME NEW r, NEW new, NEW next, PatchOwnership(r, new, next), next.pc # "confirm" PROVE Goal
    BY <2>7, <1>FinishElsewhere, Zenon DEF PatchOwnership, ApplyFailed
  <2>8. ASSUME NEW r \in Replies, Confirm(r) \/ Clear(r) PROVE Goal
    <3>1. ASSUME NEW new, NEW found PROVE Settled(WithCopy(op, op.who, new), found).pc # "confirm"
      <4>1. "pc" \in DOMAIN WithCopy(op, op.who, new)
        BY <2>1 DEF WithCopy
      <4>. QED
        BY <4>1, <1>SettledElsewhere, SMTT(30)
    <3>. QED
      BY <2>7, <2>8, <3>1, Zenon DEF Confirm, Clear
  <2>9. ASSUME NEW r \in Replies, Reserve(r) PROVE Goal
    <3>1. ASSUME NEW new PROVE [op EXCEPT !.pc = "create", !.main = new].pc # "confirm"
      BY <2>1
    <3>. QED
      BY <2>7, <2>9, <3>1, Zenon DEF Reserve
  <2>10. ASSUME NEW r \in Replies, Delete(r) PROVE Goal
    BY <2>1, <2>10, <1>CleanedUpElsewhere, <1>FinishElsewhere, Zenon DEF Delete, ApplyFailed
  <2>11. ASSUME NEW r \in Replies, RemoveFinalizer(r) \/ PatchStatus(r) PROVE Goal
    BY <2>1, <2>11, Zenon DEF RemoveFinalizer, PatchStatus
  <2>12. ASSUME NEW r \in Replies, UpdateOutput(r) PROVE Goal
    BY <2>12, <1>FinishElsewhere, Zenon DEF UpdateOutput, ApplyFailed
  <2>13. CASE ListBindings
    BY <2>1, <2>13, SMTT(30) DEF ListBindings
  <2>14. CASE DecideConflict
    <3>. DEFINE free == [IdleOp EXCEPT !.key = op.key, !.main = op.main, !.plan = op.plan]
    <3>1. "pc" \in DOMAIN free
      BY DEF IdleOp
    <3>. HIDE DEF free
    <3>2. /\ CleanUp(free, Main, "rename").pc # "confirm"
          /\ [free EXCEPT !.pc = "apply"].pc = "apply"
          /\ [op EXCEPT !.pc = "withdraw", !.members = Members(op), !.todo = Members(op)].pc = "withdraw"
      BY <2>1, <3>1, <1>CleanUpElsewhere, SMTT(30)
    <3>. USE DEF free
    <3>. QED
      BY <2>14, <3>2, Zenon DEF DecideConflict
  <2>15. CASE WithdrawnAll
    BY <2>1, <2>15 DEF WithdrawnAll
  <2>16. CASE SettleConflict
    <3>1. "pc" \in DOMAIN Finish(op, "Conflict")
      BY DEF Finish, IdleOp
    <3>2. [Finish(op, "Conflict") EXCEPT !.members = op.members].pc = Finish(op, "Conflict").pc
      BY <3>1
    <3>. QED
      BY <2>16, <3>2, <1>FinishElsewhere, Zenon DEF SettleConflict
  <2>17. ASSUME NEW m, WithdrawMember(m) \/ ConfirmAbsent(m) PROVE Goal
    BY <2>1, <2>17, <1>CleanUpElsewhere, <1>ListManagedElsewhere, Zenon DEF WithdrawMember, ConfirmAbsent
  <2>18. CASE DelayCreate
    BY <2>18, <1>FinishElsewhere, Zenon DEF DelayCreate, ApplyFailed
  <2>19. CASE CRDMissing
    BY <2>1, <2>19, <1>CleanUpElsewhere, Zenon DEF CRDMissing
  <2>20. CASE Crash
    BY <2>1, <2>20, Zenon DEF Crash
  <2>21. CASE Others \/ SyncCache \/ (\E c \in inflight : LandCreate(c))
    BY <2>21, Zenon DEF Others, SyncCache, LandCreate, OthersCreate, OthersReplace, OthersDelete,
                        OthersEdit, OthersHold, OthersRelease
  <2>22. CASE Users \/ UNCHANGED vars
    BY <2>22, Zenon DEF Users, CreateBinding, EditBinding, DeleteBinding, ChangePool, vars
  <2>. QED
    BY <2>2, <2>3, <2>4, <2>5, <2>6, <2>8, <2>9, <2>10, <2>11, <2>12, <2>13, <2>14, <2>15, <2>16,
       <2>17, <2>18, <2>19, <2>20, <2>21, <2>22, Zenon DEF Next, Reconcile
\* Observing an object that carries the claim (listManagedClusterSPIFFEIDs).
<1>ObserveTraced. ASSUME ReconcilerInvariant, NEW r \in Replies, Observe(r) PROVE ToConfirm'
  <2>. USE <1>ObserveTraced
  <2>. SUFFICES ASSUME op'.pc = "confirm" PROVE ToConfirm'
    BY DEF ToConfirm
  <2>. DEFINE rec == Copy(op, op.who).rec
              s == object[rec.name]
              o == [op EXCEPT !.seen = s]
  <2>1. op \in OpStates /\ "pc" \in DOMAIN o
    BY OpFacts, ZenonT(60) DEF OpStates
  <2>2. /\ ApplyFailed(op).pc # "confirm" /\ Settled(o, TRUE).pc # "confirm"
        /\ [o EXCEPT !.pc = "clear"].pc # "confirm"
    BY <2>1, <1>FinishElsewhere, <1>SettledElsewhere, Zenon DEF ApplyFailed
  <2>3. o.seen = s
    BY <2>1, ZenonT(60) DEF OpStates
  <2>4. op' = [o EXCEPT !.pc = "confirm"] /\ Matches(rec, s) /\ rec.kind = "pending"
    BY <2>2, <2>3, Zenon DEF Observe
  <2>5. op'.who = op.who /\ op'.main = op.main /\ op'.list = op.list
    BY <2>1, <2>4, ZenonT(60) DEF OpStates
  <2>6. Copy(op', op'.who).rec = rec
    BY <2>5, Zenon DEF Copy
  <2>7. object' = object /\ s.claim = rec.claim
    BY <2>4, Zenon DEF Observe, Matches
  <2>. QED
    BY <2>6, <2>7, Zenon DEF ToConfirm
\* Observing the desired object (authorizeManagedOutputApply).
<1>ObserveDesiredTraced. ASSUME ReconcilerInvariant, NEW r \in Replies, ObserveDesired(r) PROVE ToConfirm'
  <2>. USE <1>ObserveDesiredTraced
  <2>. SUFFICES ASSUME op'.pc = "confirm" PROVE ToConfirm'
    BY DEF ToConfirm
  <2>. DEFINE rec == op.main.rec
              s == object[op.plan.name]
              o == [op EXCEPT !.who = Main, !.mode = "apply", !.seen = s]
  <2>1. op \in OpStates /\ "pc" \in DOMAIN o /\ Shape(op)
    BY OpFacts, ZenonT(60) DEF OpStates
  <2>2. /\ ApplyFailed(op).pc # "confirm" /\ Settled(o, TRUE).pc # "confirm"
        /\ Settled(o, FALSE).pc # "confirm" /\ [o EXCEPT !.pc = "clear"].pc # "confirm"
        /\ [o EXCEPT !.pc = "create"].pc # "confirm"
    BY <2>1, <1>FinishElsewhere, <1>SettledElsewhere, ZenonT(60) DEF ApplyFailed
  <2>3. o.seen = s
    BY <2>1, ZenonT(60) DEF OpStates
  <2>4. op' = [o EXCEPT !.pc = "confirm"] /\ Matches(rec, s) /\ rec.kind = "pending"
    BY <2>2, <2>3, ZenonT(60) DEF ObserveDesired
  <2>5. op'.who = Main /\ op'.main = op.main
    BY <2>1, <2>4, ZenonT(60) DEF OpStates
  <2>6. Copy(op', op'.who).rec = rec
    BY <2>5, Zenon DEF Copy
  <2>7. rec.name = op.plan.name
    <3>1. rec \in Records
      BY OpFacts DEF BindingStates
    <3>2. rec.name \in Names
      BY <2>4, <3>1, ZenonT(60) DEF Records, WellFormed
    <3>3. rec.name \in {"", op.plan.name}
      BY <2>1, ZenonT(60) DEF Shape, ObserveDesired
    <3>. QED
      BY <3>2, <3>3, ConstantsAssumption, ZenonT(60)
  <2>8. object' = object /\ s.claim = rec.claim
    BY <2>4, Zenon DEF ObserveDesired, Matches
  <2>. QED
    BY <2>6, <2>7, <2>8, ZenonT(60) DEF ToConfirm
\* Creating the object under the claim (createManagedClusterSPIFFEID).
<1>CreateTraced. ASSUME ReconcilerInvariant, NEW r \in Replies, Create(r) PROVE ToConfirm'
  <2>. USE <1>CreateTraced
  <2>. SUFFICES ASSUME op'.pc = "confirm" PROVE ToConfirm'
    BY DEF ToConfirm
  <2>. DEFINE n == op.plan.name
              new == Desired(nextUid)
  <2>1. /\ op \in OpStates /\ n \in Names /\ op.who = Main
        /\ op.main.rec = Pending(n, op.main.rec.claim)
    BY ApplyFacts DEF Create
  <2>2. ApplyFailed(op).pc # "confirm"
    BY <1>FinishElsewhere, Zenon DEF ApplyFailed
  <2>3. /\ op' = [op EXCEPT !.pc = "confirm", !.mode = "created", !.seen = new]
        /\ object' = [object EXCEPT ![n] = new]
    BY <2>2, Zenon DEF Create
  <2>4. Copy(op', op'.who).rec = op.main.rec
    BY <2>1, <2>3, ZenonT(60) DEF OpStates, Copy
  <2>5. op.main.rec.name = n
    BY <2>1, PendingFields, SMTT(30)
  <2>6. object'[n] = new
    BY <2>1, <2>3, ObjectFacts, SMTT(30)
  <2>7. new.claim = op.main.rec.claim
    BY DEF Desired, AbsentObject
  <2>. QED
    BY <2>4, <2>5, <2>6, <2>7, ZenonT(60) DEF ToConfirm
\* What is to be confirmed stays so while others act.
<1>WaitingTraced. ASSUME ReconcilerInvariant, ToConfirm, [Next]_vars, op' = op PROVE ToConfirm'
  <2>. USE <1>WaitingTraced
  <2>. DEFINE rec == Copy(op, op.who).rec
              n == rec.name
  <2>. SUFFICES ASSUME op.pc = "confirm", object'[n].there, object'[n].uid = op.seen.uid
                PROVE  object'[n].claim = rec.claim
    BY ZenonT(60) DEF ToConfirm
  <2>1. op.key \in Bindings /\ rec.kind = "pending" /\ op.seen.uid < nextUid
    BY OpFacts, ZenonT(60) DEF Shape, ReconcilerInvariant, StoredOK
  <2>2. n \in Names
    BY <2>1, PursuedCopy, Zenon DEF Records, WellFormed
  <2>. HIDE DEF n, rec
  <2>3. object[n].there /\ object'[n].uid = object[n].uid /\ object'[n].claim = object[n].claim
    BY <2>1, <2>2, SameObject, SMTT(30)
  <2>. QED
    BY <2>3, Zenon DEF ToConfirm, n, rec
\* Only Creates of the operator's own are left to take effect (DelayCreate).
<1>InflightTraced.
      ASSUME ReconcilerInvariant, Traced, [Next]_vars
      PROVE  \A c \in inflight' : c.body.there /\ c.body.own
  <2>. USE <1>InflightTraced
  <2>1. CASE inflight' \subseteq inflight
    BY <2>1, SMTT(30) DEF Traced
  <2>2. CASE DelayCreate
    <3>1. Desired(0).there /\ Desired(0).own
      BY DEF Desired, AbsentObject
    <3>2. inflight' = inflight \cup {[name |-> op.plan.name, body |-> Desired(0)]}
      BY <2>2, SMTT(30) DEF DelayCreate
    <3>. QED
      BY <3>1, <3>2, SMTT(30) DEF Traced
  <2>3. CASE \E c \in inflight : LandCreate(c)
    BY <2>1, <2>3, ZenonT(60) DEF LandCreate
  <2>4. inflight' = inflight \/ DelayCreate \/ (\E c \in inflight : LandCreate(c))
    BY ZenonT(60) DEF Next, Users, Others, Crash, SyncCache, vars, CreateBinding, EditBinding, DeleteBinding,
           ChangePool, OthersCreate, OthersReplace, OthersDelete, OthersEdit, OthersHold, OthersRelease,
           Reconcile, StartReconcile, LookUpDeleting, RenderPeer, AddFinalizer,
           RenderOwn, Observe, Confirm, Clear, RemoveFinalizer, ObserveDesired, Reserve, PatchStatus,
           Delete, UpdateOutput, Create,
           ListBindings, DecideConflict, WithdrawnAll, SettleConflict, WithdrawMember, ConfirmAbsent,
           CRDMissing
  <2>. QED
    BY <2>1, <2>2, <2>3, <2>4, ZenonT(60)
<1>1. Init => RefinementInvariant
  <2>1. ASSUME Init PROVE Traced
    BY <2>1, ZenonT(60) DEF Init, Traced, IdleOp
  <2>. QED
    BY <2>1, InitOK, SMTT(30) DEF RefinementInvariant
<1>2. ASSUME RefinementInvariant, [Next]_vars PROVE RefinementInvariant'
  <2>1. ReconcilerInvariant /\ Traced /\ ToConfirm
    BY <1>2, ZenonT(60) DEF RefinementInvariant, Traced, ToConfirm
  <2>2. ToConfirm'
    <3>1. CASE op'.pc # "confirm"
      BY <3>1, Zenon DEF ToConfirm
    <3>. QED
      BY <1>2, <2>1, <3>1, <1>Elsewhere, <1>WaitingTraced, <1>ObserveTraced, <1>ObserveDesiredTraced, <1>CreateTraced, ZenonT(60)
  <2>3. Traced'
    BY <1>2, <2>1, <2>2, <1>InflightTraced, ZenonT(60) DEF Traced, ToConfirm
  <2>. QED
    BY <1>2, <2>1, <2>3, NextOK, ZenonT(60) DEF RefinementInvariant
<1>. QED
  BY <1>1, <1>2, PTL DEF Spec

-----------------------------------------------------------------------------
(* What the steps write. *)

\* No other binding's record changes.
OnlyRecord(b) == \A c \in Bindings \ {b} : live'[c].rec = live[c].rec

\* A patch of the ownership record replaces the record of one binding, if the copy it
\* was based on is the stored binding (patchOwnershipStatus).
LEMMA PatchWrites ==
    ASSUME ReconcilerInvariant, op.key \in Bindings, NEW r, NEW new, NEW next,
           PatchOwnership(r, new, next), NEW b, b = Target(op.who)
    PROVE  /\ b \in Bindings
           /\ \/ live' = live
              \/ /\ Copy(op, op.who) = live[b]
                 /\ live'[b] = new
                 /\ OnlyRecord(b)
<1>1. b \in Bindings /\ IsCopy(Copy(op, op.who), b)
  BY PursuedCopy, ZenonT(60)
<1>2. live \in [Bindings -> BindingStates]
  BY ZenonT(60) DEF ReconcilerInvariant, TypeOK
<1>3. \/ live' = live
      \/ Copy(op, op.who).rv = live[b].rv /\ live' = [live EXCEPT ![b] = new]
  BY Zenon DEF PatchOwnership
<1>4. CASE Copy(op, op.who).rv = live[b].rv /\ live' = [live EXCEPT ![b] = new]
  <2>1. Copy(op, op.who) = live[b]
    BY <1>1, <1>4, Zenon DEF IsCopy
  <2>2. live'[b] = new /\ OnlyRecord(b)
    BY <1>1, <1>2, <1>4, Zenon DEF OnlyRecord
  <2>. QED
    BY <1>1, <2>1, <2>2, ZenonT(60)
<1>. QED
  BY <1>1, <1>3, <1>4, ZenonT(60)

\* Confirming replaces the claim of one record by the UID of an object that carries the
\* claim, unless that object is gone (confirmClusterSPIFFEIDOwnership).
LEMMA ConfirmWrites ==
    ASSUME RefinementInvariant, NEW r, Confirm(r), live' # live
    PROVE  \E b \in Bindings, n \in Names, u \in Nat :
              /\ b = Target(op.who) /\ Copy(op, op.who) = live[b] /\ OnlyRecord(b)
              /\ live[b].rec.kind = "pending" /\ live[b].rec.name = n
              /\ live'[b].rec = Confirmed(n, u) /\ u = op.seen.uid /\ u < nextUid
              /\ object[n].there /\ object[n].uid = u => object[n].claim = live[b].rec.claim
<1>. DEFINE c == Copy(op, op.who)
<1>1. ReconcilerInvariant /\ Traced /\ op.pc = "confirm"
  BY DEF RefinementInvariant, Confirm
<1>2. op.key \in Bindings /\ c.rec.kind = "pending"
  BY <1>1, OpFacts, ZenonT(60) DEF Shape
<1>3. PICK b \in Bindings, n \in Names, u \in Nat :
         b = Target(op.who) /\ n = c.rec.name /\ u = op.seen.uid /\ u < nextUid
  <2>1. op.seen.uid \in Nat
    BY <1>1, OpFacts, SMTT(30) DEF ObjectStates
  <2>2. c.rec.name \in Names
    BY <1>1, <1>2, PursuedCopy, ZenonT(60) DEF Records, WellFormed
  <2>3. Target(op.who) \in Bindings /\ op.seen.uid < nextUid
    BY <1>1, <1>2, PursuedCopy, ZenonT(60) DEF ReconcilerInvariant, StoredOK
  <2>. QED
    BY <2>1, <2>2, <2>3, Zenon
<1>4. Confirmed(n, u) \in Records
  BY RecordTypes, Zenon
<1>5. PICK new : new = Recorded(Confirmed(n, u))
  OBVIOUS
<1>6. new.rec = Confirmed(n, u)
  BY <1>1, <1>2, <1>4, <1>5, RecordedFields, ZenonT(60)
<1>7. PatchOwnership(r, new, Settled(WithCopy(op, op.who, new), TRUE))
  BY <1>3, <1>5, Zenon DEF Confirm
<1>8. c = live[b] /\ live'[b] = new /\ OnlyRecord(b)
  BY <1>1, <1>2, <1>3, <1>7, PatchWrites, ZenonT(60)
<1>9. live[b].rec.kind = "pending" /\ live[b].rec.name = n
  BY <1>2, <1>3, <1>8, ZenonT(60)
<1>10. object[n].there /\ object[n].uid = u => object[n].claim = live[b].rec.claim
  BY <1>1, <1>3, <1>8, ZenonT(60) DEF Traced
<1>11. live'[b].rec = Confirmed(n, u)
  BY <1>6, <1>8, ZenonT(60)
<1>. QED
  BY <1>3, <1>8, <1>9, <1>10, <1>11, ZenonT(60)

\* Clearing drops one record, the one that was looked at (clearClusterSPIFFEIDOwnership).
LEMMA ClearWrites ==
    ASSUME ReconcilerInvariant, NEW r, Clear(r), live' # live
    PROVE  \E b \in Bindings :
              /\ b = Target(op.who) /\ Copy(op, op.who) = live[b] /\ OnlyRecord(b)
              /\ live[b].rec.kind # "unclaimed" /\ live'[b].rec = Unclaimed
<1>. DEFINE c == Copy(op, op.who)
<1>1. op.pc = "clear"
  BY DEF Clear
<1>2. op.key \in Bindings /\ c.rec.kind # "unclaimed"
  BY <1>1, OpFacts, ZenonT(60) DEF Shape
<1>3. PICK b \in Bindings : b = Target(op.who)
  BY <1>2, PursuedCopy, ZenonT(60)
<1>4. PICK new : new = Recorded(Unclaimed)
  OBVIOUS
<1>5. new.rec = Unclaimed
  BY <1>2, <1>4, RecordTypes, RecordedFields, ZenonT(60)
<1>6. PatchOwnership(r, new, Settled(WithCopy(op, op.who, new), FALSE))
  BY <1>4, Zenon DEF Clear
<1>7. c = live[b] /\ live'[b] = new /\ OnlyRecord(b)
  BY <1>2, <1>3, <1>6, PatchWrites, ZenonT(60)
<1>8. live[b].rec.kind # "unclaimed" /\ live'[b].rec = Unclaimed
  BY <1>2, <1>5, <1>7, ZenonT(60)
<1>. QED
  BY <1>3, <1>7, <1>8, ZenonT(60)

\* Reserving stores a fresh claim of the binding itself (reserveClusterSPIFFEIDClaim).
LEMMA ReserveWrites ==
    ASSUME ReconcilerInvariant, NEW r, Reserve(r), live' # live
    PROVE  \E b \in Bindings, n \in Names :
              /\ b = op.key /\ op.main = live[b] /\ OnlyRecord(b)
              /\ live[b].rec = Unclaimed
              /\ live'[b].rec = Pending(n, [by |-> b, no |-> nextClaim])
<1>1. op.pc = "reserve"
  BY DEF Reserve
<1>2. op.key \in Bindings /\ op.main.rec = Unclaimed /\ op.who = Main /\ op.plan.name \in Names
  BY <1>1, OpFacts, ConstantsAssumption, ZenonT(60) DEF Shape
<1>3. Copy(op, op.who) = op.main /\ Target(op.who) = op.key
  BY <1>2, Zenon DEF Copy, Target
<1>4. PICK b \in Bindings, n \in Names : b = op.key /\ n = op.plan.name
  BY <1>2, ZenonT(60)
<1>5. PICK claim \in Claims : claim = [by |-> b, no |-> nextClaim]
  BY ZenonT(60) DEF Claims, ReconcilerInvariant, TypeOK
<1>6. PICK old : old = Recorded(Pending(n, claim))
  OBVIOUS
<1>7. old \in BindingStates /\ old.rec = Pending(n, claim)
  BY <1>2, <1>6, RecordTypes, RecordedFields, ZenonT(60)
<1>8. PICK new : new = [old EXCEPT !.cond = "PendingOutput", !.shown = NoPlan]
  OBVIOUS
<1>9. new.rec = Pending(n, claim)
  BY <1>7, <1>8, SMTT(30) DEF BindingStates
<1>10. PatchOwnership(r, new, [op EXCEPT !.pc = "create", !.main = new])
  BY <1>4, <1>5, <1>6, <1>8, ZenonT(60) DEF Reserve
<1>11. op.main = live[b] /\ live'[b] = new /\ OnlyRecord(b)
  BY <1>2, <1>3, <1>4, <1>10, PatchWrites, ZenonT(60)
<1>12. live[b].rec = Unclaimed /\ live'[b].rec = Pending(n, [by |-> b, no |-> nextClaim])
  BY <1>2, <1>5, <1>9, <1>11, ZenonT(60)
<1>. QED
  BY <1>4, <1>11, <1>12, ZenonT(60)

\* Adding and removing the finalizer, writing the conditions, and what users do leave
\* the ownership records alone (patchStatus, reconcileDelete).
LEMMA RecordsStay ==
    ASSUME ReconcilerInvariant,
           \/ Users
           \/ \E r \in Replies : AddFinalizer(r) \/ RemoveFinalizer(r) \/ PatchStatus(r)
    PROVE  \A b \in Bindings : live'[b].rec = live[b].rec
<1>1. /\ live \in [Bindings -> BindingStates]
      /\ \A x \in Bindings : live[x].rec = Unclaimed \/ (live[x].there /\ live[x].fin)
  BY DEF ReconcilerInvariant, TypeOK, StoredOK
<1>. SUFFICES ASSUME NEW b \in Bindings PROVE live'[b].rec = live[b].rec
  OBVIOUS
<1>2. ASSUME NEW x \in Bindings, NEW new, live' = [live EXCEPT ![x] = new],
             new.rec = live[x].rec
      PROVE  live'[b].rec = live[b].rec
  BY <1>1, <1>2, SMTT(30)
<1>3. ASSUME NEW rv, NEW s \in Specs PROVE AbsentBinding(rv).rec = Unclaimed /\ NewBinding(s, rv).rec = Unclaimed
  BY DEF AbsentBinding, NewBinding
<1>4. ASSUME NEW r \in Replies, AddFinalizer(r) \/ PatchStatus(r) PROVE live'[b].rec = live[b].rec
  <2>1. op.key \in Bindings /\ live[op.key] \in BindingStates
    BY <1>1, <1>4, OpFacts, ZenonT(60) DEF AddFinalizer, PatchStatus
  <2>2. CASE AddFinalizer(r)
    BY <1>1, <2>1, <2>2, ZenonT(60) DEF AddFinalizer, BindingStates
  <2>3. CASE PatchStatus(r)
    BY <1>1, <2>1, <2>3, ZenonT(60) DEF PatchStatus, BindingStates
  <2>. QED
    BY <1>4, <2>2, <2>3, ZenonT(60)
<1>5. ASSUME NEW r \in Replies, RemoveFinalizer(r) PROVE live'[b].rec = live[b].rec
  <2>1. op.key \in Bindings /\ op.main.rec = Unclaimed
    BY <1>5, OpFacts, ZenonT(60) DEF RemoveFinalizer, Shape
  <2>2. IsCopy(op.main, op.key)
    BY <2>1, SMTT(30) DEF ReconcilerInvariant, Copies
  <2>3. PICK x \in Bindings, rv \in {live[op.key].rv + 1} : x = op.key /\ rv = live[x].rv + 1
    BY <2>1, Zenon
  <2>4. \/ live' = live
        \/ op.main.rv = live[x].rv /\ live' = [live EXCEPT ![x] = AbsentBinding(rv)]
    BY <1>5, <2>3, Zenon DEF RemoveFinalizer
  <2>5. op.main.rv = live[x].rv => live[x].rec = Unclaimed
    BY <2>1, <2>2, <2>3, ZenonT(60) DEF IsCopy
  <2>6. AbsentBinding(rv).rec = Unclaimed
    BY ZenonT(60) DEF AbsentBinding
  <2>. QED
    BY <1>2, <2>4, <2>5, <2>6, ZenonT(60)
<1>6. ASSUME NEW x \in Bindings, NEW s \in Specs, CreateBinding(x, s) PROVE live'[b].rec = live[b].rec
  <2>1. PICK new : new = NewBinding(s, live[x].rv + 1)
    OBVIOUS
  <2>2. live' = [live EXCEPT ![x] = new] /\ ~live[x].there
    BY <1>6, <2>1, Zenon DEF CreateBinding
  <2>3. new.rec = Unclaimed
    BY <2>1, SMTT(30) DEF NewBinding, AbsentBinding
  <2>. QED
    BY <1>1, <1>2, <2>2, <2>3, ZenonT(60)
<1>7. ASSUME NEW x \in Bindings, NEW s \in Specs, EditBinding(x, s) PROVE live'[b].rec = live[b].rec
  BY <1>1, <1>7, SMTT(30) DEF EditBinding, BindingStates
<1>8. ASSUME NEW x \in Bindings, DeleteBinding(x) PROVE live'[b].rec = live[b].rec
  <2>1. CASE live[x].fin
    BY <1>1, <1>8, <2>1, SMTT(30) DEF DeleteBinding, BindingStates
  <2>2. CASE ~live[x].fin
    <3>1. PICK new : new = AbsentBinding(live[x].rv + 1)
      OBVIOUS
    <3>2. live' = [live EXCEPT ![x] = new]
      BY <1>8, <2>2, <3>1, ZenonT(60) DEF DeleteBinding
    <3>3. new.rec = Unclaimed
      BY <3>1, SMTT(30) DEF AbsentBinding
    <3>. QED
      BY <1>1, <1>2, <2>2, <3>2, <3>3, ZenonT(60)
  <2>. QED
    BY <2>1, <2>2, SMTT(30)
<1>9. ASSUME NEW p \in Pools, ChangePool(p) PROVE live'[b].rec = live[b].rec
  BY <1>9 DEF ChangePool
<1>. QED
  BY <1>4, <1>5, <1>6, <1>7, <1>8, <1>9, ZenonT(60) DEF Users

=============================================================================
