------------------------- MODULE PublicationProofs -------------------------
(***************************************************************************)
(* That what the reconciler publishes, and what it leaves behind, agrees   *)
(* with the stored ownership records, for every value of the constants.    *)
(***************************************************************************)
EXTENDS BindingReconcilerProofs

-----------------------------------------------------------------------------
(* What the operator does next. *)

\* Memory o is inside a helper that reconcileConflictState may have entered.
Inside(o, records) ==
    /\ o.ret \in {"deletingPeer", "brokenPeer"} => o.members = {}
    /\ ~CacheLag /\ o.ret \in {"deletingPeer", "brokenPeer", "withdraw"} =>
          /\ ListHolds(o, records)
          /\ o.who = Main => Main \in o.members

\* That helper is at one of its steps, in the second loop with the members behind it swept.
AtHelper(o) ==
    /\ o.pc \in {"observe", "confirm", "clear", "delete"}
    /\ o.mode \in {"cleanup", "list"}
    /\ ~CacheLag /\ o.mode = "list" /\ o.ret = "withdraw" => Swept(o)

\* Steps at which the memory says nothing about the stored records.
Quiet(o) == o.pc \in {"idle", "removeFinalizer", "apply", "reserve", "create"}

\* At such a step the memory promises nothing, so it agrees with any records.
LEMMA QuietStep == ASSUME NEW o, NEW records, Quiet(o) PROVE Publishes(o, records)
BY DEF Publishes, Gathering, Evaluating, Sweeping, Quiet

-----------------------------------------------------------------------------
(* The copies in memory. *)

\* Another record in one copy leaves the progress of the loops alone (WithCopy).
LEMMA WithCopyProgress ==
    ASSUME op \in OpStates, NEW new \in BindingStates, NEW o, o = WithCopy(op, op.who, new)
    PROVE  /\ o.members = op.members /\ o.blocked = op.blocked /\ o.todo = op.todo
           /\ o.ret = op.ret /\ o.who = op.who
<1>1. CASE op.who = Main
  <2>1. o = [op EXCEPT !.main = new]
    BY <1>1 DEF WithCopy
  <2>. QED
    BY <2>1, Zenon DEF OpStates
<1>2. CASE op.who # Main
  <2>1. o = [op EXCEPT !.list = [op.list EXCEPT ![op.who] = new]]
    BY <1>2 DEF WithCopy
  <2>. QED
    BY <2>1, Zenon DEF OpStates
<1>. QED
  BY <1>1, <1>2, Zenon

\* Memory o lists what op lists, except for the copy that became new.
Relisted(o, new) ==
    /\ op.who = Main => o.list = op.list
    /\ op.who # Main => \A b \in Bindings : o.list[b] = IF b = op.who THEN new ELSE op.list[b]

-----------------------------------------------------------------------------
(* The steps, those inside the helpers first. *)

\* Every step preserves what the memory says about the records.
LEMMA NextPublishes == ReconcilerInvariant /\ PublicationInvariant /\ [Next]_vars => PublicationInvariant'
\* Inside a helper.
<1>InsideCall. ASSUME NEW o, NEW records, AtHelper(o), Inside(o, records) PROVE Publishes(o, records)
  BY <1>InsideCall, Zenon DEF Publishes, Gathering, Evaluating, Sweeping, Inside, AtHelper
\* Between the helpers.
<1>BetweenCalls.
      ASSUME NEW o, NEW records, o.pc \in {"evaluate", "renderPeer", "withdraw", "confirmAbsent"},
             o.pc \in {"evaluate", "renderPeer"} => o.members = {},
             ~CacheLag => ListHolds(o, records),
             ~CacheLag /\ o.pc = "confirmAbsent" => Swept(o)
      PROVE  Publishes(o, records)
  BY <1>BetweenCalls, Zenon DEF Publishes, Gathering, Evaluating, Sweeping
\* The listed copies and the progress of the loops are all that ListHolds looks at.
<1>HoldsOn.
      ASSUME NEW o, NEW o2, NEW records, ListHolds(o, records),
             o2.members = o.members, o2.blocked = o.blocked \/ o2.blocked # {}, o2.list = o.list,
             o2.todo = o.todo \/ o2.todo = o.todo \ {o.who}
      PROVE  ListHolds(o2, records)
  BY <1>HoldsOn, Zenon DEF ListHolds
\* The fields of the memory while the status is patched (Finish).
<1>FinishFields.
      ASSUME NEW o \in OpStates, NEW cond
      PROVE  /\ Finish(o, cond).pc = "status" /\ Finish(o, cond).want = cond
             /\ Finish(o, cond).key = o.key /\ Finish(o, cond).plan = o.plan
             /\ Finish(o, cond).members = {}
  BY <1>FinishFields DEF Finish, IdleOp
\* Reporting anything but success (Finish).
<1>FinishPublishes.
      ASSUME NEW o \in OpStates, NEW records, NEW cond, cond # "Ready"
      PROVE  Publishes(Finish(o, cond), records)
  <2>. USE <1>FinishPublishes
  <2>. DEFINE o2 == Finish(o, cond)
  <2>1. o2.pc = "status" /\ o2.want # "Ready" /\ o2.members = {}
    BY <1>FinishFields
  <2>. HIDE DEF o2
  <2>2. Publishes(o2, records)
    BY <2>1 DEF Publishes, Gathering, Evaluating, Sweeping
  <2>. QED
    BY <2>2 DEF o2
\* Going on with the next listed binding (NextPeer).
<1>NextPeerPublishes.
      ASSUME NEW o \in OpStates, NEW records, o.members = {}, ~CacheLag => ListHolds(o, records)
      PROVE  Publishes(NextPeer(o), records)
  <2>. USE <1>NextPeerPublishes
  <2>. DEFINE o2 == NextPeer(o)
  <2>1. o2 = [o EXCEPT !.pc = "evaluate", !.todo = o.todo \ {o.who}, !.seen = AbsentObject]
    BY DEF NextPeer
  <2>. HIDE DEF o2
  <2>2. /\ o2.pc = "evaluate" /\ o2.members = o.members /\ o2.blocked = o.blocked
        /\ o2.list = o.list /\ o2.todo = o.todo \ {o.who}
    BY <2>1, Zenon DEF OpStates
  <2>3. ~CacheLag => ListHolds(o2, records)
    BY <2>2, <1>HoldsOn, Zenon
  <2>4. Publishes(o2, records)
    BY <2>2, <2>3, <1>BetweenCalls
  <2>. QED
    BY <2>4 DEF o2
\* Returning from listManagedClusterSPIFFEIDs (Listed).
<1>ListedPublishes.
      ASSUME NEW o, Called(o), NEW records, NEW found \in BOOLEAN,
             found \/ Copy(o, o.who).rec = Unclaimed,
             Inside(o, records),
             ~CacheLag /\ o.ret = "withdraw" /\ ~found => Swept(o)
      PROVE  Publishes(Listed(o, found), records)
  <2>. USE <1>ListedPublishes
  <2>. DEFINE o2 == Listed(o, found)
  <2>0. /\ o \in OpStates
        /\ o.ret \in {"finalize", "stateError", "rename", "deletingPeer", "brokenPeer", "withdraw"}
    BY Zenon DEF Called, OpStates
  <2>1. CASE o.ret = "finalize" /\ found
    <3>1. o2 = IdleOp /\ Quiet(IdleOp)
      BY <2>1 DEF Listed, IdleOp, Quiet
    <3>. QED
      BY <3>1, QuietStep, Zenon
  <2>2. CASE o.ret \in {"finalize", "rename"} /\ ~found
    <3>1. o2 = [o EXCEPT !.pc = IF o.ret = "rename" THEN "apply" ELSE "removeFinalizer"]
      BY <2>2 DEF Listed
    <3>. HIDE DEF o2
    <3>2. Quiet(o2)
      BY <2>0, <3>1, Zenon DEF OpStates, Quiet
    <3>3. Publishes(o2, records)
      BY <3>2, QuietStep, Zenon
    <3>. QED
      BY <3>3 DEF o2
  <2>3. CASE o.ret = "stateError" \/ (o.ret \in {"rename", "withdraw"} /\ found)
    <3>1. \E cond \in {"StateError", "PendingReplacement", "PendingConflict"} : o2 = Finish(o, cond)
      BY <2>3 DEF Listed
    <3>. QED
      BY <2>0, <3>1, <1>FinishPublishes, Zenon
  <2>4. CASE o.ret = "deletingPeer" /\ found
    <3>1. o2 = [o EXCEPT !.pc = "renderPeer"]
      BY <2>4 DEF Listed
    <3>2. o.members = {} /\ (~CacheLag => ListHolds(o, records))
      BY <2>4 DEF Inside
    <3>. HIDE DEF o2
    <3>3. /\ o2.pc = "renderPeer" /\ o2.members = o.members /\ o2.blocked = o.blocked
          /\ o2.list = o.list /\ o2.todo = o.todo
      BY <2>0, <3>1, Zenon DEF OpStates
    <3>4. ~CacheLag => ListHolds(o2, records)
      BY <3>2, <3>3, <1>HoldsOn, Zenon
    <3>5. Publishes(o2, records)
      BY <3>2, <3>3, <3>4, <1>BetweenCalls
    <3>. QED
      BY <3>5 DEF o2
  <2>5. CASE o.ret = "deletingPeer" /\ ~found
    <3>1. o.members = {} /\ (~CacheLag => ListHolds(o, records))
      BY <2>5 DEF Inside
    <3>. QED
      BY <2>0, <2>5, <3>1, <1>NextPeerPublishes DEF Listed
  <2>6. CASE o.ret = "brokenPeer"
    <3>. DEFINE o1 == [o EXCEPT !.blocked = IF found THEN @ \cup {o.who} ELSE @]
    <3>1. o2 = NextPeer(o1)
      BY <2>6 DEF Listed
    <3>2. o.who \in Bindings
      BY <2>6 DEF Called
    <3>3. o1 \in OpStates
      BY <2>0, <3>2, ZenonT(90) DEF OpStates
    <3>4. /\ o1.members = o.members /\ o1.list = o.list /\ o1.todo = o.todo
          /\ o1.blocked = IF found THEN o.blocked \cup {o.who} ELSE o.blocked
      BY <2>0, Zenon DEF OpStates
    <3>. HIDE DEF o1, o2
    <3>5. o1.blocked = o.blocked \/ o1.blocked # {}
      BY <3>4
    <3>6. o1.members = {} /\ (~CacheLag => ListHolds(o1, records))
      BY <2>6, <3>4, <3>5, <1>HoldsOn, Zenon DEF Inside
    <3>7. Publishes(o2, records)
      BY <3>1, <3>3, <3>6, <1>NextPeerPublishes, SMTT(30)
    <3>. QED
      BY <3>7 DEF o2
  <2>7. CASE o.ret = "withdraw" /\ ~found
    <3>1. o2 = [o EXCEPT !.pc = "confirmAbsent", !.todo = o.todo \ {o.who}]
      BY <2>7 DEF Listed
    <3>. HIDE DEF o2
    <3>2. /\ o2.pc = "confirmAbsent" /\ o2.members = o.members /\ o2.blocked = o.blocked
          /\ o2.list = o.list /\ o2.todo = o.todo \ {o.who}
      BY <2>0, <3>1, Zenon DEF OpStates
    <3>3. ~CacheLag => ListHolds(o, records) /\ Swept(o) /\ (o.who = Main => Main \in o.members)
      BY <2>7 DEF Inside
    <3>4. ~CacheLag => ListHolds(o2, records)
      BY <3>2, <3>3, <1>HoldsOn, Zenon
    <3>5. ~CacheLag => Swept(o2)
      <4>1. o.who # Main => o.list[o.who].rec = Unclaimed
        BY <2>7 DEF Copy
      <4>. QED
        BY <3>2, <3>3, <4>1, Zenon DEF Swept
    <3>6. Publishes(o2, records)
      BY <3>2, <3>4, <3>5, <1>BetweenCalls
    <3>. QED
      BY <3>6 DEF o2
  <2>. QED
    BY <2>0, <2>1, <2>2, <2>3, <2>4, <2>5, <2>6, <2>7, SMTT(30)
\* Entering listManagedClusterSPIFFEIDs (ListManaged).
<1>ListManagedPublishes.
      ASSUME NEW o \in OpStates, NEW records, NEW x \in Bindings \cup {Main}, NEW ret, NEW call,
             call = [o EXCEPT !.pc = "observe", !.who = x, !.mode = "list", !.ret = ret],
             Called(call), Inside(call, records),
             ~CacheLag /\ ret = "withdraw" => Swept(call)
      PROVE  Publishes(ListManaged(o, x, ret), records)
  <2>. USE <1>ListManagedPublishes
  <2>1. /\ call.pc = "observe" /\ call.who = x /\ call.mode = "list" /\ call.ret = ret
        /\ call.main = o.main /\ call.list = o.list
    BY Zenon DEF OpStates
  <2>2. Copy(call, call.who) = Copy(o, x)
    BY <2>1 DEF Copy
  <2>3. Copy(o, x).rec \in Records
    BY Zenon DEF Copy, OpStates, BindingStates
  <2>4. ListManaged(o, x, ret)
        = IF Copy(o, x).rec.kind = "unclaimed" THEN Listed(call, FALSE) ELSE call
    BY DEF ListManaged
  <2>5. CASE Copy(o, x).rec.kind = "unclaimed"
    <3>1. Copy(call, call.who).rec = Unclaimed
      BY <2>2, <2>3, <2>5, Zenon DEF Records, WellFormed
    <3>2. Publishes(Listed(call, FALSE), records)
      BY <2>1, <3>1, <1>ListedPublishes, Zenon
    <3>. QED
      BY <2>4, <2>5, <3>2, Zenon
  <2>6. CASE Copy(o, x).rec.kind # "unclaimed"
    <3>1. AtHelper(call)
      BY <2>1, Zenon DEF AtHelper
    <3>2. Publishes(call, records)
      BY <3>1, <1>InsideCall, Zenon
    <3>. QED
      BY <2>4, <2>6, <3>2, Zenon
  <2>. QED
    BY <2>5, <2>6
\* Returning from cleanupManagedClusterSPIFFEIDs (CleanedUp).
<1>CleanedUpPublishes.
      ASSUME NEW o, Called(o), NEW records, Inside(o, records)
      PROVE  Publishes(CleanedUp(o), records)
  <2>. USE <1>CleanedUpPublishes
  <2>1. o \in OpStates /\ o.who \in Bindings \cup {Main}
    BY Zenon DEF Called, OpStates
  <2>2. CASE o.ret = "withdraw"
    <3>. DEFINE o2 == [o EXCEPT !.pc = "withdraw", !.todo = o.todo \ {o.who}]
    <3>1. CleanedUp(o) = o2
      BY <2>2 DEF CleanedUp
    <3>2. /\ o2.pc = "withdraw" /\ o2.members = o.members /\ o2.blocked = o.blocked
          /\ o2.list = o.list /\ o2.todo = o.todo \ {o.who}
      BY <2>1, Zenon DEF OpStates
    <3>. HIDE DEF o2
    <3>3. ~CacheLag => ListHolds(o2, records)
      BY <2>2, <3>2, <1>HoldsOn, Zenon DEF Inside
    <3>. QED
      BY <3>1, <3>2, <3>3, <1>BetweenCalls, SMTT(30)
  <2>3. CASE o.ret # "withdraw"
    <3>1. CleanedUp(o) = ListManaged(o, o.who, o.ret)
      BY <2>3 DEF CleanedUp
    <3>2. PICK call : call = [o EXCEPT !.pc = "observe", !.who = o.who, !.mode = "list", !.ret = o.ret]
      OBVIOUS
    <3>3. call \in OpStates
      BY <2>1, <3>2, ZenonT(90) DEF OpStates, Steps
    <3>4. /\ call.who = o.who /\ call.ret = o.ret /\ call.members = o.members
          /\ call.blocked = o.blocked /\ call.list = o.list /\ call.todo = o.todo /\ call.main = o.main
      BY <2>1, <3>2, Zenon DEF OpStates
    <3>5. call.key = o.key /\ call.plan = o.plan
      BY <2>1, <3>2, Zenon DEF OpStates
    <3>6. Called(call)
      BY <3>3, <3>4, <3>5, Zenon DEF Called
    <3>7. Inside(call, records)
      BY <3>4, <1>HoldsOn, Zenon DEF Inside
    <3>. QED
      <4>1. PICK x, ret : x = o.who /\ ret = o.ret
        OBVIOUS
      <4>2. call = [o EXCEPT !.pc = "observe", !.who = x, !.mode = "list", !.ret = ret]
        BY <3>2, <4>1
      <4>3. Publishes(ListManaged(o, x, ret), records)
        BY <2>1, <2>3, <3>6, <3>7, <4>1, <4>2, <1>ListManagedPublishes, ZenonT(60)
      <4>. QED
        BY <3>1, <4>1, <4>3
  <2>. QED
    BY <2>2, <2>3
\* Entering cleanupManagedClusterSPIFFEIDs (CleanUp).
<1>CleanUpPublishes.
      ASSUME NEW o \in OpStates, NEW records, NEW x \in Bindings \cup {Main}, NEW ret, NEW call,
             call = [o EXCEPT !.pc = "observe", !.who = x, !.mode = "cleanup", !.ret = ret],
             Called(call), Inside(call, records)
      PROVE  Publishes(CleanUp(o, x, ret), records)
  <2>. USE <1>CleanUpPublishes
  <2>1. call.pc = "observe" /\ call.mode = "cleanup"
    BY Zenon DEF OpStates
  <2>2. CleanUp(o, x, ret) = IF Copy(o, x).rec.kind = "unclaimed" THEN CleanedUp(call) ELSE call
    BY DEF CleanUp
  <2>3. Publishes(CleanedUp(call), records)
    BY <1>CleanedUpPublishes, Zenon
  <2>4. Publishes(call, records)
    <3>1. AtHelper(call)
      BY <2>1 DEF AtHelper
    <3>. QED
      BY <3>1, <1>InsideCall, Zenon
  <2>. QED
    BY <2>2, <2>3, <2>4, Zenon
\* Going on once the record agrees with the observation (Settled).
<1>SettledPublishes.
      ASSUME NEW o \in OpStates, NEW records, NEW found \in BOOLEAN, o.mode # "",
             o.mode \in {"cleanup", "list"} => Called(o) /\ Inside(o, records),
             ~CacheLag /\ o.mode = "list" /\ o.ret = "withdraw" /\ ~found => Swept(o),
             o.mode = "list" => found \/ Copy(o, o.who).rec = Unclaimed,
             o.mode = "apply" /\ found => records[o.key] = o.main.rec,
             o.mode = "created" => records[o.key].kind = "confirmed" /\ records[o.key].name = o.plan.name
      PROVE  Publishes(Settled(o, found), records)
  <2>. USE <1>SettledPublishes
  <2>. DEFINE o2 == Settled(o, found)
  <2>0. o.mode \in {"cleanup", "list", "apply", "created"}
    BY Zenon DEF OpStates
  <2>1. CASE o.mode = "cleanup" /\ found
    <3>1. o2 = [o EXCEPT !.pc = "delete"]
      BY <2>1 DEF Settled
    <3>. HIDE DEF o2
    <3>2. /\ o2.pc = "delete" /\ o2.who = o.who /\ o2.mode = o.mode /\ o2.ret = o.ret
          /\ o2.members = o.members /\ o2.blocked = o.blocked /\ o2.list = o.list /\ o2.todo = o.todo
      BY <3>1, Zenon DEF OpStates
    <3>3. Inside(o2, records)
      BY <2>1, <3>2, <1>HoldsOn, Zenon DEF Inside
    <3>4. Publishes(o2, records)
      <4>1. AtHelper(o2)
        BY <2>1, <3>2 DEF AtHelper
      <4>. QED
        BY <3>3, <4>1, <1>InsideCall, Zenon
    <3>. QED
      BY <3>4, ZenonT(60) DEF o2
  <2>2. CASE o.mode = "cleanup" /\ ~found
    BY <2>2, <1>CleanedUpPublishes DEF Settled
  <2>3. CASE o.mode = "list"
    <3>1. Settled(o, found) = Listed(o, found)
      BY <2>3, SMTT(30) DEF Settled
    <3>. QED
      BY <2>3, <3>1, <1>ListedPublishes, Zenon
  <2>4. CASE o.mode = "apply" /\ found
    <3>1. o2 = [o EXCEPT !.pc = "update"]
      BY <2>4 DEF Settled
    <3>. HIDE DEF o2
    <3>2. o2.pc = "update" /\ o2.key = o.key /\ o2.main = o.main
      BY <3>1, Zenon DEF OpStates
    <3>3. Publishes(o2, records)
      BY <2>4, <3>2, SMTT(30) DEF Publishes, Gathering, Evaluating, Sweeping
    <3>. QED
      BY <3>3, ZenonT(60) DEF o2
  <2>5. CASE o.mode = "apply" /\ ~found /\ o.seen.there
    <3>1. o2 = Finish(o, "ApplyFailed")
      BY <2>5, SMTT(30) DEF Settled, ApplyFailed
    <3>. QED
      BY <3>1, <1>FinishPublishes, ZenonT(60)
  <2>6. CASE o.mode = "apply" /\ ~found /\ ~o.seen.there
    <3>1. o2 = [o EXCEPT !.pc = "reserve"]
      BY <2>6 DEF Settled
    <3>. HIDE DEF o2
    <3>2. Quiet(o2)
      BY <3>1, Zenon DEF OpStates, Quiet
    <3>3. Publishes(o2, records)
      BY <3>2, QuietStep, ZenonT(60)
    <3>. QED
      BY <3>3, ZenonT(60) DEF o2
  <2>7. CASE o.mode = "created"
    <3>1. o2 = Finish(o, "Ready")
      BY <2>7 DEF Settled
    <3>. HIDE DEF o2
    <3>2. o2.pc = "status" /\ o2.want = "Ready" /\ o2.key = o.key /\ o2.plan = o.plan
      BY <3>1, Zenon DEF Finish, IdleOp
    <3>3. Publishes(o2, records)
      BY <2>7, <3>2, SMTT(30) DEF Publishes, Gathering, Evaluating, Sweeping
    <3>. QED
      BY <3>3, ZenonT(60) DEF o2
  <2>. QED
    BY <2>0, <2>1, <2>2, <2>3, <2>4, <2>5, <2>6, <2>7, ZenonT(60)
\* The records are those of the bindings, which did not change.
<1>SameRecords. ASSUME live' = live PROVE StoredRecords' = StoredRecords
  BY <1>SameRecords DEF StoredRecords
\* A step that only changes the memory.
<1>LocalPublishes. ASSUME live' = live, Publishes(op', StoredRecords) PROVE PublicationInvariant'
  BY <1>LocalPublishes, <1>SameRecords DEF PublicationInvariant
\* Cleaning up on behalf of anyone but reconcileConflictState (CleanUp).
<1>CleanUpApart.
      ASSUME NEW o \in OpStates, NEW records, NEW ret \in {"finalize", "stateError", "rename"},
             o.key \in Bindings, o.main.there, o.main.fin, ret = "rename" => o.plan \in Plans
      PROVE  Publishes(CleanUp(o, Main, ret), records)
  <2>. USE <1>CleanUpApart
  <2>1. PICK call : call = [o EXCEPT !.pc = "observe", !.who = Main, !.mode = "cleanup", !.ret = ret]
    OBVIOUS
  <2>2. Called(call)
    BY <2>1, CallOK, Zenon
  <2>3. call.ret = ret
    BY <2>1, Zenon DEF OpStates
  <2>4. Inside(call, records)
    BY <2>3 DEF Inside
  <2>. QED
    BY <2>1, <2>2, <2>4, <1>CleanUpPublishes, Zenon
\* Withdrawing the output of a member (CleanUp).
<1>CleanUpMember.
      ASSUME NEW o \in OpStates, NEW records, NEW m \in Bindings \cup {Main},
             o.key \in Bindings, o.main.there, o.main.fin, o.plan \in Plans,
             ~CacheLag => ListHolds(o, records) /\ (m = Main => Main \in o.members)
      PROVE  Publishes(CleanUp(o, m, "withdraw"), records)
  <2>. USE <1>CleanUpMember
  <2>1. PICK call : call = [o EXCEPT !.pc = "observe", !.who = m, !.mode = "cleanup", !.ret = "withdraw"]
    OBVIOUS
  <2>2. Called(call)
    BY <2>1, CallOK, Zenon
  <2>3. /\ call.who = m /\ call.ret = "withdraw" /\ call.members = o.members
        /\ call.blocked = o.blocked /\ call.list = o.list /\ call.todo = o.todo
    BY <2>1, Zenon DEF OpStates
  <2>4. Inside(call, records)
    BY <2>3, <1>HoldsOn, Zenon DEF Inside
  <2>. QED
    BY <2>1, <2>2, <2>4, <1>CleanUpPublishes, Zenon
\* Listing on behalf of reconcileConflictState (ListManaged).
<1>ListMember.
      ASSUME NEW o \in OpStates, NEW records, NEW x \in Bindings \cup {Main},
             NEW ret \in {"deletingPeer", "brokenPeer", "withdraw"},
             o.key \in Bindings, o.main.there, o.main.fin, o.plan \in Plans,
             ret # "withdraw" => x \in Bindings /\ o.members = {},
             ~CacheLag => ListHolds(o, records) /\ (x = Main => Main \in o.members),
             ~CacheLag /\ ret = "withdraw" => Swept(o)
      PROVE  Publishes(ListManaged(o, x, ret), records)
  <2>. USE <1>ListMember
  <2>1. PICK call : call = [o EXCEPT !.pc = "observe", !.who = x, !.mode = "list", !.ret = ret]
    OBVIOUS
  <2>2. Called(call)
    BY <2>1, CallOK, Zenon
  <2>3. /\ call.who = x /\ call.ret = ret /\ call.members = o.members
        /\ call.blocked = o.blocked /\ call.list = o.list /\ call.todo = o.todo
    BY <2>1, Zenon DEF OpStates
  <2>4. Inside(call, records)
    BY <2>3, <1>HoldsOn, Zenon DEF Inside
  <2>5. ~CacheLag /\ ret = "withdraw" => Swept(call)
    BY <2>3, Zenon DEF Swept
  <2>. QED
    BY <2>1, <2>2, <2>4, <2>5, <1>ListManagedPublishes, Zenon
\* Reconcile starts (StartReconcile).
<1>StartReconcilePublishes.
      ASSUME ReconcilerInvariant, NEW b \in Bindings, StartReconcile(b) PROVE PublicationInvariant'
  <2>. USE <1>StartReconcilePublishes
  <2>1. PICK o : o = Fetched(b, Cached(b))
    OBVIOUS
  <2>2. Cached(b) \in BindingStates
    BY DEF ReconcilerInvariant, TypeOK, Cached
  <2>3. o \in OpStates /\ o.key = b /\ o.main = Cached(b)
    BY <2>1, <2>2, FetchedFields
  <2>4. o.members = {}
    BY <2>1, Zenon DEF Fetched, IdleOp
  <2>5. op' = CASE o.main.deleting -> CleanUp(o, Main, "finalize")
                [] ~o.main.deleting /\ o.main.fin -> [o EXCEPT !.pc = "render"]
                [] OTHER -> [o EXCEPT !.pc = "addFinalizer"]
    BY <2>1 DEF StartReconcile, Fetched
  <2>6. o.main.there /\ (o.main.deleting => o.main.fin)
    BY <2>3 DEF StartReconcile
  <2>7. CASE o.main.deleting
    <3>1. op' = CleanUp(o, Main, "finalize")
      BY <2>5, <2>7, Zenon
    <3>2. Publishes(op', StoredRecords)
      BY <2>3, <2>6, <2>7, <3>1, <1>CleanUpApart, ZenonT(60)
    <3>. QED
      BY <3>2, <1>LocalPublishes DEF StartReconcile
  <2>8. CASE ~o.main.deleting
    <3>1. PICK pc \in {"render", "addFinalizer"} : op' = [o EXCEPT !.pc = pc]
      BY <2>5, <2>8, Zenon
    <3>2. op'.pc = pc /\ op'.members = {}
      BY <2>3, <2>4, <3>1, ZenonT(60) DEF OpStates
    <3>3. Publishes(op', StoredRecords)
      BY <3>2 DEF Publishes, Gathering, Evaluating, Sweeping
    <3>. QED
      BY <3>3, <1>LocalPublishes DEF StartReconcile
  <2>. QED
    BY <2>7, <2>8
\* What the invariant says before the members of a conflict are known.
<1>GatheringFacts.
      ASSUME PublicationInvariant, op.pc \in {"addFinalizer", "render", "list", "evaluate", "renderPeer"}
      PROVE  op.members = {}
  BY <1>GatheringFacts DEF PublicationInvariant, Publishes, Gathering
\* What the invariant says between the helpers of reconcileConflictState.
<1>BetweenFacts.
      ASSUME PublicationInvariant, op.pc \in {"evaluate", "renderPeer", "withdraw", "confirmAbsent"}
      PROVE  /\ ~CacheLag => ListHolds(op, StoredRecords)
             /\ ~CacheLag /\ op.pc = "confirmAbsent" => Swept(op)
  BY <1>BetweenFacts, Zenon DEF PublicationInvariant, Publishes, Evaluating, Sweeping
\* Adding the finalizer (AddFinalizer).
<1>AddFinalizerPublishes.
      ASSUME ReconcilerInvariant, PublicationInvariant, NEW r, AddFinalizer(r) PROVE PublicationInvariant'
  <2>. USE <1>AddFinalizerPublishes
  <2>1. op \in OpStates /\ op.members = {}
    BY OpFacts, <1>GatheringFacts DEF AddFinalizer
  <2>2. PICK new : op' = [op EXCEPT !.pc = "render", !.main = new] \/ op' = IdleOp
    BY Zenon DEF AddFinalizer
  <2>3. (op'.pc = "render" /\ op'.members = {}) \/ op'.pc = "idle"
    <3>1. CASE op' = [op EXCEPT !.pc = "render", !.main = new]
      BY <2>1, <3>1, Zenon DEF OpStates
    <3>2. CASE op' = IdleOp
      BY <3>2, Zenon DEF IdleOp
    <3>. QED
      BY <2>2, <3>1, <3>2
  <2>. QED
    BY <2>3, ZenonT(60) DEF PublicationInvariant, Publishes, Gathering, Evaluating, Sweeping
\* Rendering the binding itself (RenderOwn).
<1>RenderOwnPublishes.
      ASSUME ReconcilerInvariant, PublicationInvariant, NEW r, RenderOwn(r) PROVE PublicationInvariant'
  <2>. USE <1>RenderOwnPublishes
  <2>1. op \in OpStates /\ op.key \in Bindings /\ op.main.there /\ op.main.fin /\ op.members = {}
    BY OpFacts, <1>GatheringFacts DEF RenderOwn
  <2>2. PICK o : o = op
    OBVIOUS
  <2>3. CASE op' = IdleOp
    <3>1. Quiet(op')
      BY <2>3, Zenon DEF IdleOp, Quiet
    <3>2. Publishes(op', StoredRecords')
      BY <3>1, QuietStep, ZenonT(60)
    <3>. QED
      BY <3>2 DEF PublicationInvariant
  <2>4. ASSUME NEW plan, op' = [op EXCEPT !.pc = "list", !.plan = plan] PROVE PublicationInvariant'
    <3>1. op'.pc = "list" /\ op'.members = {}
      BY <2>1, <2>4, ZenonT(60) DEF OpStates
    <3>. QED
      BY <3>1, ZenonT(60) DEF PublicationInvariant, Publishes, Gathering, Evaluating, Sweeping
  <2>5. CASE op' = CleanUp(op, Main, "stateError")
    <3>1. Publishes(CleanUp(o, Main, "stateError"), StoredRecords)
      BY <2>1, <2>2, <1>CleanUpApart, Zenon
    <3>. QED
      BY <2>2, <2>5, <3>1, <1>LocalPublishes, ZenonT(60) DEF RenderOwn
  <2>. QED
    BY <2>3, <2>4, <2>5, ZenonT(60) DEF RenderOwn
\* Listing the bindings of the namespace (ListBindings).
<1>ListBindingsPublishes. ASSUME ReconcilerInvariant, PublicationInvariant, ListBindings PROVE PublicationInvariant'
  <2>. USE <1>ListBindingsPublishes
  <2>. DEFINE list == [b \in Bindings |-> Cached(b)]
              todo == {b \in Bindings : Cached(b).there}
  <2>1. op \in OpStates /\ op.members = {}
    BY OpFacts, <1>GatheringFacts DEF ListBindings
  <2>2. op' = [op EXCEPT !.pc = "evaluate", !.list = list, !.todo = todo]
    BY DEF ListBindings
  <2>3. Main \notin todo /\ \A b \in Bindings : list[b] = Cached(b)
    BY ConstantsAssumption, Zenon
  <2>. HIDE DEF list, todo
  <2>4. op'.pc = "evaluate" /\ op'.members = {} /\ op'.list = list /\ op'.todo = todo
    BY <2>1, <2>2, Zenon DEF OpStates
  <2>5. ~CacheLag => \A b \in Bindings : list[b].rec = StoredRecords[b]
    BY <2>3 DEF Cached, StoredRecords
  <2>6. ~CacheLag => ListHolds(op', StoredRecords)
    BY <2>3, <2>4, <2>5, Zenon DEF ListHolds
  <2>7. Publishes(op', StoredRecords)
    BY <2>4, <2>6, <1>BetweenCalls, SMTT(30)
  <2>. QED
    BY <2>7, <1>LocalPublishes DEF ListBindings
\* Looking up the output of a binding that is being deleted (LookUpDeleting).
<1>LookUpDeletingPublishes.
      ASSUME ReconcilerInvariant, PublicationInvariant, NEW peer \in Bindings, LookUpDeleting(peer)
      PROVE  PublicationInvariant'
  <2>. USE <1>LookUpDeletingPublishes
  <2>1. /\ op \in OpStates /\ op.key \in Bindings /\ op.main.there /\ op.main.fin
        /\ op.plan \in Plans
    BY EvaluationFacts, ZenonT(60) DEF LookUpDeleting
  <2>2. op.members = {} /\ (~CacheLag => ListHolds(op, StoredRecords))
    BY <1>GatheringFacts, <1>BetweenFacts DEF LookUpDeleting
  <2>3. peer # Main
    BY ConstantsAssumption, ZenonT(60)
  <2>4. PICK o : o = op
    OBVIOUS
  <2>5. Publishes(ListManaged(o, peer, "deletingPeer"), StoredRecords)
    BY <2>1, <2>2, <2>3, <2>4, <1>ListMember, ZenonT(60)
  <2>. QED
    BY <2>4, <2>5, <1>LocalPublishes DEF LookUpDeleting
\* Rendering a listed binding (RenderPeer).
<1>RenderPeerPublishes.
      ASSUME ReconcilerInvariant, PublicationInvariant, NEW peer \in Bindings, NEW r, RenderPeer(peer, r)
      PROVE  PublicationInvariant'
  <2>. USE <1>RenderPeerPublishes
  <2>1. /\ op \in OpStates /\ op.key \in Bindings /\ op.main.there /\ op.main.fin
        /\ op.plan \in Plans
    BY EvaluationFacts, ZenonT(60) DEF RenderPeer
  <2>2. op.members = {} /\ (~CacheLag => ListHolds(op, StoredRecords))
    BY <1>GatheringFacts, <1>BetweenFacts, ZenonT(60) DEF RenderPeer
  <2>3. live' = live
    BY ZenonT(60) DEF RenderPeer
  <2>4. CASE op' = ApplyFailed(op)
    BY <2>1, <2>3, <2>4, <1>FinishPublishes, <1>LocalPublishes, SMTT(30) DEF ApplyFailed
  <2>5. ASSUME NEW plan \in Plans,
               op' = NextPeer([[op EXCEPT !.who = peer] EXCEPT !.plans = [@ EXCEPT ![peer] = plan]])
        PROVE  PublicationInvariant'
    <3>. DEFINE o == [[op EXCEPT !.who = peer] EXCEPT !.plans = [@ EXCEPT ![peer] = plan]]
    <3>1. o = [op EXCEPT !.who = peer, !.plans = [op.plans EXCEPT ![peer] = plan]]
      BY <2>1, Zenon DEF OpStates
    <3>2. op' = NextPeer(o)
      BY <2>5
    <3>. HIDE DEF o
    <3>3. o \in OpStates
      BY <2>1, <3>1, Zenon DEF OpStates
    <3>4. o.members = op.members /\ o.blocked = op.blocked /\ o.list = op.list /\ o.todo = op.todo
      BY <2>1, <3>1, Zenon DEF OpStates
    <3>5. ~CacheLag => ListHolds(o, StoredRecords)
      BY <2>2, <3>4, Zenon DEF ListHolds
    <3>6. Publishes(op', StoredRecords)
      BY <2>2, <3>2, <3>3, <3>4, <3>5, <1>NextPeerPublishes, ZenonT(60)
    <3>. QED
      BY <2>3, <3>6, <1>LocalPublishes, SMTT(30)
  <2>6. CASE op' = ListManaged(op, peer, "brokenPeer")
    <3>1. PICK o : o = op
      OBVIOUS
    <3>2. peer # Main
      BY ConstantsAssumption, ZenonT(60)
    <3>3. Publishes(ListManaged(o, peer, "brokenPeer"), StoredRecords)
      BY <2>1, <2>2, <3>1, <3>2, <1>ListMember, ZenonT(60)
    <3>. QED
      BY <2>3, <2>6, <3>1, <3>3, <1>LocalPublishes, SMTT(30)
  <2>. QED
    BY <2>4, <2>5, <2>6, ZenonT(60) DEF RenderPeer
\* What the evaluation adds up to (Members).
<1>MembersFacts. ASSUME op \in OpStates, op.key \in Bindings, Main \in Members(op) PROVE op.blocked # {}
  <2>. USE <1>MembersFacts
  <2>1. op.blocked \subseteq Bindings
    BY Zenon DEF OpStates
  <2>2. Conflicts(op) \subseteq Bindings
    BY DEF Conflicts, ConflictPeers
  <2>. QED
    BY <2>1, <2>2, ConstantsAssumption, ZenonT(60) DEF Members
\* Deciding what the evaluation calls for (DecideConflict).
<1>DecideConflictPublishes.
      ASSUME ReconcilerInvariant, PublicationInvariant, DecideConflict PROVE PublicationInvariant'
  <2>. USE <1>DecideConflictPublishes
  <2>. DEFINE members == Members(op)
              free == Planned(op.key, op.main, op.plan)
  <2>1. /\ op \in OpStates /\ op.key \in Bindings /\ op.main.there /\ op.main.fin
        /\ op.plan \in Plans /\ op.main \in BindingStates
    BY EvaluationFacts, OpFacts, Zenon DEF DecideConflict
  <2>2. op.members = {} /\ (~CacheLag => ListHolds(op, StoredRecords))
    BY <1>GatheringFacts, <1>BetweenFacts, ZenonT(60) DEF DecideConflict
  <2>3. op' = IF members # {}
              THEN [op EXCEPT !.pc = "withdraw", !.members = members, !.todo = members]
              ELSE IF op.main.rec.name \in {"", op.plan.name}
                   THEN [free EXCEPT !.pc = "apply"]
                   ELSE CleanUp(free, Main, "rename")
    BY Zenon DEF DecideConflict, Planned
  <2>4. free = Planned(op.key, op.main, op.plan)
    OBVIOUS
  <2>5. Main \in members => op.blocked # {}
    BY <2>1, <1>MembersFacts, Zenon
  <2>. HIDE DEF members, free
  <2>6. free \in OpStates /\ free.key = op.key /\ free.main = op.main /\ free.plan = op.plan
    BY <2>1, <2>4, PlannedFields, SMTT(30)
  <2>7. CASE members # {}
    <3>1. op' = [op EXCEPT !.pc = "withdraw", !.members = members, !.todo = members]
      BY <2>3, <2>7, Zenon
    <3>2. /\ op'.pc = "withdraw" /\ op'.members = members /\ op'.todo = members
          /\ op'.list = op.list /\ op'.blocked = op.blocked
      BY <2>1, <3>1, Zenon DEF OpStates
    <3>3. ~CacheLag => ListHolds(op', StoredRecords)
      BY <2>2, <2>5, <3>2, Zenon DEF ListHolds
    <3>4. Publishes(op', StoredRecords)
      BY <3>2, <3>3, <1>BetweenCalls, SMTT(30)
    <3>. QED
      BY <3>4, <1>LocalPublishes, ZenonT(60) DEF DecideConflict
  <2>8. CASE op' = [free EXCEPT !.pc = "apply"]
    <3>1. Quiet(op')
      BY <2>6, <2>8, ZenonT(60) DEF OpStates, Quiet
    <3>2. Publishes(op', StoredRecords')
      BY <3>1, QuietStep, ZenonT(60)
    <3>. QED
      BY <3>2 DEF PublicationInvariant
  <2>9. CASE op' = CleanUp(free, Main, "rename")
    <3>1. Publishes(op', StoredRecords)
      BY <2>1, <2>6, <2>9, <1>CleanUpApart, ZenonT(60)
    <3>. QED
      BY <3>1, <1>LocalPublishes, ZenonT(60) DEF DecideConflict
  <2>. QED
    BY <2>3, <2>7, <2>8, <2>9, Zenon
\* A copy still to be withdrawn that is the fetched one is a member.
<1>TodoFacts.
      ASSUME PublicationInvariant, ~CacheLag, op.pc \in {"withdraw", "confirmAbsent"}, Main \in op.todo
      PROVE  Main \in op.members
  BY <1>TodoFacts, <1>BetweenFacts DEF ListHolds
\* Withdrawing the output of a member (WithdrawMember).
<1>WithdrawMemberPublishes.
      ASSUME ReconcilerInvariant, PublicationInvariant, NEW m \in Bindings \cup {Main}, WithdrawMember(m)
      PROVE  PublicationInvariant'
  <2>. USE <1>WithdrawMemberPublishes
  <2>1. /\ op \in OpStates /\ op.key \in Bindings /\ op.main.there /\ op.main.fin
        /\ op.plan \in Plans
    BY EvaluationFacts DEF WithdrawMember
  <2>2. ~CacheLag => ListHolds(op, StoredRecords) /\ (m = Main => Main \in op.members)
    BY <1>BetweenFacts, <1>TodoFacts DEF WithdrawMember
  <2>3. PICK o : o = op
    OBVIOUS
  <2>4. Publishes(CleanUp(o, m, "withdraw"), StoredRecords)
    BY <2>1, <2>2, <2>3, <1>CleanUpMember, Zenon
  <2>. QED
    BY <2>3, <2>4, <1>LocalPublishes DEF WithdrawMember
\* Going from the first loop to the second one (WithdrawnAll).
<1>WithdrawnAllPublishes. ASSUME ReconcilerInvariant, PublicationInvariant, WithdrawnAll PROVE PublicationInvariant'
  <2>. USE <1>WithdrawnAllPublishes
  <2>1. op \in OpStates /\ (~CacheLag => ListHolds(op, StoredRecords))
    BY OpFacts, <1>BetweenFacts DEF WithdrawnAll
  <2>2. op' = [op EXCEPT !.pc = "confirmAbsent", !.todo = op.members]
    BY DEF WithdrawnAll
  <2>3. /\ op'.pc = "confirmAbsent" /\ op'.members = op.members /\ op'.todo = op.members
        /\ op'.list = op.list /\ op'.blocked = op.blocked
    BY <2>1, <2>2, Zenon DEF OpStates
  <2>4. ~CacheLag => ListHolds(op', StoredRecords)
    BY <2>1, <2>3, Zenon DEF ListHolds
  <2>5. Swept(op')
    BY <2>3 DEF Swept
  <2>6. Publishes(op', StoredRecords)
    BY <2>3, <2>4, <2>5, <1>BetweenCalls, SMTT(30)
  <2>. QED
    BY <2>6, <1>LocalPublishes DEF WithdrawnAll
\* Confirming that the output of a member is gone (ConfirmAbsent).
<1>ConfirmAbsentPublishes.
      ASSUME ReconcilerInvariant, PublicationInvariant, NEW m \in Bindings \cup {Main}, ConfirmAbsent(m)
      PROVE  PublicationInvariant'
  <2>. USE <1>ConfirmAbsentPublishes
  <2>1. /\ op \in OpStates /\ op.key \in Bindings /\ op.main.there /\ op.main.fin
        /\ op.plan \in Plans
    BY EvaluationFacts DEF ConfirmAbsent
  <2>2. ~CacheLag => /\ ListHolds(op, StoredRecords) /\ Swept(op)
                     /\ m = Main => Main \in op.members
    BY <1>BetweenFacts, <1>TodoFacts DEF ConfirmAbsent
  <2>3. PICK o : o = op
    OBVIOUS
  <2>4. Publishes(ListManaged(o, m, "withdraw"), StoredRecords)
    BY <2>1, <2>2, <2>3, <1>ListMember, Zenon
  <2>. QED
    BY <2>3, <2>4, <1>LocalPublishes, SMTT(30) DEF ConfirmAbsent
\* Settling the conflict (SettleConflict).
<1>SettleConflictPublishes.
      ASSUME ReconcilerInvariant, PublicationInvariant, SettleConflict PROVE PublicationInvariant'
  <2>. USE <1>SettleConflictPublishes
  <2>1. op \in OpStates /\ op.members \subseteq Bindings \cup {Main}
    BY OpFacts, Zenon DEF OpStates
  <2>2. live' = live
    BY DEF SettleConflict
  <2>3. CASE op.blocked # {}
    BY <2>1, <2>2, <2>3, <1>FinishPublishes, <1>LocalPublishes, SMTT(30) DEF SettleConflict
  <2>4. CASE op.blocked = {}
    <3>1. op' = [Finish(op, "Conflict") EXCEPT !.members = op.members]
      BY <2>4 DEF SettleConflict
    <3>2. op'.pc = "status" /\ op'.want = "Conflict" /\ op'.members = op.members
      BY <3>1 DEF Finish, IdleOp
    <3>3. ~CacheLag => ListHolds(op, StoredRecords) /\ Swept(op) /\ op.todo = {}
      BY <1>BetweenFacts DEF SettleConflict
    <3>4. ~CacheLag => \A m \in op.members : m \in Bindings /\ StoredRecords[m] = Unclaimed
      BY <2>1, <2>4, <3>3, ZenonT(60) DEF ListHolds, Swept
    <3>5. Publishes(op', StoredRecords)
      BY <3>2, <3>4, ZenonT(60) DEF Publishes, Gathering, Evaluating, Sweeping
    <3>. QED
      BY <2>2, <3>5, <1>LocalPublishes
  <2>. QED
    BY <2>3, <2>4
\* What the invariants say inside a helper.
<1>InsideFacts.
      ASSUME ReconcilerInvariant, PublicationInvariant, op.pc \in {"observe", "confirm", "clear", "delete"},
             op.mode \in {"cleanup", "list"}
      PROVE  /\ Called(op) /\ Inside(op, StoredRecords)
             /\ ~CacheLag /\ op.mode = "list" /\ op.ret = "withdraw" /\ op.pc # "delete" => Swept(op)
  <2>. USE <1>InsideFacts
  <2>1. op \in OpStates /\ op.key \in Bindings /\ op.main.there /\ op.main.fin /\ Shape(op)
    BY OpFacts
  <2>2. Called(op)
    BY <2>1, ZenonT(60) DEF Called, Shape
  <2>3. Inside(op, StoredRecords)
    BY Zenon DEF PublicationInvariant, Publishes, Gathering, Evaluating, Inside
  <2>4. ~CacheLag /\ op.mode = "list" /\ op.ret = "withdraw" /\ op.pc # "delete" => Swept(op)
    BY Zenon DEF PublicationInvariant, Publishes, Sweeping
  <2>. QED
    BY <2>2, <2>3, <2>4, SMTT(30)
\* Another observation changes nothing of that.
<1>InsideSeen.
      ASSUME NEW o, NEW o2 \in OpStates, NEW records, Called(o), Inside(o, records),
             o2.key = o.key, o2.main = o.main, o2.plan = o.plan, o2.who = o.who, o2.ret = o.ret,
             o2.members = o.members, o2.blocked = o.blocked, o2.list = o.list, o2.todo = o.todo
      PROVE  Called(o2) /\ Inside(o2, records) /\ (Swept(o) => Swept(o2))
  <2>. USE <1>InsideSeen
  <2>1. Called(o2)
    BY Zenon DEF Called
  <2>2. Inside(o2, records)
    BY <1>HoldsOn, Zenon DEF Inside
  <2>3. Swept(o) => Swept(o2)
    BY Zenon DEF Swept
  <2>. QED
    BY <2>1, <2>2, <2>3
\* Get of the recorded name (Observe).
<1>ObservePublishes. ASSUME ReconcilerInvariant, PublicationInvariant, NEW r, Observe(r) PROVE PublicationInvariant'
  <2>. USE <1>ObservePublishes
  <2>. DEFINE rec == Copy(op, op.who).rec
              n == rec.name
  <2>1. op \in OpStates /\ op.key \in Bindings /\ op.pc = "observe" /\ op.mode \in {"cleanup", "list"}
    BY OpFacts, ZenonT(60) DEF Observe, Shape
  <2>2. rec.kind # "unclaimed"
    BY OpFacts, Zenon DEF Observe, Shape
  <2>3. n \in Names
    BY <2>1, <2>2, PursuedCopy, Zenon DEF Records, WellFormed
  <2>4. object[n] \in ObjectStates
    BY <2>3, ObjectFacts
  <2>5. /\ Called(op) /\ Inside(op, StoredRecords)
        /\ ~CacheLag /\ op.mode = "list" /\ op.ret = "withdraw" => Swept(op)
    BY <2>1, <1>InsideFacts, Zenon
  <2>6. PICK o : o = [op EXCEPT !.seen = object[n]]
    BY ZenonT(60)
  <2>7. \/ op' = ApplyFailed(op)
        \/ \E pc \in {"clear", "confirm"} : op' = [o EXCEPT !.pc = pc]
        \/ op' = Settled(o, TRUE)
    BY <2>6, Zenon DEF Observe
  <2>. HIDE DEF rec, n
  <2>8. o \in OpStates
    BY <2>1, <2>4, <2>6, Zenon DEF OpStates
  <2>9. /\ o.key = op.key /\ o.main = op.main /\ o.plan = op.plan /\ o.who = op.who /\ o.mode = op.mode
        /\ o.ret = op.ret /\ o.members = op.members /\ o.blocked = op.blocked /\ o.list = op.list
        /\ o.todo = op.todo
    BY <2>1, <2>6, Zenon DEF OpStates
  <2>10. PICK o0 : o0 = op
    OBVIOUS
  <2>11. Called(o) /\ Inside(o, StoredRecords) /\ (Swept(op) => Swept(o))
    BY <2>5, <2>8, <2>9, <2>10, <1>InsideSeen, ZenonT(60)
  <2>12. live' = live
    BY DEF Observe
  <2>13. CASE op' = ApplyFailed(op)
    BY <2>1, <2>12, <2>13, <1>FinishPublishes, <1>LocalPublishes, SMTT(30) DEF ApplyFailed
  <2>14. ASSUME NEW pc \in {"clear", "confirm"}, op' = [o EXCEPT !.pc = pc] PROVE PublicationInvariant'
    <3>1. PICK o2 : o2 = [o EXCEPT !.pc = pc]
      BY ZenonT(60)
    <3>2. o2 \in OpStates
      BY <2>8, <3>1, ZenonT(60) DEF OpStates, Steps
    <3>3. /\ o2.key = o.key /\ o2.main = o.main /\ o2.plan = o.plan /\ o2.who = o.who /\ o2.mode = o.mode
          /\ o2.ret = o.ret /\ o2.members = o.members /\ o2.blocked = o.blocked /\ o2.list = o.list
          /\ o2.todo = o.todo /\ o2.pc = pc
      BY <2>8, <3>1, ZenonT(60) DEF OpStates
    <3>4. Inside(o2, StoredRecords) /\ (Swept(o) => Swept(o2))
      BY <2>11, <3>2, <3>3, <1>InsideSeen, Zenon
    <3>5. Publishes(o2, StoredRecords)
      <4>1. AtHelper(o2)
        BY <2>1, <2>5, <2>9, <2>11, <3>3, <3>4, ZenonT(60) DEF AtHelper
      <4>. QED
        BY <3>4, <4>1, <1>InsideCall, Zenon
    <3>. QED
      BY <2>12, <2>14, <3>1, <3>5, <1>LocalPublishes, SMTT(30)
  <2>15. CASE op' = Settled(o, TRUE)
    <3>1. o.mode # "" /\ o.mode # "apply" /\ o.mode # "created"
      BY <2>1, <2>9, ZenonT(60)
    <3>2. Publishes(Settled(o, TRUE), StoredRecords)
      BY <2>8, <2>11, <3>1, <1>SettledPublishes, ZenonT(60)
    <3>. QED
      BY <2>12, <2>15, <3>2, <1>LocalPublishes, SMTT(30)
  <2>. QED
    BY <2>7, <2>13, <2>14, <2>15, ZenonT(60)
\* Deleting the recorded object (Delete).
<1>DeletePublishes. ASSUME ReconcilerInvariant, PublicationInvariant, NEW r, Delete(r) PROVE PublicationInvariant'
  <2>. USE <1>DeletePublishes
  <2>1. op \in OpStates /\ op.pc = "delete" /\ op.mode = "cleanup"
    BY OpFacts, Zenon DEF Delete, Shape
  <2>2. Called(op) /\ Inside(op, StoredRecords)
    BY <2>1, <1>InsideFacts, SMTT(30)
  <2>3. PICK o : o = op
    OBVIOUS
  <2>4. Publishes(CleanedUp(o), StoredRecords)
    BY <2>2, <2>3, <1>CleanedUpPublishes, ZenonT(60)
  <2>5. Publishes(ApplyFailed(o), StoredRecords)
    BY <2>1, <2>3, <1>FinishPublishes, SMTT(30) DEF ApplyFailed
  <2>6. op' = CleanedUp(op) \/ op' = ApplyFailed(op)
    BY Zenon DEF Delete
  <2>. QED
    BY <2>3, <2>4, <2>5, <2>6, <1>LocalPublishes, ZenonT(60) DEF Delete
\* It changes the listed copies only at the binding it is about.
<1>WithCopyList.
      ASSUME op \in OpStates, NEW new \in BindingStates, NEW o, o = WithCopy(op, op.who, new)
      PROVE  Relisted(o, new)
  <2>. USE <1>WithCopyList
  <2>1. ASSUME op.who = Main PROVE o.list = op.list
    <3>1. o = [op EXCEPT !.main = new]
      BY <2>1 DEF WithCopy
    <3>. QED
      BY <3>1, Zenon DEF OpStates
  <2>2. ASSUME op.who # Main, NEW b \in Bindings
        PROVE  o.list[b] = IF b = op.who THEN new ELSE op.list[b]
    <3>1. PICK list : list = [op.list EXCEPT ![op.who] = new]
      BY ZenonT(60)
    <3>2. o = [op EXCEPT !.list = list]
      BY <2>2, <3>1 DEF WithCopy
    <3>3. o.list = list /\ op.list \in [Bindings -> BindingStates]
      BY <3>2, Zenon DEF OpStates
    <3>. QED
      BY <3>1, <3>3, Zenon
  <2>. QED
    BY <2>1, <2>2, SMTT(30) DEF Relisted
\* The record that was patched is in the copy and in what is stored, so the listed copies
\* still carry the stored records.
<1>PatchedInside.
      ASSUME ReconcilerInvariant, PublicationInvariant, op.pc \in {"confirm", "clear"},
             op.mode \in {"cleanup", "list"}, NEW new \in BindingStates, NEW o, o = WithCopy(op, op.who, new),
             NEW records, \A b \in Bindings : records[b] = IF b = Target(op.who) THEN new.rec ELSE live[b].rec
      PROVE  Inside(o, records)
  <2>. USE <1>PatchedInside
  <2>1. op \in OpStates /\ Called(op) /\ Inside(op, StoredRecords)
    BY <1>InsideFacts, OpFacts, ZenonT(60)
  <2>2. Relisted(o, new)
    BY <2>1, <1>WithCopyList, ZenonT(60)
  <2>3. /\ o.members = op.members /\ o.blocked = op.blocked /\ o.todo = op.todo
        /\ o.ret = op.ret /\ o.who = op.who
    BY <2>1, WithCopyProgress, Zenon
  <2>4. ASSUME ListHolds(op, StoredRecords), op.who = Main => Main \in op.members
        PROVE  ListHolds(o, records)
    <3>1. CASE Main \in op.members
      BY <2>3, <2>4, <3>1, Zenon DEF ListHolds
    <3>2. CASE Main \notin op.members
      <4>1. op.who # Main /\ Target(op.who) = op.who
        BY <2>4, <3>2 DEF Target
      <4>2. ASSUME NEW b \in Bindings PROVE o.list[b].rec = records[b]
        <5>1. op.list[b].rec = live[b].rec
          BY <2>4, <3>2, ZenonT(60) DEF ListHolds, StoredRecords
        <5>2. CASE b = op.who
          BY <2>2, <4>1, <5>2, SMTT(30) DEF Relisted
        <5>3. CASE b # op.who
          BY <2>2, <4>1, <5>1, <5>3, ZenonT(60) DEF Relisted
        <5>. QED
          BY <5>2, <5>3, ZenonT(60)
      <4>3. Main \notin o.todo
        BY <2>3, <2>4, <3>2, SMTT(30) DEF ListHolds
      <4>. QED
        BY <2>3, <3>2, <4>2, <4>3, ZenonT(60) DEF ListHolds
    <3>. QED
      BY <3>1, <3>2
  <2>. QED
    BY <2>1, <2>2, <2>3, <2>4, ZenonT(60) DEF Inside
\* A record that was cleared makes one more member without a record.
<1>ClearedSwept.
      ASSUME ReconcilerInvariant, PublicationInvariant, op.pc = "clear", ~CacheLag,
             op.mode = "list", op.ret = "withdraw", NEW new \in BindingStates, new.rec = Unclaimed,
             NEW o, o = WithCopy(op, op.who, new)
      PROVE  Swept(o)
  <2>. USE <1>ClearedSwept
  <2>1. op \in OpStates /\ Swept(op)
    BY <1>InsideFacts, OpFacts
  <2>2. Relisted(o, new)
    BY <2>1, <1>WithCopyList, ZenonT(60)
  <2>3. o.members = op.members /\ o.todo = op.todo /\ op.members \subseteq Bindings \cup {Main}
    BY <2>1, WithCopyProgress, ZenonT(60) DEF OpStates
  <2>4. ASSUME Main \notin o.members, NEW m \in o.members \ o.todo PROVE o.list[m].rec = Unclaimed
    <3>1. m \in Bindings /\ op.list[m].rec = Unclaimed
      BY <2>1, <2>3, <2>4, ZenonT(60) DEF Swept
    <3>. QED
      BY <2>2, <3>1, SMTT(30) DEF Relisted
  <2>. QED
    BY <2>4, SMTT(30) DEF Swept
\* Writing the record of the copy the operator works on (Confirm and Clear).
<1>PatchPublishes.
      ASSUME ReconcilerInvariant, PublicationInvariant, NEW r, NEW rec \in Records, NEW found \in BOOLEAN,
             op.pc \in {"confirm", "clear"},
             PatchOwnership(r, Recorded(rec), Settled(WithCopy(op, op.who, Recorded(rec)), found)),
             found => rec = Confirmed(Copy(op, op.who).rec.name, op.seen.uid),
             ~found => rec = Unclaimed /\ op.pc = "clear"
      PROVE  PublicationInvariant'
  <2>. USE <1>PatchPublishes
  <2>. DEFINE b == Target(op.who)
  <2>1. op \in OpStates /\ op.key \in Bindings /\ op.main.there /\ op.main.fin
    BY OpFacts, ZenonT(60)
  <2>2. /\ op.mode # ""
        /\ op.mode \in {"apply", "created"} => op.who = Main /\ op.main.rec.name = op.plan.name
    BY OpFacts, ZenonT(60) DEF Shape
  <2>3. PICK new : new = Recorded(rec)
    OBVIOUS
  <2>4. new \in BindingStates /\ new.rec = rec /\ b \in Bindings
    BY <2>1, <2>3, RecordedFields, PursuedCopy, ZenonT(60)
  <2>5. PICK o : o = WithCopy(op, op.who, new)
    OBVIOUS
  <2>6. \/ op' = ApplyFailed(op)
        \/ /\ Copy(op, op.who).rv = live[b].rv
           /\ live' = [live EXCEPT ![b] = new] /\ op' = Settled(o, found)
    BY <2>3, <2>5, Zenon DEF PatchOwnership
  <2>. HIDE DEF b
  <2>7. CASE op' = ApplyFailed(op)
    BY <2>1, <2>7, <1>FinishPublishes, SMTT(30) DEF ApplyFailed, PublicationInvariant
  <2>8. CASE /\ Copy(op, op.who).rv = live[b].rv
             /\ live' = [live EXCEPT ![b] = new] /\ op' = Settled(o, found)
    <3>1. PICK records : records = StoredRecords'
      OBVIOUS
    <3>2. \A x \in Bindings : records[x] = IF x = Target(op.who) THEN new.rec ELSE live[x].rec
      BY <2>4, <2>8, <3>1, ZenonT(60) DEF StoredRecords, ReconcilerInvariant, TypeOK, b
    <3>3. /\ o \in OpStates
          /\ o.key = op.key /\ o.plan = op.plan /\ o.who = op.who /\ o.mode = op.mode /\ o.ret = op.ret
          /\ Copy(o, o.who) = new
          /\ op.who = Main => o.main = new
      BY <2>1, <2>4, <2>5, WithCopyFields, ZenonT(90)
    <3>4. o.mode \in {"cleanup", "list"} => Called(o) /\ Inside(o, records)
      <4>. SUFFICES ASSUME op.mode \in {"cleanup", "list"} PROVE Called(o) /\ Inside(o, records)
        BY <3>3
      <4>1. Called(op)
        BY <1>InsideFacts
      <4>2. o.main.there /\ o.main.fin
        <5>1. CASE op.who = Main
          <6>1. Copy(op, op.who) = op.main /\ b = op.key
            BY <5>1, ZenonT(60) DEF Copy, Target, b
          <6>2. op.main = live[op.key]
            BY <2>1, <2>8, <6>1, ZenonT(60) DEF ReconcilerInvariant, Copies, IsCopy
          <6>3. (new.there <=> live[b].there) /\ (new.fin <=> live[b].fin)
            BY <2>1, <2>3, RecordedFields, Zenon DEF b
          <6>. QED
            BY <2>1, <3>3, <5>1, <6>1, <6>2, <6>3, ZenonT(60)
        <5>2. CASE op.who # Main
          BY <2>1, <2>4, <2>5, <5>2, WithCopyFields, ZenonT(60)
        <5>. QED
          BY <5>1, <5>2
      <4>3. Called(o)
        BY <3>3, <4>1, <4>2, ZenonT(60) DEF Called
      <4>4. Inside(o, records)
        BY <2>4, <2>5, <3>2, <1>PatchedInside, ZenonT(60)
      <4>. QED
        BY <4>3, <4>4
    <3>5. ~CacheLag /\ o.mode = "list" /\ o.ret = "withdraw" /\ ~found => Swept(o)
      BY <2>4, <2>5, <3>3, <1>ClearedSwept, ZenonT(60)
    <3>6. o.mode = "list" => found \/ Copy(o, o.who).rec = Unclaimed
      BY <2>4, <3>3, Zenon
    <3>7. o.mode = "apply" /\ found => records[o.key] = o.main.rec
      <4>1. op.who = Main => Target(op.who) = op.key
        BY ZenonT(60) DEF Target
      <4>. QED
        BY <2>1, <2>2, <3>2, <3>3, <4>1, ZenonT(60)
    <3>8. o.mode = "created" => records[o.key].kind = "confirmed" /\ records[o.key].name = o.plan.name
      <4>. SUFFICES ASSUME op.mode = "created"
                    PROVE  records[op.key].kind = "confirmed" /\ records[op.key].name = op.plan.name
        BY <3>3, ZenonT(60)
      <4>1. op.who = Main /\ op.main.rec.name = op.plan.name
        BY <2>2, ZenonT(60)
      <4>2. Target(op.who) = op.key /\ Copy(op, op.who) = op.main
        BY <4>1, ZenonT(60) DEF Target, Copy
      <4>3. found
        BY Zenon DEF PublicationInvariant, Publishes
      <4>4. records[op.key] = Confirmed(op.plan.name, op.seen.uid)
        BY <2>1, <2>4, <3>2, <4>1, <4>2, <4>3, ZenonT(60)
      <4>5. PICK n, u : n = op.plan.name /\ records[op.key] = Confirmed(n, u)
        BY <4>4, Zenon
      <4>6. Confirmed(n, u).kind = "confirmed" /\ Confirmed(n, u).name = n
        BY ConfirmedFields, SMTT(30)
      <4>. QED
        BY <4>5, <4>6, Zenon
    <3>9. Publishes(Settled(o, found), records)
      BY <2>2, <3>3, <3>4, <3>5, <3>6, <3>7, <3>8, <1>SettledPublishes, ZenonT(60)
    <3>. QED
      BY <2>8, <3>1, <3>9, ZenonT(60) DEF PublicationInvariant
  <2>. QED
    BY <2>6, <2>7, <2>8, ZenonT(60)
\* Replacing a claim by the UID that was observed (Confirm).
<1>ConfirmPublishes. ASSUME ReconcilerInvariant, PublicationInvariant, NEW r, Confirm(r) PROVE PublicationInvariant'
  <2>. USE <1>ConfirmPublishes
  <2>. DEFINE c == Copy(op, op.who)
              rec == Confirmed(c.rec.name, op.seen.uid)
  <2>1. op.key \in Bindings /\ c.rec.kind = "pending"
    BY OpFacts, Zenon DEF Confirm, Shape
  <2>2. c.rec.name \in Names
    BY <2>1, PursuedCopy, ZenonT(60) DEF Records, WellFormed
  <2>3. rec \in Records
    BY <2>2, OpFacts, RecordTypes, ZenonT(60) DEF ObjectStates
  <2>4. /\ op.pc = "confirm"
        /\ PatchOwnership(r, Recorded(rec), Settled(WithCopy(op, op.who, Recorded(rec)), TRUE))
    BY Zenon DEF Confirm
  <2>. QED
    BY <2>3, <2>4, <1>PatchPublishes, ZenonT(60)
\* Clearing a record that no longer matches (Clear).
<1>ClearPublishes. ASSUME ReconcilerInvariant, PublicationInvariant, NEW r, Clear(r) PROVE PublicationInvariant'
  <2>. USE <1>ClearPublishes
  <2>1. /\ op.pc = "clear"
        /\ PatchOwnership(r, Recorded(Unclaimed), Settled(WithCopy(op, op.who, Recorded(Unclaimed)), FALSE))
    BY Zenon DEF Clear
  <2>2. Unclaimed \in Records
    BY RecordTypes
  <2>. QED
    BY <2>1, <2>2, <1>PatchPublishes, Zenon
\* A call that failed is reported, whatever has become of the records (ApplyFailed).
<1>FailedPublishes. ASSUME ReconcilerInvariant, op' = ApplyFailed(op) PROVE PublicationInvariant'
  BY <1>FailedPublishes, OpFacts, <1>FinishPublishes, ZenonT(60) DEF ApplyFailed, PublicationInvariant
\* A step at which the memory says nothing about the records, whatever has become of them.
<1>QuietPublishes. ASSUME Quiet(op') PROVE PublicationInvariant'
  BY <1>QuietPublishes, QuietStep DEF PublicationInvariant
\* Get of the desired name (ObserveDesired).
<1>ObserveDesiredPublishes.
      ASSUME ReconcilerInvariant, PublicationInvariant, NEW r, ObserveDesired(r) PROVE PublicationInvariant'
  <2>. USE <1>ObserveDesiredPublishes
  <2>. DEFINE rec == op.main.rec
              n == op.plan.name
  <2>1. op \in OpStates /\ op.key \in Bindings /\ op.plan \in Plans /\ op.pc = "apply"
    BY EvaluationFacts DEF ObserveDesired
  <2>2. n \in Names /\ object[n] \in ObjectStates
    BY <2>1, ConstantsAssumption, ObjectFacts, ZenonT(60)
  <2>3. rec \in Records /\ rec.name \in {"", n}
    BY <2>1, OpFacts, ZenonT(60) DEF BindingStates, Shape
  <2>4. PICK o : o = [op EXCEPT !.who = Main, !.mode = "apply", !.seen = object[n]]
    OBVIOUS
  <2>5. o \in OpStates
    BY <2>1, <2>2, <2>4, ZenonT(60) DEF OpStates
  <2>6. o.mode = "apply" /\ o.seen = object[n] /\ o.key = op.key /\ o.main = op.main
    BY <2>1, <2>4, Zenon DEF OpStates
  <2>7. \/ op' = ApplyFailed(op)
        \/ op' = Settled(o, FALSE)
        \/ \E pc \in {"confirm", "clear", "create"} : op' = [o EXCEPT !.pc = pc]
        \/ rec.kind \notin {"unclaimed", "pending"} /\ Matches(rec, o.seen) /\ op' = Settled(o, TRUE)
    BY <2>4, Zenon DEF ObserveDesired
  <2>. HIDE DEF rec, n
  <2>8. live' = live
    BY DEF ObserveDesired
  <2>9. CASE op' = Settled(o, FALSE)
    <3>1. Publishes(Settled(o, FALSE), StoredRecords)
      BY <2>5, <2>6, <1>SettledPublishes, ZenonT(60)
    <3>. QED
      BY <2>8, <2>9, <3>1, <1>LocalPublishes, SMTT(30)
  <2>10. ASSUME NEW pc \in {"confirm", "clear", "create"}, op' = [o EXCEPT !.pc = pc]
         PROVE  PublicationInvariant'
    <3>1. op'.pc = pc /\ op'.mode = "apply"
      BY <2>5, <2>6, <2>10, ZenonT(60) DEF OpStates
    <3>2. CASE pc = "create"
      BY <3>1, <3>2, <1>QuietPublishes, SMTT(30) DEF Quiet
    <3>3. CASE pc \in {"confirm", "clear"}
      BY <3>1, <3>3, ZenonT(60) DEF PublicationInvariant, Publishes, Gathering, Evaluating, Sweeping
    <3>. QED
      BY <3>2, <3>3, SMTT(30)
  <2>11. CASE rec.kind \notin {"unclaimed", "pending"} /\ Matches(rec, o.seen) /\ op' = Settled(o, TRUE)
    <3>1. rec.kind = "confirmed" /\ rec.name \in Names
      BY <2>3, <2>11, Zenon DEF Records, WellFormed
    <3>2. rec.name = n
      BY <2>3, <3>1, ConstantsAssumption, ZenonT(60)
    <3>3. object[n].there /\ rec.uid = object[n].uid
      BY <2>6, <2>11, <3>1, SMTT(30) DEF Matches
    <3>4. rec = Confirmed(n, object[n].uid)
      BY <2>3, <3>1, <3>2, <3>3, ZenonT(60) DEF Records, WellFormed
    <3>5. IsCopy(op.main, op.key)
      BY <2>1, ZenonT(60) DEF ReconcilerInvariant, Copies
    <3>6. live[op.key].rec = op.main.rec
      BY <2>2, <3>3, <3>4, <3>5, ZenonT(60) DEF IsCopy, rec
    <3>7. StoredRecords[o.key] = o.main.rec
      BY <2>1, <2>6, <3>6, SMTT(30) DEF StoredRecords
    <3>8. Publishes(Settled(o, TRUE), StoredRecords)
      BY <2>5, <2>6, <3>7, <1>SettledPublishes, Zenon
    <3>. QED
      BY <2>8, <2>11, <3>8, <1>LocalPublishes, SMTT(30)
  <2>. QED
    BY <2>7, <2>9, <2>10, <2>11, <1>FailedPublishes, ZenonT(60)
\* Storing a fresh claim (Reserve).
<1>ReservePublishes. ASSUME ReconcilerInvariant, NEW r, Reserve(r) PROVE PublicationInvariant'
  <2>. USE <1>ReservePublishes
  <2>1. PICK new : op' = [op EXCEPT !.pc = "create", !.main = new] \/ op' = ApplyFailed(op)
    BY Zenon DEF Reserve, PatchOwnership
  <2>2. CASE op' = [op EXCEPT !.pc = "create", !.main = new]
    <3>1. Quiet(op')
      BY <2>2, OpFacts, Zenon DEF OpStates, Quiet
    <3>. QED
      BY <3>1, <1>QuietPublishes, SMTT(30)
  <2>. QED
    BY <2>1, <2>2, <1>FailedPublishes, SMTT(30)
\* Creating the object (Create).
<1>CreatePublishes. ASSUME ReconcilerInvariant, NEW r, Create(r) PROVE PublicationInvariant'
  <2>. USE <1>CreatePublishes
  <2>1. PICK seen : \/ op' = [op EXCEPT !.pc = "confirm", !.mode = "created", !.seen = seen]
                    \/ op' = ApplyFailed(op)
    BY ZenonT(60) DEF Create
  <2>2. CASE op' = [op EXCEPT !.pc = "confirm", !.mode = "created", !.seen = seen]
    <3>1. op'.pc = "confirm" /\ op'.mode = "created"
      BY <2>2, OpFacts, ZenonT(60) DEF OpStates
    <3>. QED
      BY <3>1, ZenonT(60) DEF PublicationInvariant, Publishes, Gathering, Evaluating, Sweeping
  <2>. QED
    BY <2>1, <2>2, <1>FailedPublishes, SMTT(30)
\* Bringing the object up to date (UpdateOutput).
<1>UpdateOutputPublishes.
      ASSUME ReconcilerInvariant, PublicationInvariant, NEW r, UpdateOutput(r) PROVE PublicationInvariant'
  <2>. USE <1>UpdateOutputPublishes
  <2>1. op' = Finish(op, "Ready") \/ op' = ApplyFailed(op)
    BY Zenon DEF UpdateOutput
  <2>2. CASE op' = Finish(op, "Ready")
    <3>1. op'.pc = "status" /\ op'.key = op.key /\ op'.plan = op.plan
      BY <2>2, ZenonT(60) DEF Finish, IdleOp
    <3>2. StoredRecords[op.key] = op.main.rec
      BY ZenonT(60) DEF UpdateOutput, PublicationInvariant, Publishes
    <3>3. op.main.rec = Confirmed(op.plan.name, op.seen.uid)
      BY ApplyFacts, SMTT(30) DEF UpdateOutput
    <3>4. /\ StoredRecords[op.key].kind = "confirmed"
          /\ StoredRecords[op.key].name = op.plan.name
      BY <3>2, <3>3, ConfirmedFields, SMTT(30)
    <3>5. op'.want = "Ready"
      BY <2>2, Zenon DEF Finish, IdleOp
    <3>6. Publishes(op', StoredRecords)
      BY <3>1, <3>4, <3>5, ZenonT(60) DEF Publishes, Gathering, Evaluating, Sweeping
    <3>. QED
      BY <3>6, <1>LocalPublishes, ZenonT(60) DEF UpdateOutput
  <2>. QED
    BY <2>1, <2>2, <1>FailedPublishes, SMTT(30)
\* The CRD is missing (CRDMissing).
<1>CRDMissingPublishes. ASSUME ReconcilerInvariant, CRDMissing PROVE PublicationInvariant'
  <2>. USE <1>CRDMissingPublishes
  <2>1. op \in OpStates /\ op.key \in Bindings /\ op.main.there /\ op.main.fin
    BY EvaluationFacts, Zenon DEF CRDMissing
  <2>2. PICK o : o = op
    OBVIOUS
  <2>3. Publishes(CleanUp(o, Main, "stateError"), StoredRecords)
    BY <2>1, <2>2, <1>CleanUpApart, Zenon
  <2>. QED
    BY <2>2, <2>3, <1>LocalPublishes, ZenonT(60) DEF CRDMissing
\* Users leave the ownership records alone: a record is stored only under the finalizer,
\* with which a deleted binding stays (Users).
<1>UsersKeepRecords. ASSUME ReconcilerInvariant, Users PROVE StoredRecords' = StoredRecords
  <2>. USE <1>UsersKeepRecords
  <2>1. /\ live \in [Bindings -> BindingStates]
        /\ \A b \in Bindings : live[b].rec = Unclaimed \/ (live[b].there /\ live[b].fin)
    BY ZenonT(60) DEF ReconcilerInvariant, TypeOK, StoredOK
  <2>2. ASSUME NEW x \in Bindings, NEW new, live' = [live EXCEPT ![x] = new], new.rec = live[x].rec
        PROVE  StoredRecords' = StoredRecords
    <3>1. \A b \in Bindings : live'[b].rec = live[b].rec
      BY <2>1, <2>2, SMTT(30)
    <3>. QED
      BY <3>1, SMTT(30) DEF StoredRecords
  <2>3. ASSUME NEW x \in Bindings PROVE live[x].rv + 1 \in Nat
    BY LiveFacts, SMTT(30)
  <2>4. ASSUME NEW x \in Bindings, NEW s \in Specs, CreateBinding(x, s) PROVE StoredRecords' = StoredRecords
    <3>1. live' = [live EXCEPT ![x] = NewBinding(s, live[x].rv + 1)] /\ live[x].rec = Unclaimed
      BY <2>1, <2>4 DEF CreateBinding
    <3>2. NewBinding(s, live[x].rv + 1).rec = Unclaimed
      BY <2>3, NewBindingType
    <3>. QED
      BY <2>2, <3>1, <3>2, ZenonT(60)
  <2>5. ASSUME NEW x \in Bindings, NEW s \in Specs, EditBinding(x, s) PROVE StoredRecords' = StoredRecords
    <3>1. \A b \in Bindings : live'[b].rec = live[b].rec
      BY <2>1, <2>5, SMTT(30) DEF EditBinding, BindingStates
    <3>. QED
      BY <3>1 DEF StoredRecords
  <2>6. ASSUME NEW x \in Bindings, DeleteBinding(x) PROVE StoredRecords' = StoredRecords
    <3>1. CASE live[x].fin
      <4>1. \A b \in Bindings : live'[b].rec = live[b].rec
        BY <2>1, <2>6, <3>1, SMTT(30) DEF DeleteBinding, BindingStates
      <4>. QED
        BY <4>1 DEF StoredRecords
    <3>2. CASE ~live[x].fin
      <4>1. live' = [live EXCEPT ![x] = AbsentBinding(live[x].rv + 1)] /\ live[x].rec = Unclaimed
        BY <2>1, <2>6, <3>2, Zenon DEF DeleteBinding
      <4>2. AbsentBinding(live[x].rv + 1).rec = Unclaimed
        BY <2>3, AbsentBindingType
      <4>. QED
        BY <2>2, <4>1, <4>2, ZenonT(60)
    <3>. QED
      BY <3>1, <3>2, SMTT(30)
  <2>7. ASSUME NEW p \in Pools, ChangePool(p) PROVE StoredRecords' = StoredRecords
    BY <2>7, <1>SameRecords DEF ChangePool
  <2>. QED
    BY <2>4, <2>5, <2>6, <2>7, ZenonT(60) DEF Users
<1>. SUFFICES ASSUME ReconcilerInvariant, PublicationInvariant, [Next]_vars PROVE PublicationInvariant'
  OBVIOUS
<1>1. CASE Reconcile
  <2>1. ASSUME NEW b \in Bindings, StartReconcile(b) \/ LookUpDeleting(b) PROVE PublicationInvariant'
    BY <2>1, <1>StartReconcilePublishes, <1>LookUpDeletingPublishes, SMTT(30)
  <2>2. ASSUME NEW b \in Bindings, NEW r \in Replies, RenderPeer(b, r) PROVE PublicationInvariant'
    BY <2>2, <1>RenderPeerPublishes, SMTT(30)
  <2>3. ASSUME NEW r \in Replies, \/ AddFinalizer(r) \/ RenderOwn(r) \/ Observe(r) \/ Confirm(r)
                                  \/ Clear(r) \/ Delete(r)
        PROVE  PublicationInvariant'
    BY <2>3, <1>AddFinalizerPublishes, <1>RenderOwnPublishes, <1>ObservePublishes, <1>ConfirmPublishes,
       <1>ClearPublishes, <1>DeletePublishes, ZenonT(60)
  <2>4. ASSUME NEW r \in Replies, ObserveDesired(r) \/ Reserve(r) \/ Create(r) \/ UpdateOutput(r)
        PROVE  PublicationInvariant'
    BY <2>4, <1>ObserveDesiredPublishes, <1>ReservePublishes, <1>CreatePublishes, <1>UpdateOutputPublishes, SMTT(30)
  <2>5. ASSUME NEW r \in Replies, RemoveFinalizer(r) \/ PatchStatus(r) PROVE PublicationInvariant'
    <3>1. op' = IdleOp
      BY <2>5, Zenon DEF RemoveFinalizer, PatchStatus
    <3>2. Quiet(op')
      BY <3>1, Zenon DEF IdleOp, Quiet
    <3>. QED
      BY <3>2, <1>QuietPublishes, SMTT(30)
  <2>6. CASE ListBindings \/ DecideConflict \/ WithdrawnAll \/ SettleConflict \/ CRDMissing
    BY <2>6, <1>ListBindingsPublishes, <1>DecideConflictPublishes, <1>WithdrawnAllPublishes,
       <1>SettleConflictPublishes, <1>CRDMissingPublishes, ZenonT(60)
  <2>7. CASE DelayCreate
    BY <2>7, <1>FailedPublishes, SMTT(30) DEF DelayCreate
  <2>8. ASSUME NEW m \in Bindings \cup {Main}, WithdrawMember(m) \/ ConfirmAbsent(m)
        PROVE  PublicationInvariant'
    BY <2>8, <1>WithdrawMemberPublishes, <1>ConfirmAbsentPublishes, ZenonT(60)
  <2>. QED
    BY <1>1, <2>1, <2>2, <2>3, <2>4, <2>5, <2>6, <2>7, <2>8, ZenonT(60) DEF Reconcile
<1>2. CASE Users
  <2>1. op' = op
    BY <1>2, Zenon DEF Users, CreateBinding, EditBinding, DeleteBinding, ChangePool
  <2>2. StoredRecords' = StoredRecords
    BY <1>2, <1>UsersKeepRecords, SMTT(30)
  <2>. QED
    BY <2>1, <2>2, SMTT(30) DEF PublicationInvariant
<1>3. CASE Others \/ SyncCache \/ (\E c \in inflight : LandCreate(c)) \/ UNCHANGED vars
  <2>1. op' = op /\ live' = live
    BY <1>3, Zenon DEF Others, SyncCache, LandCreate, vars, OthersCreate, OthersReplace,
                OthersDelete, OthersEdit, OthersHold, OthersRelease
  <2>. QED
    BY <2>1, <1>LocalPublishes, SMTT(30) DEF PublicationInvariant
<1>4. CASE Crash
  <2>1. Quiet(op')
    BY <1>4, Zenon DEF Crash, IdleOp, Quiet
  <2>. QED
    BY <2>1, <1>QuietPublishes
<1>. QED
  BY <1>1, <1>2, <1>3, <1>4, ZenonT(60) DEF Next

\* What the memory says about the stored records holds in every reachable state.
THEOREM Publication == Spec => []PublicationInvariant
<1>1. Init => PublicationInvariant
  <2>. SUFFICES ASSUME Init PROVE PublicationInvariant
    OBVIOUS
  <2>1. Quiet(op)
    BY Zenon DEF Init, IdleOp, Quiet
  <2>. QED
    BY <2>1, QuietStep, SMTT(30) DEF PublicationInvariant
<1>. QED
  BY <1>1, NextPublishes, Invariance, PTL DEF Spec

-----------------------------------------------------------------------------
(* What is published. *)

\* Only the last step of a reconcile makes a stored status say Ready (PatchStatus).
LEMMA ReadyWritten ==
    ASSUME ReconcilerInvariant, [Next]_vars, NEW b \in Bindings, live'[b].cond = "Ready",
           live'[b].cond # live[b].cond \/ live'[b].shown # live[b].shown
    PROVE  \E r \in Replies : PatchStatus(r)
<1>. SUFFICES ASSUME ~(\E r \in Replies : PatchStatus(r)) PROVE FALSE
  BY ZenonT(60)
<1>1. live \in [Bindings -> BindingStates] /\ live[b] \in BindingStates
  BY LiveFacts, ZenonT(60)
<1>2. live' # live
  OBVIOUS
<1>3. ASSUME NEW x \in Bindings, NEW new, live' = [live EXCEPT ![x] = new],
             new.cond # "Ready" \/ (new.cond = live[x].cond /\ new.shown = live[x].shown)
      PROVE  FALSE
  BY <1>1, <1>3, ZenonT(60)
<1>4. ASSUME NEW x \in Bindings, NEW s \in Specs, CreateBinding(x, s) PROVE FALSE
  <2>1. NewBinding(s, live[x].rv + 1).cond = "New"
    BY DEF NewBinding, AbsentBinding
  <2>. QED
    BY <1>3, <1>4, <2>1, ZenonT(60) DEF CreateBinding
<1>5. ASSUME NEW x \in Bindings, NEW s \in Specs, EditBinding(x, s) PROVE FALSE
  BY <1>1, <1>5, SMTT(30) DEF EditBinding, BindingStates
<1>6. ASSUME NEW x \in Bindings, DeleteBinding(x) PROVE FALSE
  <2>1. CASE live[x].fin
    BY <1>1, <1>6, <2>1, SMTT(30) DEF DeleteBinding, BindingStates
  <2>2. CASE ~live[x].fin
    <3>1. AbsentBinding(live[x].rv + 1).cond = "New"
      BY ZenonT(60) DEF AbsentBinding
    <3>2. live' = [live EXCEPT ![x] = AbsentBinding(live[x].rv + 1)]
      BY <1>6, <2>2, Zenon DEF DeleteBinding
    <3>. QED
      BY <1>3, <3>1, <3>2, ZenonT(60)
  <2>. QED
    BY <2>1, <2>2, ZenonT(60)
<1>7. ASSUME NEW r, AddFinalizer(r) PROVE FALSE
  <2>1. op.key \in Bindings
    BY <1>7, OpFacts, SMTT(30) DEF AddFinalizer
  <2>. QED
    BY <1>1, <1>2, <1>7, <2>1, ZenonT(60) DEF AddFinalizer, BindingStates
<1>8. ASSUME NEW r, RemoveFinalizer(r) PROVE FALSE
  <2>1. op.key \in Bindings
    BY <1>8, OpFacts, ZenonT(60) DEF RemoveFinalizer
  <2>2. AbsentBinding(live[op.key].rv + 1).cond = "New"
    BY ZenonT(60) DEF AbsentBinding
  <2>3. live' = [live EXCEPT ![op.key] = AbsentBinding(live[op.key].rv + 1)]
    BY <1>2, <1>8, Zenon DEF RemoveFinalizer
  <2>. QED
    BY <1>3, <2>1, <2>2, <2>3, ZenonT(60)
<1>9. ASSUME NEW r, NEW rec, NEW next, op.key \in Bindings, PatchOwnership(r, Recorded(rec), next) PROVE FALSE
  <2>1. Target(op.who) \in Bindings
    BY <1>9, PursuedCopy, ZenonT(60)
  <2>2. live[Target(op.who)] \in BindingStates
    BY <1>1, <2>1, SMTT(30)
  <2>3. /\ Recorded(rec).cond = live[Target(op.who)].cond
        /\ Recorded(rec).shown = live[Target(op.who)].shown
    BY <2>2, Zenon DEF Recorded, BindingStates
  <2>4. live' = [live EXCEPT ![Target(op.who)] = Recorded(rec)]
    BY <1>2, <1>9, Zenon DEF PatchOwnership
  <2>. QED
    BY <1>3, <2>1, <2>3, <2>4, ZenonT(60)
<1>10. ASSUME NEW r, Confirm(r) \/ Clear(r) PROVE FALSE
  <2>1. op.key \in Bindings
    BY <1>10, OpFacts, ZenonT(60) DEF Confirm, Clear
  <2>. QED
    BY <1>9, <1>10, <2>1, ZenonT(60) DEF Confirm, Clear
<1>11. ASSUME NEW r, Reserve(r) PROVE FALSE
  <2>. DEFINE rec == Pending(op.plan.name, [by |-> op.key, no |-> nextClaim])
              new == [Recorded(rec) EXCEPT !.cond = "PendingOutput", !.shown = NoPlan]
  <2>1. op.key \in Bindings
    BY <1>11, OpFacts, SMTT(30) DEF Reserve
  <2>2. Target(op.who) \in Bindings /\ live[Target(op.who)] \in BindingStates
    BY <1>1, <2>1, PursuedCopy, ZenonT(60)
  <2>3. new.cond = "PendingOutput"
    BY <2>2, Zenon DEF Recorded, BindingStates
  <2>4. live' = [live EXCEPT ![Target(op.who)] = new]
    BY <1>2, <1>11, Zenon DEF Reserve, PatchOwnership
  <2>. HIDE DEF new
  <2>. QED
    BY <1>3, <2>2, <2>3, <2>4, SMTT(30)
<1>12. CASE Users
  <2>1. ASSUME NEW p \in Pools, ChangePool(p) PROVE FALSE
    BY <1>2, <2>1, ZenonT(60) DEF ChangePool
  <2>. QED
    BY <1>4, <1>5, <1>6, <1>12, <2>1, ZenonT(60) DEF Users
<1>13. CASE Others \/ Crash \/ SyncCache \/ (\E c \in inflight : LandCreate(c)) \/ UNCHANGED vars
  BY <1>2, <1>13, Zenon DEF Others, Crash, SyncCache, LandCreate, vars, OthersCreate, OthersReplace,
              OthersDelete, OthersEdit, OthersHold, OthersRelease
<1>14. CASE Reconcile
  <2>1. \E r \in Replies : \/ AddFinalizer(r) \/ Confirm(r) \/ Clear(r) \/ RemoveFinalizer(r)
                           \/ Reserve(r) \/ PatchStatus(r)
    BY <1>2, <1>14, ZenonT(60) DEF Reconcile, StartReconcile, LookUpDeleting, RenderPeer, RenderOwn, Observe,
         Delete, ObserveDesired, Create, UpdateOutput, ListBindings, DecideConflict, WithdrawnAll,
         SettleConflict, WithdrawMember, ConfirmAbsent, DelayCreate, CRDMissing
  <2>. QED
    BY <1>7, <1>8, <1>10, <1>11, <2>1, ZenonT(60)
<1>. QED
  BY <1>12, <1>13, <1>14, ZenonT(60) DEF Next

\* Whenever a stored status comes to say Ready, or to show another identity, its
\* ownership record is confirmed under the name of the identity it shows, although the
\* status is computed from a copy and written over a record read from the cache
\* (applySuccessStatus and patchStatus).
THEOREM ReadyOnConfirmed == Spec => ReadyIsConfirmed
<1>. DEFINE Step ==
              op' # op => \A b \in Bindings :
                /\ live'[b].cond = "Ready"
                /\ live'[b].cond # live[b].cond \/ live'[b].shown # live[b].shown
                => live'[b].rec.kind = "confirmed" /\ live'[b].rec.name = live'[b].shown.name
<1>1. ASSUME ReconcilerInvariant, PublicationInvariant, [Next]_vars PROVE Step
  <2>. SUFFICES ASSUME NEW b \in Bindings, live'[b].cond = "Ready",
                       live'[b].cond # live[b].cond \/ live'[b].shown # live[b].shown
                PROVE  live'[b].rec.kind = "confirmed" /\ live'[b].rec.name = live'[b].shown.name
    BY ZenonT(60)
  <2>1. PICK r \in Replies : PatchStatus(r)
    BY <1>1, ReadyWritten, ZenonT(60)
  <2>2. /\ op.key \in Bindings /\ op.pc = "status"
        /\ live \in [Bindings -> BindingStates] /\ live[b] \in BindingStates
    BY <1>1, <2>1, OpFacts, LiveFacts, ZenonT(60) DEF PatchStatus
  <2>3. PICK shown :
          /\ shown = IF op.want = "Ready" THEN op.plan ELSE NoPlan
          /\ live' # live =>
                live' = [live EXCEPT ![op.key].cond = op.want, ![op.key].shown = shown, ![op.key].rv = @ + 1]
    BY <2>1, Zenon DEF PatchStatus
  <2>4. b = op.key /\ live'[b].cond = op.want /\ live'[b].shown = shown /\ live'[b].rec = live[b].rec
    BY <2>2, <2>3, SMTT(30) DEF BindingStates
  <2>5. op.want = "Ready" /\ shown = op.plan
    BY <2>3, <2>4, SMTT(30)
  <2>6. live[op.key].rec.kind = "confirmed" /\ live[op.key].rec.name = op.plan.name
    BY <1>1, <2>2, <2>5, ZenonT(60) DEF PublicationInvariant, Publishes, StoredRecords
  <2>. QED
    BY <2>4, <2>5, <2>6, ZenonT(60)
<1>2. ReconcilerInvariant /\ PublicationInvariant /\ [Next]_vars => [Step]_vars
  BY <1>1, ZenonT(60)
<1>. QED
  BY <1>2, Invariance, Publication, PTL DEF Spec, ReadyIsConfirmed

\* If the cache does not lag, Conflict=True is written only while no member of the
\* conflict has output its stored record matches (withdrawConflictOutputs before
\* applyConflictStatus).
THEOREM ConflictOnAbsence == ~CacheLag => (Spec => ConflictSettlesOnAbsence)
<1>. DEFINE Step == op' # op /\ live' # live /\ op.pc = "status" /\ op.want = "Conflict"
                    => \A m \in op.members, n \in Names : ~Owns(Target(m), n)
<1>. SUFFICES ASSUME ~CacheLag PROVE Spec => ConflictSettlesOnAbsence
  BY Zenon
<1>1. ASSUME PublicationInvariant PROVE Step
  <2>. SUFFICES ASSUME op.pc = "status", op.want = "Conflict", NEW m \in op.members, NEW n \in Names
                PROVE  ~Owns(Target(m), n)
    BY ZenonT(60)
  <2>1. m \in Bindings /\ StoredRecords[m] = Unclaimed
    BY <1>1, ZenonT(60) DEF PublicationInvariant, Publishes
  <2>2. Target(m) = m /\ live[m].rec.name = ""
    BY <2>1, ConstantsAssumption, UnclaimedFields, ZenonT(60) DEF Target, StoredRecords
  <2>. QED
    BY <2>2, ConstantsAssumption, ZenonT(60) DEF Owns
<1>2. PublicationInvariant => [Step]_vars
  BY <1>1, ZenonT(60)
<1>. QED
  BY <1>2, Publication, PTL DEF ConflictSettlesOnAbsence

-----------------------------------------------------------------------------
(* What is left behind. *)

\* The steps that write an object.
LEMMA ObjectWriters ==
    ASSUME [Next]_vars
    PROVE  \/ object' = object
           \/ \E r \in Replies : Delete(r) \/ UpdateOutput(r) \/ Create(r)
           \/ \E c \in inflight : LandCreate(c)
           \/ Others
BY ZenonT(60) DEF Next, Users, Crash, SyncCache, vars, CreateBinding, EditBinding, DeleteBinding, ChangePool,
       Reconcile, StartReconcile, LookUpDeleting, RenderPeer, AddFinalizer,
       RenderOwn, Observe, Confirm, Clear, RemoveFinalizer, ObserveDesired, Reserve, PatchStatus,
       ListBindings, DecideConflict, WithdrawnAll, SettleConflict, WithdrawMember, ConfirmAbsent,
       DelayCreate, CRDMissing

\* An object of the operator's that was there before and is there now is the same one:
\* whoever restores an object does not do so in the operator's name.
LEMMA OwnStays ==
    ASSUME ReconcilerInvariant, ~LateCreates, [Next]_vars, NEW n \in Names, object[n].there,
           object'[n].there, object'[n].own
    PROVE  object[n].own /\ object'[n].uid = object[n].uid
<1>. DEFINE Same == object[n].own /\ object'[n].uid = object[n].uid
<1>1. object \in [Names -> ObjectStates] /\ object[n] \in ObjectStates
  BY ObjectFacts
<1>2. CASE object' = object
  BY <1>2
<1>3. ASSUME NEW r, Delete(r) \/ UpdateOutput(r) \/ Create(r) PROVE Same
  <2>1. CASE Delete(r)
    BY <1>1, <2>1, AbsentObjectType, ZenonT(60) DEF Delete, ObjectStates
  <2>2. CASE UpdateOutput(r)
    BY <1>1, <2>2, ZenonT(60) DEF UpdateOutput, ObjectStates
  <2>3. CASE Create(r)
    BY <1>1, <2>3, ZenonT(60) DEF Create
  <2>. QED
    BY <1>3, <2>1, <2>2, <2>3, ZenonT(60)
<1>4. ASSUME NEW x \in Names, \/ OthersCreate(x) \/ OthersReplace(x) \/ OthersDelete(x)
                              \/ OthersEdit(x) \/ OthersHold(x) \/ OthersRelease(x)
      PROVE Same
  <2>1. CASE OthersCreate(x)
    BY <1>1, <2>1, SMTT(30) DEF OthersCreate
  <2>2. CASE OthersReplace(x)
    BY <1>1, <2>2, SMTT(30) DEF OthersReplace, ObjectStates
  <2>3. CASE OthersDelete(x)
    BY <1>1, <2>3, AbsentObjectType, SMTT(30) DEF OthersDelete, ObjectStates
  <2>4. CASE OthersEdit(x)
    BY <1>1, <2>4, SMTT(30) DEF OthersEdit, ObjectStates
  <2>5. CASE OthersHold(x)
    BY <1>1, <2>5, SMTT(30) DEF OthersHold, ObjectStates
  <2>6. CASE OthersRelease(x)
    BY <1>1, <2>6, AbsentObjectType, SMTT(30) DEF OthersRelease, ObjectStates
  <2>. QED
    BY <1>4, <2>1, <2>2, <2>3, <2>4, <2>5, <2>6, ZenonT(60)
<1>5. inflight = {}
  BY ZenonT(60) DEF ReconcilerInvariant
<1>. QED
  BY <1>2, <1>3, <1>4, <1>5, ObjectWriters, ConstantsAssumption, ZenonT(60) DEF Others

\* A new object of the operator's comes from its Create, which leaves the bindings alone.
LEMMA OwnCreated ==
    ASSUME ReconcilerInvariant, ~LateCreates, [Next]_vars, NEW n \in Names, ~object[n].there,
           object'[n].there, object'[n].own
    PROVE  (\E r \in Replies : Create(r)) /\ live' = live /\ op.key \in Bindings /\ op' # op
<1>1. object \in [Names -> ObjectStates] /\ object[n] \in ObjectStates
  BY ObjectFacts
<1>2. ASSUME NEW r, Delete(r) \/ UpdateOutput(r) PROVE FALSE
  <2>1. CASE Delete(r)
    BY <1>1, <2>1, AbsentObjectType, ZenonT(60) DEF Delete, ObjectStates
  <2>2. CASE UpdateOutput(r)
    BY <1>1, <2>2, ZenonT(60) DEF UpdateOutput, ObjectStates
  <2>. QED
    BY <1>2, <2>1, <2>2, SMTT(30)
<1>3. ASSUME NEW x \in Names, \/ OthersReplace(x) \/ OthersDelete(x)
                              \/ OthersEdit(x) \/ OthersHold(x) \/ OthersRelease(x)
      PROVE FALSE
  <2>2. CASE OthersReplace(x)
    BY <1>1, <2>2, SMTT(30) DEF OthersReplace, ObjectStates
  <2>3. CASE OthersDelete(x)
    BY <1>1, <2>3, AbsentObjectType, SMTT(30) DEF OthersDelete, ObjectStates
  <2>4. CASE OthersEdit(x)
    BY <1>1, <2>4, SMTT(30) DEF OthersEdit, ObjectStates
  <2>5. CASE OthersHold(x)
    BY <1>1, <2>5, SMTT(30) DEF OthersHold, ObjectStates
  <2>6. CASE OthersRelease(x)
    BY <1>1, <2>6, AbsentObjectType, SMTT(30) DEF OthersRelease, ObjectStates
  <2>. QED
    BY <1>3, <2>2, <2>3, <2>4, <2>5, <2>6, ZenonT(60)
<1>4. ASSUME NEW x \in Names, OthersCreate(x) PROVE FALSE
  <2>1. object' = [object EXCEPT ![x] = [AbsentObject EXCEPT !.there = TRUE, !.uid = nextUid]]
    BY <1>4 DEF OthersCreate
  <2>2. [AbsentObject EXCEPT !.there = TRUE, !.uid = nextUid].own = FALSE
    BY DEF AbsentObject
  <2>. QED
    BY <1>1, <2>1, <2>2, SMTT(30)
<1>5. ASSUME NEW r, Create(r) PROVE live' = live /\ op.key \in Bindings /\ op' # op
  <2>1. op \in OpStates /\ op.key \in Bindings /\ op.pc = "create"
    BY <1>5, ApplyFacts, SMTT(30) DEF Create
  <2>2. PICK seen : \/ op' = [op EXCEPT !.pc = "confirm", !.mode = "created", !.seen = seen]
                    \/ op' = ApplyFailed(op)
    BY <1>5, ZenonT(60) DEF Create
  <2>3. CASE op' = [op EXCEPT !.pc = "confirm", !.mode = "created", !.seen = seen]
    <3>1. op'.pc = "confirm"
      BY <2>1, <2>3, Zenon DEF OpStates
    <3>. QED
      BY <1>5, <2>1, <3>1, ZenonT(60) DEF Create
  <2>4. CASE op' = ApplyFailed(op)
    <3>1. op'.pc = "status"
      BY <2>4, ZenonT(60) DEF ApplyFailed, Finish, IdleOp
    <3>. QED
      BY <1>5, <2>1, <3>1, ZenonT(60) DEF Create
  <2>. QED
    BY <2>2, <2>3, <2>4, SMTT(30)
<1>6. inflight = {} /\ object' # object
  BY DEF ReconcilerInvariant
<1>. QED
  BY <1>2, <1>3, <1>4, <1>5, <1>6, ObjectWriters, ConstantsAssumption, ZenonT(60) DEF Others

\* An object of the operator's that a record reached is still reached.
LEMMA ReachedStays ==
    ASSUME ReconcilerInvariant, ~LateCreates, [Next]_vars, NEW n \in Names, object[n].there,
           object'[n].there, object'[n].own, NEW b \in Bindings, Owns(b, n)
    PROVE  Owns(b, n)'
<1>1. object[n].own /\ object'[n].uid = object[n].uid
  BY OwnStays, Zenon
<1>2. Retains(b)
  BY NextRetains, ZenonT(60)
<1>3. object'[n].claim = object[n].claim
  BY <1>1, ClaimsStay, ZenonT(60)
<1>4. CASE live'[b].rec = live[b].rec
  BY <1>1, <1>3, <1>4, ZenonT(60) DEF Owns, Matches
<1>5. CASE live'[b].rec = Confirmed(n, object[n].uid)
  <2>. DEFINE c == Confirmed(n, object[n].uid)
  <2>1. c.kind = "confirmed" /\ c.name = n /\ c.uid = object[n].uid
    BY Zenon DEF Confirmed
  <2>2. live'[b].rec = c
    BY <1>5, ZenonT(60)
  <2>. QED
    BY <1>1, <2>1, <2>2, ZenonT(60) DEF Owns, Matches
<1>. QED
  BY <1>1, <1>2, <1>4, <1>5, ZenonT(60) DEF Retains

\* An object the operator creates under the stored claim is reached.
LEMMA CreatedReached ==
    ASSUME ReconcilerInvariant, ~LateCreates, [Next]_vars, NEW n \in Names, ~object[n].there,
           object'[n].there, object'[n].own, live[op.key].rec = Pending(n, object'[n].claim)
    PROVE  \E b \in Bindings : Owns(b, n)'
<1>1. live' = live /\ op.key \in Bindings
  BY OwnCreated, Zenon
<1>2. PICK b \in Bindings : b = op.key
  BY <1>1
<1>3. live'[b].rec = Pending(n, object'[n].claim)
  BY <1>1, <1>2, ZenonT(60)
<1>4. live'[b].rec.kind = "pending" /\ live'[b].rec.name = n /\ live'[b].rec.claim = object'[n].claim
  <2>1. PICK c : c = object'[n].claim /\ live'[b].rec = Pending(n, c)
    BY <1>3, Zenon
  <2>2. Pending(n, c).kind = "pending" /\ Pending(n, c).name = n /\ Pending(n, c).claim = c
    BY PendingFields, SMTT(30)
  <2>. QED
    BY <2>1, <2>2, Zenon
<1>5. Owns(b, n)'
  BY <1>4, ZenonT(60) DEF Owns, Matches
<1>. QED
  BY <1>5, ZenonT(60)

\* When a Create that was reported as failed has no later effect, no step loses an object
\* of the operator's that a stored record reaches, and one that is created under the
\* stored claim is reached from the start: only a Create under a claim that is no longer
\* stored leaves an object behind (createManagedClusterSPIFFEID).
THEOREM NothingLost == ~LateCreates => (Spec => OrphansUnclaimed)
<1>. DEFINE Step ==
              \A n \in Names :
                /\ object'[n].there
                /\ object'[n].own
                /\ \/ object[n].there /\ \E b \in Bindings : Owns(b, n)
                   \/ ~object[n].there /\ live[op.key].rec = Pending(n, object'[n].claim)
                => (\E b \in Bindings : Owns(b, n))'
<1>. SUFFICES ASSUME ~LateCreates PROVE Spec => OrphansUnclaimed
  BY Zenon
<1>1. ASSUME ReconcilerInvariant, [Next]_vars PROVE Step
  <2>. SUFFICES ASSUME NEW n \in Names, object'[n].there, object'[n].own,
                       \/ object[n].there /\ \E b \in Bindings : Owns(b, n)
                       \/ ~object[n].there /\ live[op.key].rec = Pending(n, object'[n].claim)
                PROVE  \E b \in Bindings : Owns(b, n)'
    BY Zenon
  <2>1. CASE object[n].there /\ \E b \in Bindings : Owns(b, n)
    BY <1>1, <2>1, ReachedStays, ZenonT(60)
  <2>2. CASE ~object[n].there /\ live[op.key].rec = Pending(n, object'[n].claim)
    BY <1>1, <2>2, CreatedReached, ZenonT(60)
  <2>. QED
    BY <2>1, <2>2, ZenonT(60)
<1>2. ReconcilerInvariant /\ [Next]_vars => [Step]_vars
  BY <1>1, ZenonT(60)
<1>. QED
  BY <1>2, Invariance, PTL DEF Spec, OrphansUnclaimed

\* When, besides, every Create happens under the stored claim, every object of the
\* operator's is reachable from a stored record in every state.
THEOREM NoOrphans == ~LateCreates => (Spec /\ CreateUnderClaim => []NoOrphan)
<1>. DEFINE Claimed ==
              op' # op => \A n \in Names :
                ~object[n].there /\ object'[n].there
                => live[op.key].rec = Pending(n, object'[n].claim)
<1>. SUFFICES ASSUME ~LateCreates PROVE Spec /\ CreateUnderClaim => []NoOrphan
  BY Zenon
<1>1. Init => NoOrphan
  BY AbsentObjectType, SMTT(30) DEF Init, NoOrphan
<1>2. ASSUME ReconcilerInvariant, NoOrphan, [Next]_vars, [Claimed]_vars PROVE NoOrphan'
  <2>. SUFFICES ASSUME NEW n \in Names, object'[n].there, object'[n].own
                PROVE  \E b \in Bindings : Owns(b, n)'
    BY Zenon DEF NoOrphan
  <2>1. CASE object[n].there
    <3>1. object[n].own
      BY <1>2, <2>1, OwnStays, ZenonT(60)
    <3>2. \E b \in Bindings : Owns(b, n)
      BY <1>2, <2>1, <3>1, ZenonT(60) DEF NoOrphan
    <3>. QED
      BY <1>2, <2>1, <3>2, ReachedStays, ZenonT(60)
  <2>2. CASE ~object[n].there
    <3>1. op' # op
      BY <1>2, <2>2, OwnCreated, ZenonT(60)
    <3>2. live[op.key].rec = Pending(n, object'[n].claim)
      BY <1>2, <2>2, <3>1, ZenonT(60) DEF vars
    <3>. QED
      BY <1>2, <2>2, <3>2, CreatedReached, ZenonT(60)
  <2>. QED
    BY <2>1, <2>2, SMTT(30)
<1>3. ReconcilerInvariant /\ NoOrphan /\ [Next]_vars /\ [Claimed]_vars => NoOrphan'
  BY <1>2, ZenonT(60)
<1>. QED
  BY <1>1, <1>3, Invariance, PTL DEF Spec, CreateUnderClaim

-----------------------------------------------------------------------------
(* Who owns an output. *)

\* The steps that write a binding.
LEMMA BindingWriters ==
    ASSUME [Next]_vars
    PROVE  \/ live' = live
           \/ Users
           \/ \E r \in Replies : AddFinalizer(r) \/ RemoveFinalizer(r) \/ PatchStatus(r)
           \/ \E r \in Replies : Confirm(r) \/ Clear(r) \/ Reserve(r)
BY ZenonT(60) DEF Next, Others, Crash, SyncCache, LandCreate, vars, OthersCreate, OthersReplace,
       OthersDelete, OthersEdit, OthersHold, OthersRelease,
       Reconcile, StartReconcile, LookUpDeleting, RenderPeer, RenderOwn, Observe, Delete, ObserveDesired,
       Create, UpdateOutput, ListBindings, DecideConflict, WithdrawnAll, SettleConflict, WithdrawMember,
       ConfirmAbsent, DelayCreate, CRDMissing

\* A record stays as it is, is dropped, claims for the binding itself, or confirms an
\* object that carries the claim it had (ownership.go).
Kept(b) ==
    LET rec == live[b].rec
        new == live'[b].rec
    IN  \/ new = rec
        \/ new.kind = "unclaimed"
        \/ new.kind = "pending" /\ new.claim.by = b
        \/ /\ new.kind = "confirmed" /\ rec.kind = "pending" /\ object' = object
           /\ \A n \in Names : new.name = n /\ object[n].there /\ object[n].uid = new.uid
                               => object[n].claim = rec.claim

\* That is what every step does to every record.
LEMMA RecordKept == ASSUME RefinementInvariant, [Next]_vars, NEW b \in Bindings PROVE Kept(b)
<1>1. ReconcilerInvariant
  BY DEF RefinementInvariant
<1>2. ASSUME live'[b].rec = live[b].rec PROVE Kept(b)
  BY <1>2, ZenonT(60) DEF Kept
<1>3. ASSUME NEW r \in Replies, Confirm(r), live' # live PROVE Kept(b)
  <2>1. PICK c \in Bindings, n \in Names, u \in Nat :
           /\ OnlyRecord(c) /\ live[c].rec.kind = "pending" /\ live'[c].rec = Confirmed(n, u)
           /\ object[n].there /\ object[n].uid = u => object[n].claim = live[c].rec.claim
    BY <1>3, ConfirmWrites, ZenonT(60)
  <2>2. object' = object
    BY <1>3, ZenonT(60) DEF Confirm
  <2>3. Confirmed(n, u).kind = "confirmed" /\ Confirmed(n, u).name = n /\ Confirmed(n, u).uid = u
    BY ConfirmedFields, ZenonT(60)
  <2>4. CASE c = b
    BY <2>1, <2>2, <2>3, <2>4, ZenonT(60) DEF Kept
  <2>. QED
    BY <1>2, <2>1, <2>4, ZenonT(60) DEF OnlyRecord
<1>4. ASSUME NEW r \in Replies, Clear(r), live' # live PROVE Kept(b)
  <2>1. PICK c \in Bindings : OnlyRecord(c) /\ live'[c].rec = Unclaimed
    BY <1>1, <1>4, ClearWrites, ZenonT(60)
  <2>2. CASE c = b
    BY <2>1, <2>2, UnclaimedFields, ZenonT(60) DEF Kept
  <2>. QED
    BY <1>2, <2>1, <2>2, ZenonT(60) DEF OnlyRecord
<1>5. ASSUME NEW r \in Replies, Reserve(r), live' # live PROVE Kept(b)
  <2>1. PICK c \in Bindings, n \in Names :
           OnlyRecord(c) /\ live'[c].rec = Pending(n, [by |-> c, no |-> nextClaim])
    BY <1>1, <1>5, ReserveWrites, ZenonT(60)
  <2>2. CASE c = b
    <3>1. PICK claim : claim = [by |-> b, no |-> nextClaim]
      OBVIOUS
    <3>2. claim.by = b /\ live'[b].rec = Pending(n, claim)
      BY <2>1, <2>2, <3>1, ZenonT(60)
    <3>3. Pending(n, claim).kind = "pending" /\ Pending(n, claim).claim = claim
      BY PendingFields, ZenonT(60)
    <3>4. live'[b].rec.kind = "pending" /\ live'[b].rec.claim.by = b
      BY <3>2, <3>3, ZenonT(60)
    <3>. QED
      BY <3>4, ZenonT(60) DEF Kept
  <2>. QED
    BY <1>2, <2>1, <2>2, ZenonT(60) DEF OnlyRecord
<1>. QED
  BY <1>1, <1>2, <1>3, <1>4, <1>5, RecordsStay, BindingWriters, ZenonT(60)

\* A pending record holds a claim of the binding itself.
OwnClaims == \A b \in Bindings : live[b].rec.kind = "pending" => live[b].rec.claim.by = b

\* A binding never owns an object that does not carry a claim of its own, whatever
\* others create under the desired name (classifyManagedClusterSPIFFEID).
THEOREM NoAdoption == Spec => []NeverAdopts
<1>1. ASSUME Init PROVE OwnClaims /\ NeverAdopts
  <2>1. ASSUME NEW n \in Names PROVE ~object[n].there
    BY <1>1, AbsentObjectType, SMTT(30) DEF Init
  <2>2. ASSUME NEW b \in Bindings PROVE live[b].rec = Unclaimed
    <3>1. AbsentBinding(1).rec = Unclaimed
      BY AbsentBindingType
    <3>2. \A s \in Specs : NewBinding(s, 1).rec = Unclaimed
      BY NewBindingType, SMTT(30)
    <3>. QED
      BY <1>1, <3>1, <3>2, SMTT(30) DEF Init
  <2>. QED
    BY <2>1, <2>2, UnclaimedFields, ZenonT(60) DEF OwnClaims, NeverAdopts, Owns, Matches
<1>2. ASSUME RefinementInvariant, OwnClaims, NeverAdopts, [Next]_vars PROVE OwnClaims' /\ NeverAdopts'
  <2>1. ReconcilerInvariant
    BY <1>2 DEF RefinementInvariant
  <2>2. ASSUME NEW b \in Bindings, live'[b].rec.kind = "pending" PROVE live'[b].rec.claim.by = b
    <3>1. Kept(b)
      BY <1>2, RecordKept, ZenonT(60)
    <3>2. "pending" # "unclaimed" /\ "pending" # "confirmed"
      BY SMT
    <3>. QED
      BY <1>2, <2>2, <3>1, <3>2, ZenonT(60) DEF Kept, OwnClaims
  <2>3. ASSUME NEW b \in Bindings, NEW n \in Names, Owns(b, n)' PROVE object'[n].claim.by = b
    <3>1. CASE live'[b].rec.kind = "pending"
      <4>1. "pending" # "confirmed"
        BY SMT
      <4>. QED
        BY <2>2, <2>3, <3>1, <4>1, ZenonT(60) DEF Owns, Matches
    <3>2. CASE live'[b].rec.kind # "pending"
      <4>1. /\ live'[b].rec.kind = "confirmed" /\ live'[b].rec.name = n
            /\ object'[n].there /\ object'[n].uid = live'[b].rec.uid
        BY <2>3, <3>2, ZenonT(60) DEF Owns, Matches
      <4>2. CASE live'[b].rec = live[b].rec
        <5>1. live[b].rec.uid < nextUid
          BY <2>1, ZenonT(60) DEF ReconcilerInvariant, StoredOK
        <5>2. object[n].there /\ object'[n].uid = object[n].uid /\ object'[n].claim = object[n].claim
          BY <1>2, <2>1, <4>1, <4>2, <5>1, SameObject, ZenonT(60)
        <5>3. Owns(b, n)
          BY <4>1, <4>2, <5>2, ZenonT(60) DEF Owns, Matches
        <5>. QED
          BY <1>2, <5>2, <5>3, ZenonT(60) DEF NeverAdopts
      <4>3. CASE live'[b].rec # live[b].rec
        <5>1. /\ live[b].rec.kind = "pending" /\ object' = object
              /\ object[n].claim = live[b].rec.claim
          <6>1. Kept(b)
            BY <1>2, RecordKept, ZenonT(60)
          <6>2. "confirmed" # "unclaimed"
            BY SMT
          <6>. QED
            BY <3>2, <4>1, <4>3, <6>1, <6>2, ZenonT(60) DEF Kept
        <5>. QED
          BY <1>2, <5>1, ZenonT(60) DEF OwnClaims
      <4>. QED
        BY <4>2, <4>3
    <3>. QED
      BY <3>1, <3>2
  <2>4. OwnClaims'
    BY <2>2, ZenonT(60) DEF OwnClaims
  <2>5. NeverAdopts'
    BY <2>3, ZenonT(60) DEF NeverAdopts
  <2>. QED
    BY <2>4, <2>5
<1>. QED
  BY <1>1, <1>2, RefinementInvariance, PTL DEF Spec

=============================================================================
