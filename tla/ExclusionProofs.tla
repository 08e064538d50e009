-------------------------- MODULE ExclusionProofs --------------------------
(***************************************************************************)
(* Exclusive outputs: ExclusionInvariant holds in every reachable state    *)
(* in which outputs are created under the stored claim only, and from it   *)
(* it follows that the identities the operator registers never compete.    *)
(***************************************************************************)
EXTENDS PublicationProofs

\* Unless a step names another prover, Zenon proves it.
USE ZenonT(60)

-----------------------------------------------------------------------------
(* Rivals and outputs. *)

\* Competition is mutual (identitiesConflict).
LEMMA CompetesMutual == ASSUME NEW x, NEW y, Competes(x, y) PROVE Competes(y, x)
BY DEF Competes, PairCause

\* What it means to be rivals (Rivals).
LEMMA RivalsFacts ==
    ASSUME NEW b \in Bindings, NEW c \in Rivals[b]
    PROVE  /\ c \in Bindings /\ c # b /\ b \in Rivals[c]
           /\ \A x \in Outcomes[b], y \in Outcomes[c] : x \in Plans /\ y \in Plans /\ Competes(x, y)
<1>1. /\ c \in Bindings /\ c # b
      /\ \A x \in Outcomes[b], y \in Outcomes[c] : x \in Plans /\ y \in Plans /\ Competes(x, y)
  BY DEF Rivals
<1>2. \A y \in Outcomes[c], x \in Outcomes[b] : y \in Plans /\ x \in Plans /\ Competes(y, x)
  BY <1>1, CompetesMutual
<1>3. b \in Rivals[c]
  BY <1>1, <1>2 DEF Rivals
<1>. QED
  BY <1>1, <1>3

\* Rendering has one of the outcomes (Render).
LEMMA OutcomeOf ==
    ASSUME NEW b \in Bindings, NEW s \in Specs, NEW p \in Pools PROVE Render[b][s][p] \in Outcomes[b]
BY SMTT(30) DEF Outcomes

\* No output appears from the objects ob to ob2, and those that stay are the same.
Shrinks(ob, ob2) ==
    \A b \in Bindings, n \in Names : HasOutput(ob2, b, n) =>
        HasOutput(ob, b, n) /\ ob2[n].uid = ob[n].uid /\ ob2[n].claim = ob[n].claim

\* A binding without output stays so, and a copy that leads to the outputs still does.
LEMMA ShrinksKeeps ==
    ASSUME NEW ob, NEW ob2, Shrinks(ob, ob2), NEW b \in Bindings
    PROVE  /\ NoOutput(ob, b) => NoOutput(ob2, b)
           /\ NoRivalOutput(ob, b) => NoRivalOutput(ob2, b)
           /\ \A copy : LeadsToOutput(ob, b, copy) => LeadsToOutput(ob2, b, copy)
<1>1. ASSUME NEW c \in Bindings, NoOutput(ob, c) PROVE NoOutput(ob2, c)
  BY <1>1 DEF NoOutput, Shrinks
<1>2. NoRivalOutput(ob, b) => NoRivalOutput(ob2, b)
  BY <1>1, RivalsFacts DEF NoRivalOutput
<1>3. ASSUME NEW copy, LeadsToOutput(ob, b, copy) PROVE LeadsToOutput(ob2, b, copy)
  <2>. SUFFICES ASSUME copy.deleting, NEW n \in Names, HasOutput(ob2, b, n)
                PROVE  copy.rec.name = n /\ Matches(copy.rec, ob2[n])
    BY DEF LeadsToOutput
  <2>1. HasOutput(ob, b, n) /\ ob2[n].uid = ob[n].uid /\ ob2[n].claim = ob[n].claim
    BY DEF Shrinks
  <2>2. copy.rec.name = n /\ Matches(copy.rec, ob[n])
    BY <1>3, <2>1 DEF LeadsToOutput
  <2>. QED
    BY <2>1, <2>2 DEF Matches, HasOutput
<1>. QED
  BY <1>1, <1>2, <1>3

\* The stored binding that memory o works on goes on from lv to lv2, and does not come
\* back to the pending record of the fetched copy.
Advances(o, lv, lv2) ==
    /\ lv[o.key].rv \in Nat /\ lv2[o.key].rv \in Nat /\ o.main.rv \in Nat
    /\ lv[o.key].rv <= lv2[o.key].rv
    /\ StillPending(o, lv2) => StillPending(o, lv)

\* A reconcile that can no longer store anything stays so.
LEMMA DoomedStays ==
    ASSUME NEW o, NEW lv, NEW lv2, Advances(o, lv, lv2), Doomed(o, lv) PROVE Doomed(o, lv2)
<1>1. o.main.rv < lv2[o.key].rv
  <2>1. PICK i, j, k : i = o.main.rv /\ j = lv[o.key].rv /\ k = lv2[o.key].rv
    OBVIOUS
  <2>2. i \in Nat /\ j \in Nat /\ k \in Nat /\ i < j /\ j <= k
    BY <2>1 DEF Advances, Doomed
  <2>3. i < k
    BY <2>2, EarlierVersion
  <2>. QED
    BY <2>1, <2>3
<1>. QED
  BY <1>1 DEF Advances, Doomed

\* One that is unopposed stays so.
LEMMA UnopposedStays ==
    ASSUME NEW o, o.key \in Bindings, NEW lv, NEW lv2, NEW ob, NEW ob2, Advances(o, lv, lv2),
           Shrinks(ob, ob2), Unopposed(o, lv, ob)
    PROVE  Unopposed(o, lv2, ob2)
BY DoomedStays, ShrinksKeeps DEF Unopposed

\* An evaluation under way stays balanced.
LEMMA BalancedStays ==
    ASSUME NEW o, o.key \in Bindings, NEW lv, NEW lv2, NEW ob, NEW ob2, Advances(o, lv, lv2),
           Shrinks(ob, ob2), Balanced(o, lv, ob)
    PROVE  Balanced(o, lv2, ob2)
<1>. DEFINE self == o.list[o.key]
<1>1. ASSUME NEW c \in Rivals[o.key] \ o.todo, o.plans[c] = NoPlan PROVE NoOutput(ob2, c)
  <2>1. c \in Bindings /\ NoOutput(ob, c)
    BY <1>1, RivalsFacts DEF Balanced
  <2>. QED
    BY <2>1, ShrinksKeeps
<1>2. ASSUME NEW b \in Bindings
      PROVE  /\ o.plans[b] # NoPlan => o.plans[b] \in Outcomes[b]
             /\ LeadsToOutput(ob2, b, o.list[b])
  BY ShrinksKeeps DEF Balanced
<1>3. o.key \in o.todo \/ o.plans[o.key] = o.plan \/ Doomed(o, lv2)
  BY DoomedStays DEF Balanced
<1>4. o.key \in o.todo /\ self.deleting =>
         self.rv > o.main.rv /\ (StillPending(o, lv2) => self.rec = o.main.rec)
  BY DEF Balanced, Advances
<1>. QED
  BY <1>1, <1>2, <1>3, <1>4 DEF Balanced

\* So does a helper that was entered.
LEMMA EnteredStays ==
    ASSUME NEW o, o.key \in Bindings, NEW lv, NEW lv2, NEW ob, NEW ob2, Advances(o, lv, lv2),
           Shrinks(ob, ob2), Entered(o, lv, ob)
    PROVE  Entered(o, lv2, ob2)
BY UnopposedStays, BalancedStays DEF Entered

\* So does the memory, if the fetched copy agrees with the cache.
LEMMA WeighedStays ==
    ASSUME NEW o,
           NEW lv, NEW lv2, NEW ch, NEW ch2, NEW ob, NEW ob2,
           o.pc \notin {"idle", "status"} =>
               o.key \in Bindings /\ Advances(o, lv, lv2) /\ MainOK(o, lv2, ch2),
           Shrinks(ob, ob2), Weighed(o, lv, ch, ob)
    PROVE  Weighed(o, lv2, ch2, ob2)
BY UnopposedStays, BalancedStays, EnteredStays DEF Weighed

-----------------------------------------------------------------------------
(* The operator's memory, step by step. *)

\* Memories o and o2 hold the same bindings and are equally far in the evaluation.
SameCase(o, o2) ==
    /\ o2.key = o.key /\ o2.main = o.main /\ o2.plan = o.plan
    /\ o2.plans = o.plans /\ o2.list = o.list /\ o2.todo = o.todo

\* Then the same holds of them.
LEMMA SameCaseKeeps ==
    ASSUME NEW o, NEW o2, NEW lv, NEW ch, NEW ob, SameCase(o, o2)
    PROVE  /\ MainOK(o, lv, ch) => MainOK(o2, lv, ch)
           /\ Unopposed(o, lv, ob) => Unopposed(o2, lv, ob)
           /\ Balanced(o, lv, ob) => Balanced(o2, lv, ob)
BY DEF SameCase, MainOK, Unopposed, Balanced, Doomed, StillPending

\* A helper is under way in memory o, for a reconcile in good order.
Waiting(o, lv, ch, ob) ==
    /\ Called(o)
    /\ o.plan # NoPlan => o.plan \in Outcomes[o.key]
    /\ MainOK(o, lv, ch)
    /\ Entered(o, lv, ob)
    /\ o.list[o.key].rv <= lv[o.key].rv

\* So it is in a memory that differs in the observation or the mode only.
LEMMA WaitingKeeps ==
    ASSUME NEW o, NEW o2 \in OpStates, NEW lv, NEW ch, NEW ob, SameCase(o, o2), o2.who = o.who,
           o2.ret = o.ret, Waiting(o, lv, ch, ob)
    PROVE  Waiting(o2, lv, ch, ob)
<1>1. Called(o2)
  BY DEF Waiting, Called, SameCase
<1>2. MainOK(o2, lv, ch) /\ Entered(o2, lv, ob)
  BY SameCaseKeeps DEF Waiting, Entered, SameCase
<1>. QED
  BY <1>1, <1>2 DEF Waiting, SameCase

\* While the operator is idle or about to patch the status, the memory promises nothing.
LEMMA RestingWeighed ==
    ASSUME NEW o, NEW lv, NEW ch, NEW ob, o.pc \in {"idle", "status"} PROVE Weighed(o, lv, ch, ob)
BY DEF Weighed

\* The reconcile is over, but for the status (Finish).
LEMMA FinishWeighed ==
    ASSUME NEW o, NEW cond, NEW lv, NEW ch, NEW ob
    PROVE  Weighed(Finish(o, cond), lv, ch, ob) /\ Weighed(IdleOp, lv, ch, ob)
<1>1. Finish(o, cond).pc = "status" /\ IdleOp.pc = "idle"
  BY DEF Finish, IdleOp
<1>. QED
  BY <1>1 DEF Weighed

\* A helper is at one of its calls.
LEMMA CallWeighed ==
    ASSUME NEW o, NEW lv, NEW ch, NEW ob, Waiting(o, lv, ch, ob), o.mode \in {"cleanup", "list"},
           o.pc \in {"observe", "confirm", "clear", "delete"}
    PROVE  Weighed(o, lv, ch, ob)
<1>1. o.mode # "apply"
  OBVIOUS
<1>2. o.pc \notin {"addFinalizer", "render", "list", "evaluate", "renderPeer", "apply", "reserve", "create"}
  OBVIOUS
<1>. QED
  BY <1>1, <1>2 DEF Weighed, Waiting

\* Going on with the next listed binding (NextPeer).
LEMMA NextPeerWeighed ==
    ASSUME NEW o \in OpStates, NEW lv, NEW ch, NEW ob, o.key \in Bindings, ~o.main.deleting,
           o.plan # NoPlan => o.plan \in Outcomes[o.key], MainOK(o, lv, ch), Balanced(o, lv, ob),
           o.who \in Rivals[o.key] => o.plans[o.who] # NoPlan \/ NoOutput(ob, o.who),
           o.who = o.key => o.plans[o.key] = o.plan \/ Doomed(o, lv)
    PROVE  Weighed(NextPeer(o), lv, ch, ob)
<1>. DEFINE o2 == NextPeer(o)
<1>1. o2 = [o EXCEPT !.pc = "evaluate", !.todo = o.todo \ {o.who}, !.seen = AbsentObject]
  BY DEF NextPeer
<1>. HIDE DEF o2
<1>2. /\ o2.pc = "evaluate" /\ o2.key = o.key /\ o2.main = o.main /\ o2.plan = o.plan
      /\ o2.plans = o.plans /\ o2.list = o.list /\ o2.todo = o.todo \ {o.who}
  BY <1>1 DEF OpStates
<1>3. StillPending(o2, lv) = StillPending(o, lv) /\ Doomed(o2, lv) = Doomed(o, lv)
  BY <1>2 DEF StillPending, Doomed
<1>4. MainOK(o2, lv, ch)
  BY <1>2, <1>3 DEF MainOK
<1>5. Balanced(o2, lv, ob)
  <2>1. ASSUME NEW c \in Rivals[o2.key] \ o2.todo, o2.plans[c] = NoPlan PROVE NoOutput(ob, c)
    BY <1>2, <2>1 DEF Balanced
  <2>2. o2.key \in o2.todo \/ o2.plans[o2.key] = o2.plan \/ Doomed(o2, lv)
    BY <1>2, <1>3 DEF Balanced
  <2>3. ASSUME NEW b \in Bindings
        PROVE  /\ o2.plans[b] # NoPlan => o2.plans[b] \in Outcomes[b]
               /\ LeadsToOutput(ob, b, o2.list[b])
    BY <1>2 DEF Balanced
  <2>4. o2.key \in o2.todo /\ o2.list[o2.key].deleting =>
           /\ o2.list[o2.key].rv > o2.main.rv
           /\ StillPending(o2, lv) => o2.list[o2.key].rec = o2.main.rec
    BY <1>2, <1>3 DEF Balanced
  <2>. QED
    BY <2>1, <2>2, <2>3, <2>4 DEF Balanced
<1>6. Weighed(o2, lv, ch, ob)
  BY <1>2, <1>4, <1>5 DEF Weighed
<1>. QED
  BY <1>6 DEF o2

\* A copy without record that is being deleted belongs to a binding without output.
LEMMA UnclaimedLeadsNowhere ==
    ASSUME NEW ob, NEW b, NEW copy, LeadsToOutput(ob, b, copy), copy.deleting, copy.rec = Unclaimed
    PROVE  NoOutput(ob, b)
<1>1. copy.rec.name \notin Names
  BY UnclaimedFields, ConstantsAssumption
<1>. QED
  BY <1>1 DEF LeadsToOutput, NoOutput

\* Returning from listManagedClusterSPIFFEIDs (Listed).
LEMMA ListedWeighed ==
    ASSUME NEW o, NEW lv, NEW ch, NEW ob, Waiting(o, lv, ch, ob), NEW found \in BOOLEAN,
           found \/ Copy(o, o.who).rec = Unclaimed, lv \in [Bindings -> BindingStates]
    PROVE  Weighed(Listed(o, found), lv, ch, ob)
<1>. DEFINE o2 == Listed(o, found)
<1>0. /\ o \in OpStates /\ o.key \in Bindings /\ MainOK(o, lv, ch) /\ Entered(o, lv, ob)
      /\ o.plan # NoPlan => o.plan \in Outcomes[o.key]
      /\ o.ret \in {"finalize", "stateError", "rename", "deletingPeer", "brokenPeer", "withdraw"}
      /\ o.main.deleting => o.ret = "finalize"
  BY DEF Waiting, Called, Entered, OpStates
<1>1. CASE \/ o.ret = "finalize" /\ found
           \/ o.ret = "stateError"
           \/ o.ret \in {"rename", "withdraw"} /\ found
  <2>1. o2 = IdleOp \/ \E cond : o2 = Finish(o, cond)
    BY <1>1 DEF Listed
  <2>. QED
    BY <2>1, FinishWeighed
<1>2. CASE o.ret \in {"finalize", "rename"} /\ ~found
  <2>1. o2 = [o EXCEPT !.pc = IF o.ret = "rename" THEN "apply" ELSE "removeFinalizer"]
    BY <1>2 DEF Listed
  <2>. HIDE DEF o2
  <2>2. SameCase(o, o2) /\ o2.pc = IF o.ret = "rename" THEN "apply" ELSE "removeFinalizer"
    BY <1>0, <2>1 DEF OpStates, SameCase
  <2>3. MainOK(o2, lv, ch) /\ (o.ret = "rename" => Unopposed(o2, lv, ob))
    BY <1>0, <2>2, SameCaseKeeps DEF Entered
  <2>4. Weighed(o2, lv, ch, ob)
    BY <1>0, <1>2, <2>2, <2>3 DEF Weighed, SameCase
  <2>. QED
    BY <2>4 DEF o2
<1>3. CASE o.ret = "deletingPeer" /\ found
  <2>1. o2 = [o EXCEPT !.pc = "renderPeer"]
    BY <1>3 DEF Listed
  <2>. HIDE DEF o2
  <2>2. SameCase(o, o2) /\ o2.pc = "renderPeer"
    BY <1>0, <2>1 DEF OpStates, SameCase
  <2>3. MainOK(o2, lv, ch) /\ Balanced(o2, lv, ob)
    BY <1>0, <1>3, <2>2, SameCaseKeeps DEF Entered
  <2>4. Weighed(o2, lv, ch, ob)
    BY <1>0, <1>3, <2>2, <2>3 DEF Weighed, SameCase
  <2>. QED
    BY <2>4 DEF o2
<1>4. CASE o.ret = "deletingPeer" /\ ~found
  <2>1. /\ o2 = NextPeer(o) /\ ~o.main.deleting /\ Balanced(o, lv, ob)
        /\ o.who \in Bindings /\ o.who # Main /\ o.list[o.who].deleting
    BY <1>0, <1>4, ConstantsAssumption DEF Listed, Entered, Waiting, Called
  <2>2. o.list[o.who].rec = Unclaimed
    BY <1>4, <2>1 DEF Copy
  <2>3. NoOutput(ob, o.who)
    BY <2>1, <2>2, UnclaimedLeadsNowhere DEF Balanced
  <2>4. o.who = o.key => o.plans[o.key] = o.plan \/ Doomed(o, lv)
    <3>. SUFFICES ASSUME o.who = o.key, o.key \in o.todo PROVE Doomed(o, lv)
      BY <2>1 DEF Balanced
    <3>1. o.list[o.key].rv > o.main.rv /\ (StillPending(o, lv) => o.main.rec = Unclaimed)
      BY <2>1, <2>2 DEF Balanced
    <3>2. ~StillPending(o, lv)
      BY <3>1, UnclaimedFields DEF StillPending
    <3>3. o.list[o.key].rv \in Nat /\ o.main.rv \in Nat /\ lv[o.key].rv \in Nat
      BY <1>0 DEF OpStates, BindingStates
    <3>4. o.main.rv < lv[o.key].rv
      <4>1. PICK i, j, k : i = o.main.rv /\ j = o.list[o.key].rv /\ k = lv[o.key].rv
        OBVIOUS
      <4>2. i \in Nat /\ j \in Nat /\ k \in Nat /\ j > i /\ j <= k
        BY <3>1, <3>3, <4>1 DEF Waiting
      <4>3. i < j
        BY <4>2, Versions
      <4>4. i < k
        BY <4>2, <4>3, EarlierVersion
      <4>. QED
        BY <4>1, <4>4
    <3>. QED
      BY <3>2, <3>4 DEF Doomed
  <2>. QED
    BY <1>0, <2>1, <2>3, <2>4, NextPeerWeighed
<1>5. CASE o.ret = "brokenPeer"
  <2>. DEFINE o1 == [o EXCEPT !.blocked = IF found THEN @ \cup {o.who} ELSE @]
  <2>1. o2 = NextPeer(o1)
    BY <1>5 DEF Listed
  <2>2. o.who \in Bindings /\ o.who \notin Rivals[o.key] \cup {o.key} /\ Balanced(o, lv, ob) /\ ~o.main.deleting
    BY <1>0, <1>5 DEF Waiting, Called, Entered
  <2>3. o1 \in OpStates
    BY <1>0, <2>2 DEF OpStates
  <2>4. SameCase(o, o1) /\ o1.who = o.who
    BY <1>0 DEF OpStates, SameCase
  <2>. HIDE DEF o1, o2
  <2>5. MainOK(o1, lv, ch) /\ Balanced(o1, lv, ob)
    BY <1>0, <2>2, <2>4, SameCaseKeeps
  <2>6. Weighed(NextPeer(o1), lv, ch, ob)
    BY <1>0, <2>2, <2>3, <2>4, <2>5, NextPeerWeighed DEF SameCase
  <2>. QED
    BY <2>1, <2>6 DEF o2
<1>6. CASE o.ret = "withdraw" /\ ~found
  <2>1. o2 = [o EXCEPT !.pc = "confirmAbsent", !.todo = o.todo \ {o.who}]
    BY <1>6 DEF Listed
  <2>. HIDE DEF o2
  <2>2. o2.pc = "confirmAbsent" /\ o2.key = o.key /\ o2.main = o.main /\ o2.plan = o.plan
    BY <1>0, <2>1 DEF OpStates
  <2>3. MainOK(o2, lv, ch)
    BY <1>0, <2>2 DEF MainOK, StillPending
  <2>4. Weighed(o2, lv, ch, ob)
    BY <1>0, <1>6, <2>2, <2>3 DEF Weighed
  <2>. QED
    BY <2>4 DEF o2
<1>. QED
  BY <1>0, <1>1, <1>2, <1>3, <1>4, <1>5, <1>6

\* Entering listManagedClusterSPIFFEIDs (ListManaged).
LEMMA ListManagedWeighed ==
    ASSUME NEW o \in OpStates, NEW lv, NEW ch, NEW ob, NEW x \in Bindings \cup {Main}, NEW ret, NEW call,
           call = [o EXCEPT !.pc = "observe", !.who = x, !.mode = "list", !.ret = ret],
           Waiting(call, lv, ch, ob), lv \in [Bindings -> BindingStates]
    PROVE  Weighed(ListManaged(o, x, ret), lv, ch, ob)
<1>1. /\ call.pc = "observe" /\ call.who = x /\ call.mode = "list" /\ call.ret = ret
      /\ call.main = o.main /\ call.list = o.list
  BY DEF OpStates
<1>2. Copy(call, call.who) = Copy(o, x)
  <2>1. Copy(call, x) = Copy(o, x)
    <3>1. CASE x = Main
      BY <1>1, <3>1 DEF Copy
    <3>2. CASE x # Main
      <4>1. Copy(call, x) = call.list[x] /\ Copy(o, x) = o.list[x]
        BY <3>2 DEF Copy
      <4>. QED
        BY <1>1, <4>1
    <3>. QED
      BY <3>1, <3>2
  <2>. QED
    BY <1>1, <2>1
<1>3. Copy(o, x).rec \in Records
  BY DEF Copy, OpStates, BindingStates
<1>4. ListManaged(o, x, ret)
      = IF Copy(o, x).rec.kind = "unclaimed" THEN Listed(call, FALSE) ELSE call
  BY DEF ListManaged
<1>5. CASE Copy(o, x).rec.kind = "unclaimed"
  <2>1. Copy(call, call.who).rec = Unclaimed
    BY <1>2, <1>3, <1>5 DEF Records, WellFormed
  <2>2. Weighed(Listed(call, FALSE), lv, ch, ob)
    BY <2>1, ListedWeighed
  <2>. QED
    BY <1>4, <1>5, <2>2
<1>6. CASE Copy(o, x).rec.kind # "unclaimed"
  <2>1. Weighed(call, lv, ch, ob)
    BY <1>1, CallWeighed
  <2>. QED
    BY <1>4, <1>6, <2>1
<1>. QED
  BY <1>5, <1>6

\* Returning from cleanupManagedClusterSPIFFEIDs (CleanedUp).
LEMMA CleanedUpWeighed ==
    ASSUME NEW o, NEW lv, NEW ch, NEW ob, Waiting(o, lv, ch, ob), lv \in [Bindings -> BindingStates]
    PROVE  Weighed(CleanedUp(o), lv, ch, ob)
<1>1. o \in OpStates /\ o.who \in Bindings \cup {Main}
  BY DEF Waiting, Called, OpStates
<1>2. CASE o.ret = "withdraw"
  <2>. DEFINE o2 == [o EXCEPT !.pc = "withdraw", !.todo = o.todo \ {o.who}]
  <2>1. CleanedUp(o) = o2
    BY <1>2 DEF CleanedUp
  <2>2. o2.pc = "withdraw" /\ o2.key = o.key /\ o2.main = o.main /\ o2.plan = o.plan
    BY <1>1 DEF OpStates
  <2>. HIDE DEF o2
  <2>3. ~o2.main.deleting
    BY <1>2, <2>2 DEF Waiting, Entered
  <2>4. MainOK(o2, lv, ch)
    BY <2>2 DEF Waiting, MainOK, StillPending
  <2>5. Weighed(o2, lv, ch, ob)
    BY <2>2, <2>3, <2>4 DEF Weighed, Waiting
  <2>. QED
    BY <2>1, <2>5
<1>3. CASE o.ret # "withdraw"
  <2>1. PICK x, ret, call :
          /\ x = o.who /\ ret = o.ret
          /\ call = [o EXCEPT !.pc = "observe", !.who = x, !.mode = "list", !.ret = ret]
    OBVIOUS
  <2>2. CleanedUp(o) = ListManaged(o, x, ret)
    BY <1>3, <2>1 DEF CleanedUp
  <2>3. call \in OpStates
    <3>1. call = [o EXCEPT !.pc = "observe", !.who = o.who, !.mode = "list", !.ret = o.ret]
      BY <2>1
    <3>. QED
      BY <1>1, <3>1 DEF OpStates, Steps
  <2>4. SameCase(o, call) /\ call.who = o.who /\ call.ret = o.ret
    BY <1>1, <2>1 DEF OpStates, SameCase
  <2>5. Waiting(call, lv, ch, ob)
    BY <2>3, <2>4, WaitingKeeps
  <2>6. Weighed(ListManaged(o, x, ret), lv, ch, ob)
    BY <1>1, <2>1, <2>5, ListManagedWeighed
  <2>. QED
    BY <2>2, <2>6
<1>. QED
  BY <1>2, <1>3

\* Entering cleanupManagedClusterSPIFFEIDs (CleanUp).
LEMMA CleanUpWeighed ==
    ASSUME NEW o \in OpStates, NEW lv, NEW ch, NEW ob, NEW x \in Bindings \cup {Main}, NEW ret, NEW call,
           call = [o EXCEPT !.pc = "observe", !.who = x, !.mode = "cleanup", !.ret = ret],
           Waiting(call, lv, ch, ob), lv \in [Bindings -> BindingStates]
    PROVE  Weighed(CleanUp(o, x, ret), lv, ch, ob)
<1>1. call.pc = "observe" /\ call.mode = "cleanup"
  BY DEF OpStates
<1>2. CleanUp(o, x, ret) = IF Copy(o, x).rec.kind = "unclaimed" THEN CleanedUp(call) ELSE call
  BY DEF CleanUp
<1>3. Weighed(CleanedUp(call), lv, ch, ob) /\ Weighed(call, lv, ch, ob)
  BY <1>1, CleanedUpWeighed, CallWeighed
<1>. QED
  BY <1>2, <1>3

\* Going on once the record agrees with the observation (Settled).
LEMMA SettledWeighed ==
    ASSUME NEW o \in OpStates, NEW lv, NEW ch, NEW ob, NEW found \in BOOLEAN,
           lv \in [Bindings -> BindingStates], o.mode # "",
           o.mode \in {"cleanup", "list"} => Waiting(o, lv, ch, ob),
           o.mode = "apply" =>
               /\ o.key \in Bindings /\ MainOK(o, lv, ch) /\ ~o.main.deleting
               /\ o.plan # NoPlan => o.plan \in Outcomes[o.key]
               /\ Unopposed(o, lv, ob),
           found \/ Copy(o, o.who).rec = Unclaimed
    PROVE  Weighed(Settled(o, found), lv, ch, ob)
<1>. DEFINE o2 == Settled(o, found)
<1>0. o.mode \in {"cleanup", "list", "apply", "created"}
  BY DEF OpStates
<1>1. CASE o.mode = "cleanup" /\ found
  <2>1. o2 = [o EXCEPT !.pc = "delete"]
    BY <1>1 DEF Settled
  <2>. HIDE DEF o2
  <2>2. /\ SameCase(o, o2) /\ o2.pc = "delete" /\ o2.mode = "cleanup"
        /\ o2.who = o.who /\ o2.ret = o.ret
    BY <1>1, <2>1 DEF OpStates, SameCase
  <2>3. o2 \in OpStates
    BY <2>1 DEF OpStates, Steps
  <2>4. Waiting(o2, lv, ch, ob)
    BY <1>1, <2>2, <2>3, WaitingKeeps
  <2>5. Weighed(o2, lv, ch, ob)
    BY <2>2, <2>4, CallWeighed
  <2>. QED
    BY <2>5 DEF o2
<1>2. CASE o.mode = "cleanup" /\ ~found
  BY <1>2, CleanedUpWeighed DEF Settled
<1>3. CASE o.mode = "list"
  BY <1>3, ListedWeighed DEF Settled
<1>4. CASE o.mode = "created" \/ (o.mode = "apply" /\ ~found /\ o.seen.there)
  <2>1. \E cond : o2 = Finish(o, cond)
    BY <1>4 DEF Settled, ApplyFailed
  <2>. QED
    BY <2>1, FinishWeighed
<1>5. CASE o.mode = "apply" /\ (found \/ ~o.seen.there)
  <2>1. o2 = [o EXCEPT !.pc = IF found THEN "update" ELSE "reserve"]
    BY <1>5 DEF Settled
  <2>. HIDE DEF o2
  <2>2. SameCase(o, o2) /\ o2.pc = IF found THEN "update" ELSE "reserve"
    BY <2>1 DEF OpStates, SameCase
  <2>3. MainOK(o2, lv, ch) /\ Unopposed(o2, lv, ob)
    BY <1>5, <2>2, SameCaseKeeps
  <2>4. Weighed(o2, lv, ch, ob)
    BY <1>5, <2>2, <2>3 DEF Weighed, SameCase
  <2>. QED
    BY <2>4 DEF o2
<1>. QED
  BY <1>0, <1>1, <1>2, <1>3, <1>4, <1>5

-----------------------------------------------------------------------------
(* What a step does to the bindings and objects. *)

\* A record becomes pending, or comes into being, only by a reservation on top of the
\* fetched copy (reserveClusterSPIFFEIDClaim).
LEMMA RecordChanges ==
    ASSUME ReconcilerInvariant, [Next]_vars, NEW b \in Bindings
    PROVE  \/ live'[b].rec = live[b].rec
           \/ live'[b].rec.kind # "pending" /\ live[b].rec # Unclaimed
           \/ (\E r \in Replies : Reserve(r)) /\ b = op.key /\ op.main = live[b]
<1>. DEFINE Changes == \/ live'[b].rec = live[b].rec
                       \/ live'[b].rec.kind # "pending" /\ live[b].rec # Unclaimed
                       \/ (\E r \in Replies : Reserve(r)) /\ b = op.key /\ op.main = live[b]
<1>1. ASSUME NEW rec, NEW r, NEW next, PatchOwnership(r, Recorded(rec), next), op.pc \in {"confirm", "clear"},
             rec \in Records, rec.kind # "pending"
      PROVE  Changes
  <2>1. op.key \in Bindings /\ Copy(op, op.who).rec.kind # "unclaimed"
    BY <1>1, OpFacts DEF Shape
  <2>2. PICK x, new : x = Target(op.who) /\ new = Recorded(rec)
    OBVIOUS
  <2>3. new.rec = rec
    BY <1>1, <2>1, <2>2, RecordedFields
  <2>4. /\ x \in Bindings
        /\ \/ live' = live
           \/ Copy(op, op.who) = live[x] /\ live'[x] = new /\ OnlyRecord(x)
    BY <1>1, <2>1, <2>2, PatchWrites
  <2>5. Copy(op, op.who) = live[x] => live[x].rec # Unclaimed
    BY <2>1, UnclaimedFields
  <2>. QED
    BY <1>1, <2>3, <2>4, <2>5 DEF OnlyRecord
<1>2. ASSUME NEW r \in Replies, Confirm(r) PROVE Changes
  <2>1. PICK rec, next : /\ PatchOwnership(r, Recorded(rec), next) /\ op.pc = "confirm"
                         /\ rec = Confirmed(Copy(op, op.who).rec.name, op.seen.uid)
    BY <1>2 DEF Confirm
  <2>2. rec.kind # "pending"
    <3>1. PICK n, u : n = Copy(op, op.who).rec.name /\ u = op.seen.uid
      OBVIOUS
    <3>2. Confirmed(n, u).kind = "confirmed"
      BY ConfirmedFields
    <3>. QED
      BY <2>1, <3>1, <3>2
  <2>3. rec \in Records
    <3>1. op.key \in Bindings /\ op.seen \in ObjectStates /\ Copy(op, op.who).rec.kind = "pending"
      BY <2>1, OpFacts DEF Shape
    <3>2. Copy(op, op.who).rec \in Records
      BY <3>1, PursuedCopy
    <3>3. Copy(op, op.who).rec.name \in Names
      BY <3>1, <3>2 DEF Records, WellFormed
    <3>4. op.seen.uid \in Nat
      BY <3>1 DEF ObjectStates
    <3>. QED
      BY <2>1, <3>3, <3>4, RecordTypes
  <2>. QED
    BY <1>1, <2>1, <2>2, <2>3
<1>3. ASSUME NEW r \in Replies, Clear(r) PROVE Changes
  <2>1. PICK rec, next : /\ PatchOwnership(r, Recorded(rec), next) /\ op.pc = "clear" /\ rec = Unclaimed
    BY <1>3 DEF Clear
  <2>2. rec.kind # "pending" /\ rec \in Records
    BY <2>1, UnclaimedFields, RecordTypes
  <2>. QED
    BY <1>1, <2>1, <2>2
<1>4. ASSUME NEW r \in Replies, Reserve(r) PROVE Changes
  <2>1. op.key \in Bindings /\ op.who = Main
    BY <1>4, OpFacts DEF Shape, Reserve
  <2>2. Target(op.who) = op.key /\ Copy(op, op.who) = op.main
    BY <2>1 DEF Target, Copy
  <2>3. PICK new, next : PatchOwnership(r, new, next)
    BY <1>4 DEF Reserve
  <2>4. \/ live' = live
        \/ Copy(op, op.who) = live[op.key] /\ OnlyRecord(op.key)
    BY <2>1, <2>2, <2>3, PatchWrites
  <2>. QED
    BY <1>4, <2>2, <2>4 DEF OnlyRecord
<1>. QED
  BY <1>2, <1>3, <1>4, RecordsStay, BindingWriters

\* Every write of a binding gives it the next resource version.
LEMMA VersionsGrow ==
    ASSUME ReconcilerInvariant, [Next]_vars, NEW b \in Bindings
    PROVE  live'[b] = live[b] \/ live'[b].rv = live[b].rv + 1
<1>. DEFINE Grown == live'[b] = live[b] \/ live'[b].rv = live[b].rv + 1
<1>1. live \in [Bindings -> BindingStates] /\ live[b].rv \in Nat
  BY LiveFacts
<1>2. ASSUME NEW x \in Bindings, NEW new, live' = [live EXCEPT ![x] = new], new.rv = live[x].rv + 1
      PROVE  Grown
  <2>1. CASE x = b
    <3>1. live'[b] = new
      BY <1>1, <1>2, <2>1
    <3>. QED
      BY <1>2, <2>1, <3>1
  <2>2. CASE x # b
    <3>1. live'[b] = live[b]
      BY <1>1, <1>2, <2>2
    <3>. QED
      BY <3>1
  <2>. QED
    BY <2>1, <2>2
<1>3. ASSUME live' = live PROVE Grown
  BY <1>3
<1>4. ASSUME NEW rv, NEW s \in Specs PROVE AbsentBinding(rv).rv = rv /\ NewBinding(s, rv).rv = rv
  BY DEF AbsentBinding, NewBinding
<1>5. ASSUME NEW x \in Bindings PROVE live[x] \in BindingStates
  BY <1>1
<1>6. ASSUME NEW x \in Bindings, NEW s \in Specs, CreateBinding(x, s) PROVE Grown
  <2>1. PICK rv, new : rv = live[x].rv + 1 /\ new = NewBinding(s, rv)
    OBVIOUS
  <2>2. live' = [live EXCEPT ![x] = new] /\ new.rv = live[x].rv + 1
    BY <1>4, <1>6, <2>1 DEF CreateBinding
  <2>. QED
    BY <1>2, <2>2
<1>7. ASSUME NEW x \in Bindings, NEW s \in Specs, EditBinding(x, s) PROVE Grown
  <2>. DEFINE new == [live[x] EXCEPT !.spec = s, !.rv = live[x].rv + 1]
  <2>2. live' = [live EXCEPT ![x] = new]
    BY <1>1, <1>5, <1>7 DEF EditBinding
  <2>3. new.rv = live[x].rv + 1
    BY <1>5 DEF BindingStates
  <2>. HIDE DEF new
  <2>. QED
    BY <1>2, <2>2, <2>3
<1>8. ASSUME NEW x \in Bindings, DeleteBinding(x) PROVE Grown
  <2>1. CASE live[x].fin
    <3>. DEFINE new == [live[x] EXCEPT !.deleting = TRUE, !.rv = live[x].rv + 1]
    <3>2. live' = [live EXCEPT ![x] = new]
      BY <1>1, <1>5, <1>8, <2>1 DEF DeleteBinding
    <3>3. new.rv = live[x].rv + 1
      BY <1>5 DEF BindingStates
    <3>. HIDE DEF new
    <3>. QED
      BY <1>2, <3>2, <3>3
  <2>2. CASE ~live[x].fin
    <3>1. PICK rv, new : rv = live[x].rv + 1 /\ new = AbsentBinding(rv)
      OBVIOUS
    <3>2. live' = [live EXCEPT ![x] = new] /\ new.rv = rv
      BY <1>8, <2>2, <3>1 DEF DeleteBinding, AbsentBinding
    <3>. QED
      BY <1>2, <3>1, <3>2
  <2>. QED
    BY <2>1, <2>2
<1>9. ASSUME Users PROVE Grown
  <2>1. ASSUME NEW p \in Pools, ChangePool(p) PROVE live' = live
    BY <2>1 DEF ChangePool
  <2>. QED
    BY <1>3, <1>6, <1>7, <1>8, <1>9, <2>1 DEF Users
<1>10. ASSUME NEW r \in Replies, AddFinalizer(r) \/ RemoveFinalizer(r) \/ PatchStatus(r)
       PROVE  Grown
  <2>1. PICK x \in Bindings : x = op.key
    BY <1>10, OpFacts DEF AddFinalizer, RemoveFinalizer, PatchStatus
  <2>2. CASE AddFinalizer(r)
    <3>1. PICK new : new = [live[x] EXCEPT !.fin = TRUE, !.rv = @ + 1]
      OBVIOUS
    <3>2. live' = live \/ live' = [live EXCEPT ![x] = new]
      BY <2>1, <2>2, <3>1 DEF AddFinalizer
    <3>3. new.rv = live[x].rv + 1
      BY <1>5, <3>1 DEF BindingStates
    <3>. QED
      BY <1>2, <1>3, <3>2, <3>3
  <2>3. CASE RemoveFinalizer(r)
    <3>1. PICK rv, new : rv = live[x].rv + 1 /\ new = AbsentBinding(rv)
      OBVIOUS
    <3>2. live' = live \/ live' = [live EXCEPT ![x] = new]
      BY <2>1, <2>3, <3>1 DEF RemoveFinalizer
    <3>3. new.rv = rv
      BY <3>1 DEF AbsentBinding
    <3>. QED
      BY <1>2, <1>3, <3>1, <3>2, <3>3
  <2>4. CASE PatchStatus(r)
    <3>. DEFINE shown == IF op.want = "Ready" THEN op.plan ELSE NoPlan
                new == [live[x] EXCEPT !.cond = op.want, !.shown = shown, !.rv = live[x].rv + 1]
    <3>1. live' = live \/ live' = [live EXCEPT ![x] = new]
      BY <1>1, <1>5, <2>1, <2>4 DEF PatchStatus
    <3>2. new.rv = live[x].rv + 1
      BY <1>5 DEF BindingStates
    <3>. HIDE DEF new
    <3>. QED
      BY <1>2, <1>3, <3>1, <3>2
  <2>. QED
    BY <1>10, <2>2, <2>3, <2>4
<1>11. ASSUME NEW r \in Replies, Confirm(r) \/ Clear(r) \/ Reserve(r) PROVE Grown
  <2>1. PICK x \in Bindings : x = Target(op.who)
    <3>1. op.key \in Bindings
      BY <1>11, OpFacts DEF Confirm, Clear, Reserve
    <3>. QED
      BY <3>1, PursuedCopy
  <2>2. ASSUME NEW rec, NEW new, new = Recorded(rec) PROVE new.rv = live[x].rv + 1
    BY <1>5, <2>1, <2>2 DEF Recorded, BindingStates
  <2>3. CASE Confirm(r) \/ Clear(r)
    <3>1. PICK rec, new, next : new = Recorded(rec) /\ PatchOwnership(r, new, next)
      BY <2>3 DEF Confirm, Clear
    <3>2. live' = live \/ live' = [live EXCEPT ![x] = new]
      BY <2>1, <3>1 DEF PatchOwnership
    <3>3. new.rv = live[x].rv + 1
      BY <2>2, <3>1
    <3>. QED
      BY <1>2, <1>3, <3>2, <3>3
  <2>4. CASE Reserve(r)
    <3>1. PICK rec, new, next : /\ new = [Recorded(rec) EXCEPT !.cond = "PendingOutput", !.shown = NoPlan]
                                /\ PatchOwnership(r, new, next)
      BY <2>4 DEF Reserve
    <3>2. live' = live \/ live' = [live EXCEPT ![x] = new]
      BY <2>1, <3>1 DEF PatchOwnership
    <3>3. new.rv = live[x].rv + 1
      BY <1>5, <2>1, <3>1 DEF Recorded, BindingStates
    <3>. QED
      BY <1>2, <1>3, <3>2, <3>3
  <2>. QED
    BY <1>11, <2>3, <2>4
<1>. QED
  BY <1>3, <1>9, <1>10, <1>11, BindingWriters

\* A step that creates nothing but under the stored claim (CreateUnderClaim).
ClaimedStep ==
    op' # op => \A n \in Names :
        ~object[n].there /\ object'[n].there => live[op.key].rec = Pending(n, object'[n].claim)

\* The binding an output was made for owns it.
LEMMA OutputOwned ==
    ASSUME NoOrphan, NeverAdopts, NEW b \in Bindings, NEW n \in Names, HasOutput(object, b, n)
    PROVE  Owns(b, n)
BY DEF NoOrphan, NeverAdopts, HasOutput

\* As above, in the next state.
LEMMA OutputOwnedNext ==
    ASSUME NoOrphan', NeverAdopts', NEW b \in Bindings, NEW n \in Names, HasOutput(object', b, n)
    PROVE  live'[b].rec.name = n /\ Matches(live'[b].rec, object'[n])
BY DEF NoOrphan, NeverAdopts, HasOutput, Owns

\* The output a Create under the stored claim makes (createManagedClusterSPIFFEID).
LEMMA OutputMade ==
    ASSUME ReconcilerInvariant, NeverAdopts', NEW r, Create(r), ClaimedStep, op' # op, NEW b \in Bindings,
           NEW n \in Names, ~object[n].there, HasOutput(object', b, n), live' = live
    PROVE  /\ b = op.key /\ n = op.plan.name
           /\ live[b].rec = op.main.rec /\ op.main.rec.kind = "pending"
           /\ object'[n].body = op.plan
<1>1. /\ op.pc = "create" /\ op.key \in Bindings /\ op.plan.name \in Names
      /\ op.main.rec = Pending(op.plan.name, op.main.rec.claim)
  BY ApplyFacts DEF Create
<1>2. PICK new : new = Desired(nextUid)
  OBVIOUS
<1>3. new.there /\ new.claim = op.main.rec.claim /\ new.body = op.plan
  BY <1>2 DEF Desired, AbsentObject
<1>4. object \in [Names -> ObjectStates]
  BY ObjectFacts
<1>5. object' = object \/ object' = [object EXCEPT ![op.plan.name] = new]
  BY <1>2 DEF Create
<1>6. n = op.plan.name /\ object'[n] = new
  <2>1. object'[n].there
    BY DEF HasOutput
  <2>2. object' = [object EXCEPT ![op.plan.name] = new]
    BY <1>5, <2>1
  <2>. QED
    BY <1>1, <1>4, <2>1, <2>2
<1>7. live[op.key].rec = Pending(n, new.claim)
  BY <1>3, <1>6 DEF ClaimedStep
<1>8. /\ live[op.key].rec = op.main.rec /\ op.main.rec.kind = "pending" /\ op.main.rec.name = n
      /\ op.main.rec.claim = object'[n].claim
  <2>1. PICK m, c : m = op.plan.name /\ c = op.main.rec.claim
    OBVIOUS
  <2>2. op.main.rec = Pending(m, c) /\ live[op.key].rec = Pending(m, c)
    BY <1>1, <1>3, <1>6, <1>7, <2>1
  <2>3. Pending(m, c).kind = "pending" /\ Pending(m, c).name = m
    BY PendingFields
  <2>4. op.main.rec.kind = "pending" /\ op.main.rec.name = m
    BY <2>2, <2>3
  <2>. QED
    BY <1>3, <1>6, <2>1, <2>2, <2>4
<1>9. PICK k \in Bindings : k = op.key
  BY <1>1
<1>10. b = op.key
  <2>1. live'[k].rec = op.main.rec
    BY <1>8, <1>9
  <2>2. live'[k].rec.name = n /\ live'[k].rec.kind = "pending"
        /\ object'[n].there /\ object'[n].claim = live'[k].rec.claim
    BY <1>3, <1>6, <1>8, <2>1
  <2>3. Owns(k, n)'
    BY <2>2 DEF Owns, Matches
  <2>4. object'[n].claim.by = k
    BY <2>3 DEF NeverAdopts
  <2>. QED
    BY <1>9, <2>4 DEF HasOutput
<1>. QED
  BY <1>3, <1>6, <1>8, <1>10

\* Where an output comes from.
LEMMA OutputSource ==
    ASSUME ReconcilerInvariant, ~LateCreates, [Next]_vars, [ClaimedStep]_vars, NeverAdopts',
           NEW b \in Bindings, NEW n \in Names, HasOutput(object', b, n)
    PROVE  \/ /\ HasOutput(object, b, n)
              /\ object'[n].uid = object[n].uid /\ object'[n].claim = object[n].claim
           \/ /\ \E r \in Replies : Create(r)
              /\ b = op.key /\ n = op.plan.name
              /\ live[b].rec = op.main.rec /\ op.main.rec.kind = "pending"
              /\ object'[n].body = op.plan
<1>1. object'[n].there /\ object'[n].own
  BY DEF HasOutput
<1>2. CASE object[n].there
  <2>1. object[n].own /\ object'[n].uid = object[n].uid
    BY <1>1, <1>2, OwnStays
  <2>2. object'[n].claim = object[n].claim
    BY <1>1, <1>2, <2>1, ClaimsStay
  <2>. QED
    BY <1>2, <2>1, <2>2 DEF HasOutput
<1>3. CASE ~object[n].there
  <2>1. (\E r \in Replies : Create(r)) /\ live' = live /\ op' # op
    BY <1>1, <1>3, OwnCreated
  <2>2. ClaimedStep
    BY <2>1 DEF vars
  <2>3. PICK r \in Replies : Create(r)
    BY <2>1
  <2>4. /\ b = op.key /\ n = op.plan.name
        /\ live[b].rec = op.main.rec /\ op.main.rec.kind = "pending"
        /\ object'[n].body = op.plan
    BY <1>3, <2>1, <2>2, <2>3, OutputMade
  <2>. QED
    BY <2>1, <2>4
<1>. QED
  BY <1>2, <1>3

\* All steps but Create leave at most the outputs that are there.
LEMMA OutputsShrink ==
    ASSUME ReconcilerInvariant, ~LateCreates, [Next]_vars, [ClaimedStep]_vars, NeverAdopts',
           ~\E r \in Replies : Create(r)
    PROVE  Shrinks(object, object')
BY OutputSource DEF Shrinks

\* The identity an object registers changes by the operator's update only, or to none the
\* operator rendered (updateManagedClusterSPIFFEID).
LEMMA BodyChanges ==
    ASSUME ReconcilerInvariant, ~LateCreates, [Next]_vars, NEW n \in Names, object[n].there,
           object'[n].there, object'[n].body # NoPlan
    PROVE  \/ object'[n].body = object[n].body
           \/ /\ \E r \in Replies : UpdateOutput(r)
              /\ n = op.plan.name /\ object[n] = op.seen /\ object'[n].body = op.plan
<1>. DEFINE Same == object'[n].body = object[n].body
            Updated == /\ \E r \in Replies : UpdateOutput(r)
                       /\ n = op.plan.name /\ object[n] = op.seen /\ object'[n].body = op.plan
<1>1. object \in [Names -> ObjectStates] /\ object[n] \in ObjectStates
  BY ObjectFacts
<1>2. CASE object' = object
  BY <1>2
<1>3. ASSUME NEW r, Delete(r) PROVE Same
  BY <1>1, <1>3, AbsentObjectType DEF Delete, ObjectStates
<1>4. ASSUME NEW r \in Replies, UpdateOutput(r) PROVE Same \/ Updated
  <2>1. op.plan.name \in Names
    BY <1>4, ApplyFacts DEF UpdateOutput
  <2>2. \/ object' = object
        \/ object[op.plan.name] = op.seen /\ object' = [object EXCEPT ![op.plan.name].body = op.plan]
    BY <1>4 DEF UpdateOutput
  <2>3. CASE n = op.plan.name /\ object' # object
    <3>1. object[n] = op.seen /\ object' = [object EXCEPT ![n].body = op.plan]
      BY <2>2, <2>3
    <3>2. object'[n].body = op.plan
      BY <1>1, <3>1 DEF ObjectStates
    <3>. QED
      BY <1>4, <2>3, <3>1, <3>2
  <2>4. CASE n # op.plan.name
    BY <1>1, <2>2, <2>4
  <2>. QED
    BY <1>2, <2>3, <2>4
<1>5. ASSUME NEW r, Create(r) PROVE Same
  BY <1>1, <1>5 DEF Create
<1>6. ASSUME NEW x \in Names, \/ OthersCreate(x) \/ OthersReplace(x) \/ OthersDelete(x)
                              \/ OthersEdit(x) \/ OthersHold(x) \/ OthersRelease(x)
      PROVE Same
  <2>1. CASE OthersCreate(x)
    BY <1>1, <2>1 DEF OthersCreate
  <2>2. CASE OthersReplace(x)
    BY <1>1, <2>2 DEF OthersReplace, ObjectStates
  <2>3. CASE OthersDelete(x)
    BY <1>1, <2>3, AbsentObjectType DEF OthersDelete, ObjectStates
  <2>4. CASE OthersEdit(x)
    BY <1>1, <2>4 DEF OthersEdit, ObjectStates
  <2>5. CASE OthersHold(x)
    BY <1>1, <2>5 DEF OthersHold, ObjectStates
  <2>6. CASE OthersRelease(x)
    BY <1>1, <2>6, AbsentObjectType DEF OthersRelease, ObjectStates
  <2>. QED
    BY <1>6, <2>1, <2>2, <2>3, <2>4, <2>5, <2>6
<1>7. inflight = {}
  BY DEF ReconcilerInvariant
<1>. QED
  BY <1>2, <1>3, <1>4, <1>5, <1>6, <1>7, ObjectWriters, ConstantsAssumption DEF Others

\* A Create that makes an output under the stored claim is not doomed, so no rival has one
\* (evaluateBindingConflicts before reconcileClusterSPIFFEIDs).
LEMMA MadeUnopposed ==
    ASSUME Weighed(op, live, Shown, object), NEW r, Create(r), live[op.key].rec = op.main.rec,
           op.main.rec.kind = "pending"
    PROVE  NoRivalOutput(object, op.key)
<1>1. op.pc = "create"
  BY DEF Create
<1>2. Unopposed(op, live, object)
  BY <1>1 DEF Weighed
<1>. QED
  BY <1>2 DEF Unopposed, Doomed, StillPending

\* Every step keeps the outputs exclusive and in line with their bindings.
LEMMA OutputsStayOK ==
    ASSUME ReconcilerInvariant, PublicationInvariant, ~LateCreates, [Next]_vars, [ClaimedStep]_vars,
           NeverAdopts, NeverAdopts', ExclusionInvariant
    PROVE  OutputsOK(object')
<1>1. OutputsOK(object) /\ Weighed(op, live, Shown, object)
  BY DEF ExclusionInvariant
<1>2. ASSUME NEW b \in Bindings, ~NoOutput(object', b), ~NoRivalOutput(object', b) PROVE FALSE
  <2>1. PICK n \in Names : HasOutput(object', b, n)
    BY <1>2 DEF NoOutput
  <2>2. PICK c \in Rivals[b], m \in Names : HasOutput(object', c, m)
    BY <1>2 DEF NoRivalOutput, NoOutput
  <2>3. c \in Bindings /\ c # b /\ b \in Rivals[c]
    BY RivalsFacts
  <2>4. CASE HasOutput(object, b, n) /\ HasOutput(object, c, m)
    BY <1>1, <2>4 DEF OutputsOK, NoOutput, NoRivalOutput
  <2>5. CASE ~HasOutput(object, b, n)
    <3>1. (\E r \in Replies : Create(r)) /\ b = op.key /\ live[b].rec = op.main.rec /\ op.main.rec.kind = "pending"
      BY <2>1, <2>5, OutputSource
    <3>2. NoRivalOutput(object, b)
      BY <1>1, <3>1, MadeUnopposed
    <3>3. HasOutput(object, c, m)
      BY <2>2, <2>3, <3>1, OutputSource
    <3>. QED
      BY <3>2, <3>3 DEF NoRivalOutput, NoOutput
  <2>6. CASE ~HasOutput(object, c, m)
    <3>1. (\E r \in Replies : Create(r)) /\ c = op.key /\ live[c].rec = op.main.rec /\ op.main.rec.kind = "pending"
      BY <2>2, <2>3, <2>6, OutputSource
    <3>2. NoRivalOutput(object, c)
      BY <1>1, <3>1, MadeUnopposed
    <3>3. HasOutput(object, b, n)
      BY <2>1, <2>3, <3>1, OutputSource
    <3>. QED
      BY <2>3, <3>2, <3>3 DEF NoRivalOutput, NoOutput
  <2>. QED
    BY <2>4, <2>5, <2>6
<1>3. ASSUME NEW b \in Bindings, NEW n \in Names, HasOutput(object', b, n), object'[n].body # NoPlan
      PROVE  object'[n].body \in Outcomes[b]
  <2>1. CASE HasOutput(object, b, n) /\ object'[n].body = object[n].body
    BY <1>1, <1>3, <2>1 DEF OutputsOK
  <2>2. CASE HasOutput(object, b, n) /\ object'[n].body # object[n].body
    <3>1. object[n].there /\ object'[n].there
      BY <1>3, <2>2 DEF HasOutput
    <3>2. /\ \E r \in Replies : UpdateOutput(r)
          /\ n = op.plan.name /\ object[n] = op.seen /\ object'[n].body = op.plan
      BY <1>3, <2>2, <3>1, BodyChanges
    <3>3. op.pc = "update" /\ op.key \in Bindings
      BY <3>2, OpFacts DEF UpdateOutput
    <3>4. live[op.key].rec = op.main.rec /\ op.main.rec = Confirmed(op.plan.name, op.seen.uid)
      BY <3>3, ApplyFacts DEF PublicationInvariant, Publishes, StoredRecords
    <3>5. live[op.key].rec.kind = "confirmed" /\ live[op.key].rec.name = n /\ live[op.key].rec.uid = object[n].uid
      <4>1. PICK u : u = op.seen.uid
        OBVIOUS
      <4>2. Confirmed(n, u).kind = "confirmed" /\ Confirmed(n, u).name = n /\ Confirmed(n, u).uid = u
        BY ConfirmedFields
      <4>. QED
        BY <3>2, <3>4, <4>1, <4>2
    <3>6. Owns(op.key, n)
      BY <3>1, <3>5 DEF Owns, Matches
    <3>7. b = op.key
      BY <2>2, <3>3, <3>6 DEF NeverAdopts, HasOutput
    <3>8. op.plan # NoPlan => op.plan \in Outcomes[op.key]
      BY <1>1, <3>3 DEF Weighed
    <3>. QED
      BY <1>3, <3>2, <3>7, <3>8
  <2>3. CASE ~HasOutput(object, b, n)
    <3>1. (\E r \in Replies : Create(r)) /\ b = op.key /\ object'[n].body = op.plan
      BY <1>3, <2>3, OutputSource
    <3>2. op.pc = "create"
      BY <3>1 DEF Create
    <3>. QED
      BY <1>1, <1>3, <3>1, <3>2 DEF Weighed
  <2>. QED
    BY <2>1, <2>2, <2>3
<1>. QED
  BY <1>2, <1>3 DEF OutputsOK

-----------------------------------------------------------------------------
(* What the cache shows. *)

\* The cache stays as it is, or catches up (SyncCache).
LEMMA CacheSteps == ASSUME [Next]_vars PROVE cache' = cache \/ cache' = live'
BY DEF Next, Users, Others, Crash, SyncCache, LandCreate, vars, CreateBinding, EditBinding, DeleteBinding,
       ChangePool, OthersCreate, OthersReplace, OthersDelete, OthersEdit, OthersHold, OthersRelease,
       Reconcile, StartReconcile, LookUpDeleting, RenderPeer, AddFinalizer, RenderOwn, Observe, Confirm, Clear,
       Delete, RemoveFinalizer, ObserveDesired, Reserve, Create, UpdateOutput, PatchStatus,
       ListBindings, DecideConflict, WithdrawnAll, SettleConflict, WithdrawMember, ConfirmAbsent,
       DelayCreate, CRDMissing

\* So a binding is shown as before, or as it is stored (Cached).
LEMMA ShownSteps ==
    ASSUME [Next]_vars, NEW b \in Bindings
    PROVE  \/ Shown'[b] = live'[b]
           \/ CacheLag /\ Shown'[b] = Shown[b] /\ Shown[b] = cache[b]
<1>1. Shown'[b] = IF CacheLag THEN cache'[b] ELSE live'[b]
  BY DEF Shown, Cached
<1>2. Shown[b] = IF CacheLag THEN cache[b] ELSE live[b]
  BY DEF Shown, Cached
<1>. QED
  BY <1>1, <1>2, CacheSteps

\* The cache shows a copy.
LEMMA ShownFacts ==
    ASSUME ReconcilerInvariant, NEW b \in Bindings
    PROVE  /\ Shown[b] \in BindingStates /\ Shown[b].rv \in Nat
           /\ Shown[b].rv <= live[b].rv
<1>1. Shown[b] = IF CacheLag THEN cache[b] ELSE live[b]
  BY DEF Shown, Cached
<1>2. cache[b] \in BindingStates /\ live[b] \in BindingStates /\ cache[b].rv <= live[b].rv
  BY DEF ReconcilerInvariant, TypeOK, Copies, IsCopy
<1>3. Shown[b] \in BindingStates /\ Shown[b].rv \in Nat /\ live[b].rv \in Nat
  BY <1>1, <1>2 DEF BindingStates
<1>4. CASE CacheLag
  BY <1>1, <1>2, <1>3, <1>4
<1>5. CASE ~CacheLag
  <2>1. Shown[b].rv = live[b].rv
    BY <1>1, <1>5
  <2>. QED
    BY <1>3, <2>1, Versions
<1>. QED
  BY <1>3, <1>4, <1>5

\* While the fetched copy is the stored binding, and is not being deleted, the cache shows
\* neither of the two otherwise.
LEMMA MainCurrent ==
    ASSUME ReconcilerInvariant, op.key \in Bindings, MainOK(op, live, Shown), ~op.main.deleting,
           op.main = live[op.key]
    PROVE  Shown[op.key].there /\ ~Shown[op.key].deleting
<1>1. PICK k \in Bindings : k = op.key
  OBVIOUS
<1>2. Shown[k].rv \in Nat /\ live[k].rv \in Nat /\ Shown[k].rv <= live[k].rv
  BY ShownFacts, LiveFacts
<1>3. ~(Shown[k].rv > live[k].rv)
  BY <1>2, Versions
<1>. QED
  BY <1>1, <1>3 DEF MainOK

\* Every step leaves the cache in line with the stored bindings and the objects.
LEMMA ShownStaysOK ==
    ASSUME ReconcilerInvariant, ReconcilerInvariant', NoOrphan', NeverAdopts', ~LateCreates, [Next]_vars,
           [ClaimedStep]_vars, ExclusionInvariant
    PROVE  ShownOK(live', Shown', object')
<1>0. ShownOK(live, Shown, object) /\ Weighed(op, live, Shown, object)
  BY DEF ExclusionInvariant
<1>1. ASSUME NEW b \in Bindings, Shown'[b] = live'[b]
      PROVE  /\ live'[b].rec # Unclaimed => Shown'[b].there
             /\ Shown'[b].deleting /\ live'[b].rec.kind = "pending" => Shown'[b].rec = live'[b].rec
             /\ LeadsToOutput(object', b, Shown'[b])
  <2>1. live'[b].rec = Unclaimed \/ live'[b].there
    BY DEF ReconcilerInvariant, StoredOK
  <2>2. LeadsToOutput(object', b, live'[b])
    BY OutputOwnedNext DEF LeadsToOutput
  <2>. QED
    BY <1>1, <2>1, <2>2
<1>2. ASSUME NEW b \in Bindings, Shown'[b] = Shown[b]
      PROVE  /\ live'[b].rec # Unclaimed => Shown'[b].there
             /\ Shown'[b].deleting /\ live'[b].rec.kind = "pending" => Shown'[b].rec = live'[b].rec
             /\ LeadsToOutput(object', b, Shown'[b])
  <2>1. /\ live[b].rec # Unclaimed => Shown[b].there
        /\ Shown[b].deleting /\ live[b].rec.kind = "pending" => Shown[b].rec = live[b].rec
        /\ LeadsToOutput(object, b, Shown[b])
    BY <1>0 DEF ShownOK
  <2>2. ASSUME NEW r \in Replies, Reserve(r), b = op.key, op.main = live[b]
        PROVE  Shown[b].there /\ ~Shown[b].deleting
    <3>1. op.pc = "reserve"
      BY <2>2 DEF Reserve
    <3>2. MainOK(op, live, Shown) /\ ~op.main.deleting
      BY <1>0, <3>1 DEF Weighed
    <3>. QED
      BY <2>2, <3>2, MainCurrent
  <2>3. live'[b].rec # Unclaimed => Shown[b].there
    BY <2>1, <2>2, RecordChanges
  <2>4. Shown[b].deleting /\ live'[b].rec.kind = "pending" => Shown[b].rec = live'[b].rec
    BY <2>1, <2>2, RecordChanges
  <2>5. LeadsToOutput(object', b, Shown[b])
    <3>. SUFFICES ASSUME Shown[b].deleting, NEW n \in Names, HasOutput(object', b, n)
                  PROVE  Shown[b].rec.name = n /\ Matches(Shown[b].rec, object'[n])
      BY DEF LeadsToOutput
    <3>1. CASE HasOutput(object, b, n) /\ object'[n].uid = object[n].uid /\ object'[n].claim = object[n].claim
      <4>1. Shown[b].rec.name = n /\ Matches(Shown[b].rec, object[n])
        BY <2>1, <3>1 DEF LeadsToOutput
      <4>. QED
        BY <3>1, <4>1 DEF Matches, HasOutput
    <3>2. ASSUME NEW r \in Replies, Create(r), live[b].rec = op.main.rec, op.main.rec.kind = "pending"
          PROVE  Shown[b].rec.name = n /\ Matches(Shown[b].rec, object'[n])
      <4>1. live' = live
        BY <3>2 DEF Create
      <4>2. Shown[b].rec = live'[b].rec
        BY <2>1, <3>2, <4>1
      <4>. QED
        BY <4>2, OutputOwnedNext
    <3>. QED
      BY <3>1, <3>2, OutputSource
  <2>. QED
    BY <1>2, <2>3, <2>4, <2>5
<1>. QED
  BY <1>1, <1>2, ShownSteps DEF ShownOK

-----------------------------------------------------------------------------
(* The memory beside what is stored and shown. *)

\* The fetched copy while only others, or other copies, change the stored bindings.
LEMMA MainKept ==
    ASSUME ReconcilerInvariant, [Next]_vars, op.key \in Bindings, op.main.there, MainOK(op, live, Shown),
           ~\E r \in Replies : Reserve(r)
    PROVE  Advances(op, live, live') /\ MainOK(op, live', Shown')
<1>1. PICK k \in Bindings : k = op.key
  OBVIOUS
<1>2. PICK m \in BindingStates : m = op.main
  BY OpFacts
<1>3. m.rv \in Nat /\ live[k].rv \in Nat /\ m.rv <= live[k].rv /\ (m.rv = live[k].rv => m = live[k])
  BY <1>1, <1>2, LiveFacts DEF ReconcilerInvariant, Copies, IsCopy, BindingStates
<1>4. live'[k] = live[k] \/ live'[k].rv = live[k].rv + 1
  BY VersionsGrow
<1>5. /\ live'[k].rv \in Nat /\ live[k].rv <= live'[k].rv
      /\ live'[k] = m \/ live'[k].rv > m.rv
  <2>1. CASE live'[k] = live[k]
    BY <1>3, <2>1, Versions
  <2>2. CASE live'[k].rv = live[k].rv + 1
    <3>0. PICK i \in Nat, j \in Nat : i = m.rv /\ j = live[k].rv
      BY <1>3
    <3>1. PICK v : v = live'[k].rv
      OBVIOUS
    <3>2. v = j + 1 /\ i <= j
      BY <1>3, <2>2, <3>0, <3>1
    <3>3. v \in Nat /\ j <= v /\ v > i
      BY <3>2, NextVersion
    <3>. QED
      BY <3>0, <3>1, <3>3
  <2>. QED
    BY <1>4, <2>1, <2>2
<1>6. live'[k] = m \/ live'[k].rv > m.rv
  BY <1>5
<1>7. StillPending(op, live') => StillPending(op, live)
  BY <1>1, RecordChanges DEF StillPending
<1>8. Advances(op, live, live')
  BY <1>1, <1>2, <1>3, <1>5, <1>7 DEF Advances
<1>9. MainOK(op, live', Shown')
  <2>. DEFINE c == Shown'[k]
  <2>. SUFFICES ASSUME ~m.deleting
                PROVE  /\ c.rv > m.rv \/ (c.there /\ ~c.deleting)
                       /\ StillPending(op, live') /\ c.rv >= m.rv => c.rec = m.rec
    BY <1>1, <1>2 DEF MainOK
  <2>1. CASE c = live'[k]
    <3>1. c.rv > m.rv \/ (c.there /\ ~c.deleting)
      BY <1>2, <1>6, <2>1
    <3>2. StillPending(op, live') => c.rec = m.rec
      BY <1>1, <1>2, <2>1 DEF StillPending
    <3>. QED
      BY <3>1, <3>2
  <2>2. CASE c = Shown[k]
    BY <1>1, <1>2, <1>7, <2>2 DEF MainOK
  <2>. QED
    BY <2>1, <2>2, ShownSteps
<1>. QED
  BY <1>8, <1>9

\* The fetched copy when it has been written, in memory o.
LEMMA MainPatched ==
    ASSUME ReconcilerInvariant, [Next]_vars, op.key \in Bindings, op.main.there, MainOK(op, live, Shown),
           op.main = live[op.key], NEW o, o.key = op.key, o.main = live'[op.key],
           o.main.there, o.main.deleting <=> op.main.deleting, o.main.rv = live[op.key].rv + 1
    PROVE  MainOK(o, live', Shown')
<1>1. PICK k \in Bindings : k = op.key
  OBVIOUS
<1>. DEFINE c == Shown'[k]
<1>. SUFFICES ASSUME ~o.main.deleting
              PROVE  /\ c.rv > o.main.rv \/ (c.there /\ ~c.deleting)
                     /\ StillPending(o, live') /\ c.rv >= o.main.rv => c.rec = o.main.rec
  BY <1>1 DEF MainOK
<1>2. CASE c = live'[k]
  BY <1>1, <1>2
<1>3. CASE c = Shown[k]
  <2>1. c.there /\ ~c.deleting
    BY <1>1, <1>3, MainCurrent
  <2>2. c.rv \in Nat /\ live[k].rv \in Nat /\ c.rv <= live[k].rv
    BY <1>3, ShownFacts, LiveFacts
  <2>3. ~(c.rv >= o.main.rv)
    <3>1. PICK i, j, v : i \in Nat /\ j \in Nat /\ i = c.rv /\ j = live[k].rv /\ v = o.main.rv
      BY <2>2
    <3>2. v = j + 1 /\ i <= j
      BY <1>1, <2>2, <3>1
    <3>3. ~(i >= v)
      BY <3>1, <3>2, NextVersion
    <3>. QED
      BY <3>1, <3>3
  <2>. QED
    BY <2>1, <2>3
<1>. QED
  BY <1>2, <1>3, ShownSteps

\* The current reconcile, in order (Weighed).
LEMMA WeighedFacts ==
    ASSUME ReconcilerInvariant, ExclusionInvariant, op.pc \notin {"idle", "status"}
    PROVE  /\ op \in OpStates /\ op.key \in Bindings /\ op.main \in BindingStates /\ op.main.there
           /\ Weighed(op, live, Shown, object)
           /\ MainOK(op, live, Shown)
           /\ op.plan # NoPlan => op.plan \in Outcomes[op.key]
           /\ op.list[op.key].rv <= live[op.key].rv
           /\ live \in [Bindings -> BindingStates]
<1>1. /\ op \in OpStates /\ op.key \in Bindings /\ op.main \in BindingStates /\ op.main.there
      /\ live \in [Bindings -> BindingStates]
  BY OpFacts DEF Shape, ReconcilerInvariant, TypeOK
<1>2. op.list[op.key].rv <= live[op.key].rv
  BY <1>1 DEF ReconcilerInvariant, Copies, IsCopy
<1>. QED
  BY <1>1, <1>2 DEF ExclusionInvariant, Weighed

\* Others leave a reconcile in order (Users, Others, SyncCache).
LEMMA EnvironmentWeighed ==
    ASSUME ReconcilerInvariant, ExclusionInvariant, [Next]_vars, op' = op, Shrinks(object, object')
    PROVE  Weighed(op', live', Shown', object')
<1>1. ASSUME NEW r \in Replies, Reserve(r) PROVE FALSE
  <2>1. op.pc = "reserve" /\ op \in OpStates
    BY <1>1, OpFacts DEF Reserve
  <2>2. op'.pc = "create" \/ op' = ApplyFailed(op)
    BY <1>1, <2>1 DEF Reserve, PatchOwnership, OpStates
  <2>3. ApplyFailed(op).pc = "status"
    BY DEF ApplyFailed, Finish, IdleOp
  <2>. QED
    BY <2>1, <2>2, <2>3
<1>2. op.pc \notin {"idle", "status"} =>
          op.key \in Bindings /\ Advances(op, live, live') /\ MainOK(op, live', Shown')
  BY <1>1, WeighedFacts, MainKept
<1>3. Weighed(op, live, Shown, object)
  BY DEF ExclusionInvariant
<1>. QED
  BY <1>2, <1>3, WeighedStays

\* The memory after a step that leaves the bindings as they are stored and shown.
LEMMA LocalWeighed ==
    ASSUME live' = live, cache' = cache, object' = object, Weighed(op', live, Shown, object)
    PROVE  Weighed(op', live', Shown', object')
<1>1. Shown' = Shown
  BY DEF Shown, Cached
<1>. QED
  BY <1>1

-----------------------------------------------------------------------------
(* The operator's steps, one by one. *)

\* Entering a helper on behalf of `ret'.
LEMMA CallWaits ==
    ASSUME NEW o \in OpStates, NEW x \in Bindings \cup {Main}, NEW mode \in {"cleanup", "list"},
           NEW ret \in {"finalize", "stateError", "rename", "deletingPeer", "brokenPeer", "withdraw"},
           NEW lv, NEW ch, NEW ob, NEW call,
           o.key \in Bindings, o.main.there, o.main.fin,
           ret \in {"finalize", "stateError", "rename"} => x = Main,
           ret \in {"deletingPeer", "brokenPeer"} => x \in Bindings,
           ret \in {"rename", "deletingPeer", "brokenPeer", "withdraw"} => o.plan \in Plans,
           o.plan # NoPlan => o.plan \in Outcomes[o.key],
           MainOK(o, lv, ch), o.list[o.key].rv <= lv[o.key].rv,
           o.main.deleting => ret = "finalize",
           ret = "rename" => Unopposed(o, lv, ob),
           ret \in {"deletingPeer", "brokenPeer"} => Balanced(o, lv, ob),
           ret = "deletingPeer" => o.list[x].deleting,
           ret = "brokenPeer" => x \notin Rivals[o.key] \cup {o.key},
           call = [o EXCEPT !.pc = "observe", !.who = x, !.mode = mode, !.ret = ret]
    PROVE  Waiting(call, lv, ch, ob)
<1>1. Called(call)
  BY CallOK
<1>2. SameCase(o, call) /\ call.who = x /\ call.ret = ret
  BY DEF OpStates, SameCase
<1>3. /\ MainOK(call, lv, ch)
      /\ ret = "rename" => Unopposed(call, lv, ob)
      /\ ret \in {"deletingPeer", "brokenPeer"} => Balanced(call, lv, ob)
  BY <1>2, SameCaseKeeps
<1>4. Entered(call, lv, ob)
  BY <1>2, <1>3 DEF Entered, SameCase
<1>. QED
  BY <1>1, <1>2, <1>3, <1>4 DEF Waiting, SameCase

\* A memory without list.
LEMMA FreshList ==
    ASSUME ReconcilerInvariant, NEW o, o.key \in Bindings, \A b \in Bindings : o.list[b] = AbsentBinding(0)
    PROVE  o.list[o.key].rv <= live[o.key].rv
<1>1. AbsentBinding(0).rv = 0
  BY DEF AbsentBinding
<1>2. PICK i \in Nat : i = live[o.key].rv
  BY LiveFacts
<1>3. 0 <= i
  BY Versions
<1>4. o.list[o.key].rv = 0
  BY <1>1
<1>. QED
  BY <1>2, <1>3, <1>4

\* Cleaning up on behalf of the fetched copy (CleanUp).
LEMMA CleanUpMain ==
    ASSUME ReconcilerInvariant, NEW o \in OpStates, NEW ret \in {"finalize", "stateError", "rename"},
           o.key \in Bindings, o.main.there, o.main.fin, MainOK(o, live, Shown),
           o.list[o.key].rv <= live[o.key].rv,
           o.plan # NoPlan => o.plan \in Outcomes[o.key],
           o.main.deleting => ret = "finalize",
           ret = "rename" => o.plan \in Plans /\ Unopposed(o, live, object)
    PROVE  Weighed(CleanUp(o, Main, ret), live, Shown, object)
<1>1. PICK call : call = [o EXCEPT !.pc = "observe", !.who = Main, !.mode = "cleanup", !.ret = ret]
  OBVIOUS
<1>2. Waiting(call, live, Shown, object)
  BY <1>1, CallWaits
<1>3. live \in [Bindings -> BindingStates]
  BY DEF ReconcilerInvariant, TypeOK
<1>. QED
  BY <1>1, <1>2, <1>3, CleanUpWeighed

\* Fetching a binding (StartReconcile).
LEMMA StartReconcileWeighed ==
    ASSUME ReconcilerInvariant, NEW b \in Bindings, StartReconcile(b)
    PROVE  Weighed(op', live', Shown', object')
<1>0. Shown[b] = Cached(b) /\ Shown[b] \in BindingStates
  BY ShownFacts DEF Shown
<1>2. PICK main \in BindingStates : main = Cached(b) /\ Shown[b] = main
  BY <1>0
<1>1. PICK o : main = Cached(b) /\ o = Fetched(b, main)
  BY <1>2
<1>3. /\ o \in OpStates /\ o.key = b /\ o.main = main
      /\ \A c \in Bindings : o.list[c] = AbsentBinding(0)
  BY <1>1, FetchedFields, SMTT(30)
<1>4. o.plan = NoPlan /\ \A c \in Bindings : o.plans[c] = NoPlan
  <2>1. o.plan = IdleOp.plan /\ o.plans = IdleOp.plans
    BY <1>1, IdleOpType DEF Fetched, OpStates
  <2>2. IdleOp.plan = NoPlan /\ IdleOp.plans = [c \in Bindings |-> NoPlan]
    BY DEF IdleOp
  <2>. QED
    BY <2>1, <2>2
<1>5. main.there /\ (main.deleting => main.fin)
  BY <1>1 DEF StartReconcile
<1>6. MainOK(o, live, Shown)
  BY <1>2, <1>3, <1>5 DEF MainOK
<1>7. ASSUME NEW pc \in {"render", "addFinalizer"}, ~main.deleting PROVE Weighed([o EXCEPT !.pc = pc], live, Shown, object)
  <2>1. PICK o2 : o2 = [o EXCEPT !.pc = pc]
    OBVIOUS
  <2>2. SameCase(o, o2) /\ o2.pc = pc
    BY <1>3, <2>1 DEF OpStates, SameCase
  <2>3. MainOK(o2, live, Shown)
    BY <1>6, <2>2, SameCaseKeeps
  <2>4. Weighed(o2, live, Shown, object)
    BY <1>3, <1>4, <1>7, <2>2, <2>3 DEF Weighed, SameCase
  <2>. QED
    BY <2>1, <2>4
<1>8. CASE main.deleting
  <2>1. o.list[o.key].rv <= live[o.key].rv
    BY <1>3, FreshList
  <2>2. Weighed(CleanUp(o, Main, "finalize"), live, Shown, object)
    BY <1>3, <1>4, <1>5, <1>6, <1>8, <2>1, CleanUpMain
  <2>3. op' = CleanUp(o, Main, "finalize")
    BY <1>1, <1>3, <1>8 DEF StartReconcile, Fetched
  <2>. QED
    BY <2>2, <2>3, LocalWeighed DEF StartReconcile
<1>9. CASE ~main.deleting
  <2>1. op' = [o EXCEPT !.pc = "render"] \/ op' = [o EXCEPT !.pc = "addFinalizer"]
    <3>1. /\ main.fin => op' = [o EXCEPT !.pc = "render"]
          /\ ~main.fin => op' = [o EXCEPT !.pc = "addFinalizer"]
      BY <1>1, <1>3, <1>9 DEF StartReconcile, Fetched
    <3>. QED
      BY <3>1
  <2>2. Weighed(op', live, Shown, object)
    BY <1>7, <1>9, <2>1
  <2>. QED
    BY <2>2, LocalWeighed DEF StartReconcile
<1>. QED
  BY <1>8, <1>9

\* Adding the finalizer (AddFinalizer).
LEMMA AddFinalizerWeighed ==
    ASSUME ReconcilerInvariant, ExclusionInvariant, [Next]_vars, NEW r, AddFinalizer(r)
    PROVE  Weighed(op', live', Shown', object')
<1>1. /\ op.pc = "addFinalizer" /\ op \in OpStates /\ op.key \in Bindings /\ op.main.there
      /\ Weighed(op, live, Shown, object) /\ MainOK(op, live, Shown)
      /\ op.plan # NoPlan => op.plan \in Outcomes[op.key]
  BY WeighedFacts DEF AddFinalizer
<1>2. CASE op' = IdleOp
  BY <1>2, FinishWeighed
<1>3. CASE op' # IdleOp
  <2>1. PICK k \in Bindings : k = op.key
    BY <1>1
  <2>2. live \in [Bindings -> BindingStates] /\ live[k] \in BindingStates
    BY LiveFacts
  <2>. DEFINE new == [live[k] EXCEPT !.fin = TRUE, !.rv = live[k].rv + 1]
  <2>3. /\ op.main.rv = live[k].rv /\ live' = [live EXCEPT ![k] = new]
        /\ op' = [op EXCEPT !.pc = "render", !.main = new]
    BY <1>3, <2>1, <2>2 DEF AddFinalizer
  <2>4. new.there = live[k].there /\ new.deleting = live[k].deleting /\ new.rv = live[k].rv + 1
    BY <2>2 DEF BindingStates
  <2>. HIDE DEF new
  <2>5. op.main = live[k]
    BY <1>1, <2>1, <2>3 DEF ReconcilerInvariant, Copies, IsCopy
  <2>6. /\ op'.pc = "render" /\ op'.key = op.key /\ op'.main = new /\ op'.plan = op.plan /\ op'.plans = op.plans
    BY <1>1, <2>3 DEF OpStates
  <2>7. live'[k] = new
    BY <2>2, <2>3
  <2>8. PICK o : o = op'
    OBVIOUS
  <2>9. /\ o.key = op.key /\ o.main = live'[op.key] /\ o.main.there
        /\ (o.main.deleting <=> op.main.deleting) /\ o.main.rv = live[op.key].rv + 1
    BY <1>1, <2>1, <2>4, <2>5, <2>6, <2>7, <2>8
  <2>10. MainOK(o, live', Shown')
    BY <1>1, <2>1, <2>5, <2>9, MainPatched
  <2>11. ~op.main.deleting /\ \A b \in Bindings : op.plans[b] = NoPlan
    BY <1>1 DEF Weighed
  <2>. QED
    BY <1>1, <2>6, <2>8, <2>9, <2>10, <2>11 DEF Weighed
<1>. QED
  BY <1>2, <1>3

\* Rendering the current binding (RenderOwn).
LEMMA RenderOwnWeighed ==
    ASSUME ReconcilerInvariant, ExclusionInvariant, NEW r, RenderOwn(r)
    PROVE  Weighed(op', live', Shown', object')
<1>1. /\ op.pc = "render" /\ op \in OpStates /\ op.key \in Bindings /\ op.main \in BindingStates
      /\ op.main.there /\ op.main.fin
      /\ Weighed(op, live, Shown, object) /\ MainOK(op, live, Shown)
      /\ op.plan # NoPlan => op.plan \in Outcomes[op.key]
      /\ op.list[op.key].rv <= live[op.key].rv
  BY WeighedFacts, OpFacts DEF RenderOwn
<1>2. ~op.main.deleting /\ \A b \in Bindings : op.plans[b] = NoPlan
  BY <1>1 DEF Weighed
<1>3. PICK plan : plan = Render[op.key][op.main.spec][pool]
  OBVIOUS
<1>4. plan \in Outcomes[op.key]
  <2>1. op.main.spec \in Specs /\ pool \in Pools
    BY <1>1 DEF BindingStates, ReconcilerInvariant, TypeOK
  <2>. QED
    BY <1>1, <1>3, <2>1, OutcomeOf
<1>5. CASE op' = IdleOp
  BY <1>5, FinishWeighed
<1>6. CASE op' = CleanUp(op, Main, "stateError")
  <2>1. Weighed(op', live, Shown, object)
    BY <1>1, <1>2, <1>6, CleanUpMain
  <2>. QED
    BY <2>1, LocalWeighed DEF RenderOwn
<1>7. CASE op' = [op EXCEPT !.pc = "list", !.plan = plan]
  <2>1. /\ op'.pc = "list" /\ op'.key = op.key /\ op'.main = op.main /\ op'.plan = plan /\ op'.plans = op.plans
    BY <1>1, <1>7 DEF OpStates
  <2>2. MainOK(op', live, Shown)
    BY <1>1, <2>1 DEF MainOK, StillPending
  <2>3. Weighed(op', live, Shown, object)
    BY <1>2, <1>4, <2>1, <2>2 DEF Weighed
  <2>. QED
    BY <2>3, LocalWeighed DEF RenderOwn
<1>. QED
  BY <1>3, <1>5, <1>6, <1>7 DEF RenderOwn

\* Listing the bindings: the ones left out are without output (ListBindings).
LEMMA ListBindingsWeighed ==
    ASSUME ReconcilerInvariant, NoOrphan, NeverAdopts, ExclusionInvariant, ListBindings
    PROVE  Weighed(op', live', Shown', object')
<1>. DEFINE list == [b \in Bindings |-> Cached(b)]
            todo == {b \in Bindings : Cached(b).there}
<1>1. /\ op.pc = "list" /\ op \in OpStates /\ op.key \in Bindings /\ op.main \in BindingStates
      /\ Weighed(op, live, Shown, object) /\ MainOK(op, live, Shown)
      /\ op.plan # NoPlan => op.plan \in Outcomes[op.key]
  BY WeighedFacts DEF ListBindings
<1>2. ~op.main.deleting /\ (\A b \in Bindings : op.plans[b] = NoPlan) /\ ShownOK(live, Shown, object)
  BY <1>1 DEF Weighed, ExclusionInvariant
<1>3. op' = [op EXCEPT !.pc = "evaluate", !.list = list, !.todo = todo]
  BY DEF ListBindings
<1>4. \A b \in Bindings : list[b] = Shown[b] /\ (b \in todo <=> Shown[b].there)
  BY DEF Shown
<1>. HIDE DEF list, todo
<1>5. /\ op'.pc = "evaluate" /\ op'.key = op.key /\ op'.main = op.main /\ op'.plan = op.plan
      /\ op'.plans = op.plans /\ op'.list = list /\ op'.todo = todo
  BY <1>1, <1>3 DEF OpStates
<1>6. PICK k \in Bindings : k = op.key
  BY <1>1
<1>7. ASSUME NEW c \in Bindings, c \notin todo PROVE live[c].rec = Unclaimed /\ NoOutput(object, c)
  <2>1. live[c].rec = Unclaimed
    BY <1>2, <1>4, <1>7 DEF ShownOK
  <2>2. live[c].rec.name \notin Names
    BY <2>1, UnclaimedFields, ConstantsAssumption
  <2>. QED
    BY <2>1, <2>2, OutputOwned DEF NoOutput, Owns
<1>8. StillPending(op', live) = StillPending(op, live) /\ Doomed(op', live) = Doomed(op, live)
  BY <1>5 DEF StillPending, Doomed
<1>9. MainOK(op', live, Shown)
  BY <1>1, <1>5, <1>8 DEF MainOK
<1>10. /\ Shown[k].rv > op.main.rv \/ (Shown[k].there /\ ~Shown[k].deleting)
       /\ StillPending(op, live) /\ Shown[k].rv >= op.main.rv => Shown[k].rec = op.main.rec
  BY <1>1, <1>2, <1>6 DEF MainOK
<1>11. PICK i \in Nat, j \in Nat, v \in Nat : i = op.main.rv /\ j = Shown[k].rv /\ v = live[k].rv /\ j <= v
  BY <1>1, ShownFacts, LiveFacts DEF BindingStates
<1>12. k \notin todo => Doomed(op, live)
  <2>. SUFFICES ASSUME k \notin todo PROVE Doomed(op, live)
    OBVIOUS
  <2>1. j > i
    BY <1>4, <1>10, <1>11
  <2>2. i < j
    BY <2>1, Versions
  <2>3. i < v
    BY <1>11, <2>2, EarlierVersion
  <2>4. live[k].rec.kind # "pending"
    BY <1>7, UnclaimedFields
  <2>. QED
    BY <1>6, <1>11, <2>3, <2>4 DEF Doomed, StillPending
<1>13. Shown[k].deleting => Shown[k].rv > op.main.rv /\ (StillPending(op, live) => Shown[k].rec = op.main.rec)
  <2>. SUFFICES ASSUME Shown[k].deleting
                PROVE  Shown[k].rv > op.main.rv /\ (StillPending(op, live) => Shown[k].rec = op.main.rec)
    OBVIOUS
  <2>1. j > i
    BY <1>10, <1>11
  <2>2. j >= i
    BY <2>1, LaterVersion
  <2>. QED
    BY <1>10, <1>11, <2>1, <2>2
<1>14. Balanced(op', live, object)
  <2>1. ASSUME NEW c \in Rivals[op'.key] \ op'.todo PROVE NoOutput(object, c)
    BY <1>5, <1>6, <1>7, <2>1, RivalsFacts
  <2>2. ASSUME NEW b \in Bindings
        PROVE  /\ op'.plans[b] # NoPlan => op'.plans[b] \in Outcomes[b]
               /\ LeadsToOutput(object, b, op'.list[b])
    BY <1>2, <1>4, <1>5 DEF ShownOK
  <2>3. op'.key \in op'.todo \/ op'.plans[op'.key] = op'.plan \/ Doomed(op', live)
    BY <1>5, <1>6, <1>8, <1>12
  <2>4. op'.key \in op'.todo /\ op'.list[op'.key].deleting =>
           /\ op'.list[op'.key].rv > op'.main.rv
           /\ StillPending(op', live) => op'.list[op'.key].rec = op'.main.rec
    BY <1>4, <1>5, <1>6, <1>8, <1>13
  <2>. QED
    BY <2>1, <2>2, <2>3, <2>4 DEF Balanced
<1>15. Weighed(op', live, Shown, object)
  BY <1>1, <1>2, <1>5, <1>9, <1>14 DEF Weighed
<1>. QED
  BY <1>15, LocalWeighed DEF ListBindings

\* The memory during the evaluation (EvaluationFacts).
LEMMA EvaluationWeighed ==
    ASSUME ReconcilerInvariant, ExclusionInvariant,
           op.pc \in {"evaluate", "renderPeer", "withdraw", "confirmAbsent", "apply", "create", "update"}
    PROVE  /\ op \in OpStates /\ op.key \in Bindings /\ op.main.there /\ op.main.fin /\ ~op.main.deleting
           /\ op.plan \in Plans /\ op.plan # NoPlan /\ op.plan \in Outcomes[op.key]
           /\ MainOK(op, live, Shown) /\ op.list[op.key].rv <= live[op.key].rv
           /\ live \in [Bindings -> BindingStates]
           /\ op.pc \in {"evaluate", "renderPeer"} => Balanced(op, live, object)
           /\ op.pc \in {"apply", "create"} => Unopposed(op, live, object)
<1>1. /\ op \in OpStates /\ op.key \in Bindings /\ op.main.there /\ op.main.fin
      /\ op.plan \in Plans /\ op.plan # NoPlan
  BY EvaluationFacts, ConstantsAssumption
<1>2. op.pc \notin {"idle", "status", "removeFinalizer", "observe", "confirm", "clear", "delete"}
  OBVIOUS
<1>3. /\ Weighed(op, live, Shown, object)
      /\ MainOK(op, live, Shown) /\ op.list[op.key].rv <= live[op.key].rv
      /\ live \in [Bindings -> BindingStates]
      /\ op.plan # NoPlan => op.plan \in Outcomes[op.key]
  BY <1>2, WeighedFacts
<1>4. /\ ~op.main.deleting
      /\ op.pc \in {"evaluate", "renderPeer"} => Balanced(op, live, object)
      /\ op.pc \in {"apply", "create"} => Unopposed(op, live, object)
  BY <1>2, <1>3 DEF Weighed
<1>. QED
  BY <1>1, <1>3, <1>4

\* Listing on behalf of the evaluation or the withdrawal (ListManaged).
LEMMA ListManagedCall ==
    ASSUME ReconcilerInvariant, ExclusionInvariant, NEW x \in Bindings \cup {Main},
           NEW ret \in {"deletingPeer", "brokenPeer", "withdraw"},
           op.pc \in {"evaluate", "renderPeer", "confirmAbsent"},
           ret # "withdraw" => x \in Bindings /\ op.pc # "confirmAbsent",
           ret = "deletingPeer" => op.list[x].deleting,
           ret = "brokenPeer" => x \notin Rivals[op.key] \cup {op.key}
    PROVE  Weighed(ListManaged(op, x, ret), live, Shown, object)
<1>1. PICK call : call = [op EXCEPT !.pc = "observe", !.who = x, !.mode = "list", !.ret = ret]
  OBVIOUS
<1>2. /\ op \in OpStates /\ op.key \in Bindings /\ op.main.there /\ op.main.fin /\ ~op.main.deleting
      /\ op.plan \in Plans /\ op.plan \in Outcomes[op.key]
      /\ MainOK(op, live, Shown) /\ op.list[op.key].rv <= live[op.key].rv
      /\ live \in [Bindings -> BindingStates]
      /\ ret \in {"deletingPeer", "brokenPeer"} => Balanced(op, live, object)
  BY EvaluationWeighed
<1>3. Waiting(call, live, Shown, object)
  BY <1>1, <1>2, CallWaits
<1>. QED
  BY <1>1, <1>2, <1>3, ListManagedWeighed

\* Looking up the output of a binding that is being deleted (LookUpDeleting).
LEMMA LookUpDeletingWeighed ==
    ASSUME ReconcilerInvariant, ExclusionInvariant, NEW peer \in Bindings, LookUpDeleting(peer)
    PROVE  Weighed(op', live', Shown', object')
<1>1. Weighed(op', live, Shown, object)
  BY ListManagedCall DEF LookUpDeleting
<1>. QED
  BY <1>1, LocalWeighed DEF LookUpDeleting

\* A listed binding that was rendered takes part with an identity of its own (RenderPeer).
LEMMA PeerRendered ==
    ASSUME NEW o \in OpStates, NEW peer \in Bindings, NEW plan, NEW o1, NEW lv, NEW ch, NEW ob,
           o.key \in Bindings, ~o.main.deleting, o.plan # NoPlan, o.plan \in Outcomes[o.key],
           MainOK(o, lv, ch), Balanced(o, lv, ob), plan \in Plans, plan \in Outcomes[peer],
           peer = o.key => plan = o.plan,
           o1 = [o EXCEPT !.who = peer, !.plans = [o.plans EXCEPT ![peer] = plan]]
    PROVE  Weighed(NextPeer(o1), lv, ch, ob)
<1>1. o1 \in OpStates
  BY DEF OpStates
<1>2. /\ o1.key = o.key /\ o1.main = o.main /\ o1.plan = o.plan /\ o1.list = o.list /\ o1.todo = o.todo
      /\ o1.who = peer /\ o1.plans = [o.plans EXCEPT ![peer] = plan]
  BY DEF OpStates
<1>3. o.plans \in [Bindings -> Plans \cup {NoPlan}]
  BY DEF OpStates
<1>4. plan # NoPlan
  BY ConstantsAssumption
<1>5. o1.plans[peer] = plan /\ \A b \in Bindings : b # peer => o1.plans[b] = o.plans[b]
  BY <1>2, <1>3
<1>6. StillPending(o1, lv) = StillPending(o, lv) /\ Doomed(o1, lv) = Doomed(o, lv)
  BY <1>2 DEF StillPending, Doomed
<1>7. MainOK(o1, lv, ch)
  BY <1>2, <1>6 DEF MainOK
<1>8. Balanced(o1, lv, ob)
  <2>1. ASSUME NEW c \in Rivals[o1.key] \ o1.todo, o1.plans[c] = NoPlan PROVE NoOutput(ob, c)
    <3>1. c \in Bindings /\ c # peer
      BY <1>2, <1>4, <1>5, <2>1, RivalsFacts
    <3>. QED
      BY <1>2, <1>5, <2>1, <3>1 DEF Balanced
  <2>2. ASSUME NEW b \in Bindings
        PROVE  /\ o1.plans[b] # NoPlan => o1.plans[b] \in Outcomes[b]
               /\ LeadsToOutput(ob, b, o1.list[b])
    BY <1>2, <1>5 DEF Balanced
  <2>3. o1.key \in o1.todo \/ o1.plans[o1.key] = o1.plan \/ Doomed(o1, lv)
    BY <1>2, <1>5, <1>6 DEF Balanced
  <2>4. o1.key \in o1.todo /\ o1.list[o1.key].deleting =>
           /\ o1.list[o1.key].rv > o1.main.rv
           /\ StillPending(o1, lv) => o1.list[o1.key].rec = o1.main.rec
    BY <1>2, <1>6 DEF Balanced
  <2>. QED
    BY <2>1, <2>2, <2>3, <2>4 DEF Balanced
<1>9. /\ o1.who \in Rivals[o1.key] => o1.plans[o1.who] # NoPlan
      /\ o1.who = o1.key => o1.plans[o1.key] = o1.plan
  BY <1>2, <1>4, <1>5
<1>. QED
  BY <1>1, <1>2, <1>7, <1>8, <1>9, NextPeerWeighed

\* Rendering a listed binding: one that does not render is no rival (RenderPeer).
LEMMA RenderPeerWeighed ==
    ASSUME ReconcilerInvariant, ExclusionInvariant, NEW peer \in Bindings, NEW r, RenderPeer(peer, r)
    PROVE  Weighed(op', live', Shown', object')
<1>1. op.pc \in {"evaluate", "renderPeer"}
  BY DEF RenderPeer
<1>2. /\ op \in OpStates /\ op.key \in Bindings /\ ~op.main.deleting
      /\ op.plan \in Plans /\ op.plan # NoPlan /\ op.plan \in Outcomes[op.key]
      /\ MainOK(op, live, Shown) /\ Balanced(op, live, object)
  BY <1>1, EvaluationWeighed
<1>3. PICK plan : plan = IF peer = op.key THEN op.plan ELSE Render[peer][op.list[peer].spec][pool]
  OBVIOUS
<1>4. plan \in Outcomes[peer]
  <2>1. op.list[peer].spec \in Specs /\ pool \in Pools
    BY OpFacts DEF BindingStates, ReconcilerInvariant, TypeOK
  <2>2. CASE peer = op.key
    BY <1>2, <1>3, <2>2
  <2>3. CASE peer # op.key
    BY <1>3, <2>1, <2>3, OutcomeOf
  <2>. QED
    BY <2>2, <2>3
<1>5. CASE op' = ApplyFailed(op)
  BY <1>5, FinishWeighed DEF ApplyFailed
<1>6. CASE plan \in Plans /\ op' # ApplyFailed(op)
  <2>1. PICK o1 : o1 = [op EXCEPT !.who = peer, !.plans = [op.plans EXCEPT ![peer] = plan]]
    OBVIOUS
  <2>2. [[op EXCEPT !.who = peer] EXCEPT !.plans = [@ EXCEPT ![peer] = plan]] = o1
    BY <1>2, <2>1 DEF OpStates
  <2>3. op' = NextPeer([[op EXCEPT !.who = peer] EXCEPT !.plans = [@ EXCEPT ![peer] = plan]])
    BY <1>3, <1>6 DEF RenderPeer
  <2>4. op' = NextPeer(o1)
    BY <2>2, <2>3
  <2>5. peer = op.key => plan = op.plan
    BY <1>3
  <2>6. Weighed(NextPeer(o1), live, Shown, object)
    BY <1>2, <1>4, <1>6, <2>1, <2>5, PeerRendered
  <2>. QED
    BY <2>4, <2>6, LocalWeighed DEF RenderPeer
<1>7. CASE plan \notin Plans /\ op' # ApplyFailed(op)
  <2>1. op' = ListManaged(op, peer, "brokenPeer")
    BY <1>3, <1>7 DEF RenderPeer
  <2>2. peer # op.key
    BY <1>2, <1>3, <1>7
  <2>3. peer \notin Rivals[op.key]
    BY <1>2, <1>4, <1>7, RivalsFacts
  <2>4. Weighed(op', live, Shown, object)
    BY <1>1, <2>1, <2>2, <2>3, ListManagedCall
  <2>. QED
    BY <2>4, LocalWeighed DEF RenderPeer
<1>. QED
  BY <1>5, <1>6, <1>7

\* Without conflicts no rival has an output, or the reconcile comes to nothing
\* (currentBindingConflictState).
LEMMA ConflictFree ==
    ASSUME ReconcilerInvariant, ExclusionInvariant, op.pc = "evaluate", op.todo = {}, Members(op) = {}
    PROVE  Unopposed(op, live, object)
<1>1. /\ op \in OpStates /\ op.key \in Bindings /\ op.plan # NoPlan /\ op.plan \in Outcomes[op.key]
      /\ Balanced(op, live, object)
  BY EvaluationWeighed
<1>. SUFFICES ASSUME ~Doomed(op, live), NEW c \in Rivals[op.key] PROVE NoOutput(object, c)
  BY DEF Unopposed, NoRivalOutput
<1>2. op.plans[op.key] = op.plan
  BY <1>1 DEF Balanced
<1>3. c \in Bindings /\ c # op.key
  BY <1>1, RivalsFacts
<1>4. op.plans[c] = NoPlan
  <2>. SUFFICES ASSUME op.plans[c] # NoPlan PROVE FALSE
    OBVIOUS
  <2>1. op.plans[c] \in Outcomes[c]
    BY <1>1, <1>3 DEF Balanced
  <2>2. Competes(op.plans[op.key], op.plans[c])
    BY <1>1, <1>2, <2>1, RivalsFacts
  <2>. DEFINE plans == [b \in {p \in Bindings : op.plans[p] # NoPlan} |-> op.plans[b]]
  <2>3. /\ op.key \in DOMAIN plans /\ c \in DOMAIN plans
        /\ plans[op.key] = op.plans[op.key] /\ plans[c] = op.plans[c]
    BY <1>1, <1>2, <1>3
  <2>4. Conflicts(op) = ConflictPeers(plans, op.key)
    BY DEF Conflicts
  <2>. HIDE DEF plans
  <2>5. c \in Conflicts(op)
    BY <1>3, <2>2, <2>3, <2>4 DEF ConflictPeers
  <2>. QED
    BY <2>5 DEF Members
<1>. QED
  BY <1>1, <1>4 DEF Balanced

\* The evaluation is over (DecideConflict).
LEMMA DecideConflictWeighed ==
    ASSUME ReconcilerInvariant, ExclusionInvariant, DecideConflict
    PROVE  Weighed(op', live', Shown', object')
<1>1. op.pc = "evaluate" /\ op.todo = {}
  BY DEF DecideConflict
<1>2. /\ op \in OpStates /\ op.key \in Bindings /\ op.main.there /\ op.main.fin /\ ~op.main.deleting
      /\ op.plan \in Plans /\ op.plan # NoPlan /\ op.plan \in Outcomes[op.key] /\ MainOK(op, live, Shown)
  BY <1>1, EvaluationWeighed
<1>3. CASE Members(op) # {}
  <2>1. op' = [op EXCEPT !.pc = "withdraw", !.members = Members(op), !.todo = Members(op)]
    BY <1>3 DEF DecideConflict
  <2>2. op'.pc = "withdraw" /\ op'.key = op.key /\ op'.main = op.main /\ op'.plan = op.plan
    BY <1>2, <2>1 DEF OpStates
  <2>3. MainOK(op', live, Shown)
    BY <1>2, <2>2 DEF MainOK, StillPending
  <2>4. Weighed(op', live, Shown, object)
    BY <1>2, <2>2, <2>3 DEF Weighed
  <2>. QED
    BY <2>4, LocalWeighed DEF DecideConflict
<1>4. CASE Members(op) = {}
  <2>1. PICK key \in Bindings, main \in BindingStates, plan \in Plans :
          key = op.key /\ main = op.main /\ plan = op.plan
    BY <1>2, OpFacts
  <2>2. PICK free : free = Planned(key, main, plan)
    OBVIOUS
  <2>3. /\ free \in OpStates /\ free.key = key /\ free.main = main /\ free.plan = plan
        /\ \A b \in Bindings : free.list[b] = AbsentBinding(0)
    BY <2>2, PlannedFields, SMTT(30)
  <2>4. Unopposed(op, live, object)
    BY <1>1, <1>4, ConflictFree
  <2>5. MainOK(free, live, Shown) /\ Unopposed(free, live, object)
    BY <1>2, <2>1, <2>3, <2>4 DEF MainOK, StillPending, Unopposed, Doomed
  <2>6. op' = [free EXCEPT !.pc = "apply"] \/ op' = CleanUp(free, Main, "rename")
    BY <1>4, <2>1, <2>2 DEF DecideConflict, Planned
  <2>7. CASE op' = [free EXCEPT !.pc = "apply"]
    <3>1. SameCase(free, op') /\ op'.pc = "apply"
      BY <2>3, <2>7 DEF OpStates, SameCase
    <3>2. MainOK(op', live, Shown) /\ Unopposed(op', live, object)
      BY <2>5, <3>1, SameCaseKeeps
    <3>3. Weighed(op', live, Shown, object)
      BY <1>2, <2>1, <2>3, <3>1, <3>2 DEF Weighed, SameCase
    <3>. QED
      BY <3>3, LocalWeighed DEF DecideConflict
  <2>8. CASE op' = CleanUp(free, Main, "rename")
    <3>1. free.list[free.key].rv <= live[free.key].rv
      BY <2>3, FreshList
    <3>2. Weighed(op', live, Shown, object)
      BY <1>2, <2>1, <2>3, <2>5, <2>8, <3>1, CleanUpMain
    <3>. QED
      BY <3>2, LocalWeighed DEF DecideConflict
  <2>. QED
    BY <2>6, <2>7, <2>8
<1>. QED
  BY <1>3, <1>4

\* Withdrawing the output of a member (WithdrawMember).
LEMMA WithdrawMemberWeighed ==
    ASSUME ReconcilerInvariant, ExclusionInvariant, NEW m \in Bindings \cup {Main}, WithdrawMember(m)
    PROVE  Weighed(op', live', Shown', object')
<1>1. PICK call : call = [op EXCEPT !.pc = "observe", !.who = m, !.mode = "cleanup", !.ret = "withdraw"]
  OBVIOUS
<1>2. /\ op \in OpStates /\ op.key \in Bindings /\ op.main.there /\ op.main.fin /\ ~op.main.deleting
      /\ op.plan \in Plans /\ op.plan \in Outcomes[op.key]
      /\ MainOK(op, live, Shown) /\ op.list[op.key].rv <= live[op.key].rv
      /\ live \in [Bindings -> BindingStates]
  BY EvaluationWeighed DEF WithdrawMember
<1>3. Waiting(call, live, Shown, object)
  BY <1>1, <1>2, CallWaits
<1>4. Weighed(CleanUp(op, m, "withdraw"), live, Shown, object)
  BY <1>1, <1>2, <1>3, CleanUpWeighed
<1>. QED
  BY <1>4, LocalWeighed DEF WithdrawMember

\* Looking for the output of a member (ConfirmAbsent).
LEMMA ConfirmAbsentWeighed ==
    ASSUME ReconcilerInvariant, ExclusionInvariant, NEW m \in Bindings \cup {Main}, ConfirmAbsent(m)
    PROVE  Weighed(op', live', Shown', object')
<1>1. Weighed(ListManaged(op, m, "withdraw"), live, Shown, object)
  BY ListManagedCall DEF ConfirmAbsent
<1>. QED
  BY <1>1, LocalWeighed DEF ConfirmAbsent

\* From one loop of the withdrawal to the other, and to its end (WithdrawnAll and SettleConflict).
LEMMA WithdrawalWeighed ==
    ASSUME ReconcilerInvariant, ExclusionInvariant, WithdrawnAll \/ SettleConflict
    PROVE  Weighed(op', live', Shown', object')
<1>1. op.pc \in {"withdraw", "confirmAbsent"}
  BY DEF WithdrawnAll, SettleConflict
<1>2. /\ op \in OpStates /\ op.key \in Bindings /\ ~op.main.deleting
      /\ op.plan \in Outcomes[op.key] /\ MainOK(op, live, Shown)
  BY <1>1, EvaluationWeighed
<1>3. CASE WithdrawnAll
  <2>1. op' = [op EXCEPT !.pc = "confirmAbsent", !.todo = op.members]
    BY <1>3 DEF WithdrawnAll
  <2>2. op'.pc = "confirmAbsent" /\ op'.key = op.key /\ op'.main = op.main /\ op'.plan = op.plan
    BY <1>2, <2>1 DEF OpStates
  <2>3. MainOK(op', live, Shown)
    BY <1>2, <2>2 DEF MainOK, StillPending
  <2>4. Weighed(op', live, Shown, object)
    BY <1>2, <2>2, <2>3 DEF Weighed
  <2>. QED
    BY <1>3, <2>4, LocalWeighed DEF WithdrawnAll
<1>4. CASE SettleConflict
  <2>1. op' = Finish(op, "PendingConflict") \/ op' = [Finish(op, "Conflict") EXCEPT !.members = op.members]
    BY <1>4 DEF SettleConflict
  <2>2. \A cond : Finish(op, cond).pc = "status"
    BY DEF Finish, IdleOp
  <2>3. Finish(op, "Conflict") \in OpStates
    BY <1>2, FinishOK DEF Conditions
  <2>4. op'.pc = "status"
    BY <2>1, <2>2, <2>3 DEF OpStates
  <2>. QED
    BY <2>4 DEF Weighed
<1>. QED
  BY <1>3, <1>4

\* The memory inside a helper.
LEMMA HelperWaits ==
    ASSUME ReconcilerInvariant, ExclusionInvariant, op.pc \in {"observe", "confirm", "clear", "delete"}
    PROVE  /\ op \in OpStates /\ op.key \in Bindings /\ op.main.there /\ op.mode # ""
           /\ live \in [Bindings -> BindingStates]
           /\ MainOK(op, live, Shown) /\ (op.plan # NoPlan => op.plan \in Outcomes[op.key])
           /\ op.mode \in {"cleanup", "list"} => Waiting(op, live, Shown, object)
           /\ op.mode \in {"apply", "created"} => op.who = Main /\ ~op.main.deleting
           /\ op.mode = "apply" => Unopposed(op, live, object)
<1>1. op.pc \notin {"idle", "status"}
  OBVIOUS
<1>2. /\ op \in OpStates /\ op.key \in Bindings /\ op.main.there
      /\ Weighed(op, live, Shown, object) /\ MainOK(op, live, Shown)
      /\ op.plan # NoPlan => op.plan \in Outcomes[op.key]
      /\ op.list[op.key].rv <= live[op.key].rv
      /\ live \in [Bindings -> BindingStates]
  BY <1>1, WeighedFacts
<1>3. /\ op.mode = "apply" => Unopposed(op, live, object)
      /\ op.mode \in {"cleanup", "list"} => Entered(op, live, object)
      /\ op.mode \in {"apply", "created"} => ~op.main.deleting
  BY <1>1, <1>2 DEF Weighed
<1>4. op.mode \in {"cleanup", "list"} => Called(op)
  BY <1>2, OpFacts DEF Shape, Called
<1>5. op.mode # "" /\ (op.mode \in {"apply", "created"} => op.who = Main)
  BY OpFacts DEF Shape
<1>. QED
  BY <1>2, <1>3, <1>4, <1>5 DEF Waiting

\* Looking for the recorded object (Observe).
LEMMA ObserveWeighed ==
    ASSUME ReconcilerInvariant, ExclusionInvariant, NEW r, Observe(r)
    PROVE  Weighed(op', live', Shown', object')
<1>1. op.pc = "observe" /\ op.mode \in {"cleanup", "list"}
  BY OpFacts DEF Observe, Shape
<1>2. op \in OpStates /\ live \in [Bindings -> BindingStates] /\ Waiting(op, live, Shown, object)
  BY <1>1, HelperWaits
<1>3. PICK seen \in ObjectStates : seen = object[Copy(op, op.who).rec.name]
  <2>1. op.key \in Bindings /\ Copy(op, op.who).rec.kind # "unclaimed"
    BY <1>1, OpFacts DEF Shape
  <2>2. Copy(op, op.who).rec \in Records
    BY <2>1, PursuedCopy
  <2>3. Copy(op, op.who).rec.name \in Names
    BY <2>1, <2>2 DEF Records, WellFormed
  <2>. QED
    BY <2>3, ObjectFacts
<1>4. PICK o : o = [op EXCEPT !.seen = seen]
  OBVIOUS
<1>5. o \in OpStates
  BY <1>2, <1>4 DEF OpStates
<1>6. /\ SameCase(op, o) /\ o.who = op.who /\ o.ret = op.ret /\ o.mode = op.mode
      /\ o.seen = seen
  BY <1>2, <1>4 DEF OpStates, SameCase
<1>7. Waiting(o, live, Shown, object)
  BY <1>2, <1>5, <1>6, WaitingKeeps
<1>8. CASE op' = ApplyFailed(op)
  BY <1>8, FinishWeighed DEF ApplyFailed
<1>9. ASSUME NEW pc \in {"clear", "confirm"}, op' = [o EXCEPT !.pc = pc] PROVE Weighed(op', live, Shown, object)
  <2>1. op' \in OpStates
    BY <1>5, <1>9 DEF OpStates, Steps
  <2>2. SameCase(o, op') /\ op'.who = o.who /\ op'.ret = o.ret /\ op'.mode = o.mode /\ op'.pc = pc
    BY <1>5, <1>9 DEF OpStates, SameCase
  <2>3. Waiting(op', live, Shown, object)
    BY <1>7, <2>1, <2>2, WaitingKeeps
  <2>. QED
    BY <1>1, <1>6, <2>2, <2>3, CallWeighed
<1>10. ASSUME op' = Settled(o, TRUE) PROVE Weighed(op', live, Shown, object)
  <2>1. o.mode # "" /\ o.mode # "apply"
    BY <1>1, <1>6
  <2>2. Weighed(Settled(o, TRUE), live, Shown, object)
    BY <1>2, <1>5, <1>7, <2>1, SettledWeighed
  <2>. QED
    BY <1>10, <2>2
<1>11. \/ op' = ApplyFailed(op) \/ op' = Settled(o, TRUE)
       \/ op' = [o EXCEPT !.pc = "clear"] \/ op' = [o EXCEPT !.pc = "confirm"]
  BY <1>3, <1>4 DEF Observe
<1>12. CASE op' # ApplyFailed(op)
  <2>1. Weighed(op', live, Shown, object)
    BY <1>9, <1>10, <1>11, <1>12
  <2>. QED
    BY <2>1, LocalWeighed DEF Observe
<1>. QED
  BY <1>8, <1>12

\* Deleting the recorded object (Delete).
LEMMA DeleteWeighed ==
    ASSUME ReconcilerInvariant, ExclusionInvariant, NEW r, Delete(r), Shrinks(object, object')
    PROVE  Weighed(op', live', Shown', object')
<1>1. op.pc = "delete" /\ op.mode = "cleanup"
  BY OpFacts DEF Delete, Shape
<1>2. /\ op \in OpStates /\ op.key \in Bindings /\ live \in [Bindings -> BindingStates]
      /\ Waiting(op, live, Shown, object)
  BY <1>1, HelperWaits
<1>3. CASE op' = ApplyFailed(op)
  BY <1>3, FinishWeighed DEF ApplyFailed
<1>4. CASE op' = CleanedUp(op)
  <2>1. op.main.rv \in Nat /\ live[op.key].rv \in Nat
    BY <1>2, OpFacts, LiveFacts DEF BindingStates
  <2>2. Advances(op, live, live)
    BY <2>1, Versions DEF Advances
  <2>3. Waiting(op, live, Shown, object')
    BY <1>2, <2>2, EnteredStays DEF Waiting
  <2>4. Weighed(op', live, Shown, object')
    BY <1>2, <1>4, <2>3, CleanedUpWeighed
  <2>5. live' = live /\ Shown' = Shown
    BY DEF Delete, Shown, Cached
  <2>. QED
    BY <2>4, <2>5
<1>. QED
  BY <1>3, <1>4 DEF Delete

\* A ClusterSPIFFEID call finds no CRD (CRDMissing).
LEMMA CRDMissingWeighed ==
    ASSUME ReconcilerInvariant, ExclusionInvariant, CRDMissing
    PROVE  Weighed(op', live', Shown', object')
<1>1. /\ op \in OpStates /\ op.key \in Bindings /\ op.main.there /\ op.main.fin /\ ~op.main.deleting
      /\ op.plan \in Outcomes[op.key] /\ MainOK(op, live, Shown) /\ op.list[op.key].rv <= live[op.key].rv
  BY EvaluationWeighed DEF CRDMissing
<1>2. Weighed(CleanUp(op, Main, "stateError"), live, Shown, object)
  BY <1>1, CleanUpMain
<1>. QED
  BY <1>2, LocalWeighed DEF CRDMissing

\* Looking for the desired object (ObserveDesired).
LEMMA ObserveDesiredWeighed ==
    ASSUME ReconcilerInvariant, ExclusionInvariant, NEW r, ObserveDesired(r)
    PROVE  Weighed(op', live', Shown', object')
<1>1. op.pc = "apply"
  BY DEF ObserveDesired
<1>2. /\ op \in OpStates /\ op.key \in Bindings /\ op.main.there /\ ~op.main.deleting
      /\ op.plan \in Plans /\ op.plan \in Outcomes[op.key] /\ MainOK(op, live, Shown)
      /\ live \in [Bindings -> BindingStates]
      /\ Unopposed(op, live, object)
  BY <1>1, EvaluationWeighed
<1>3. PICK seen \in ObjectStates : seen = object[op.plan.name]
  BY <1>2, ObjectFacts, ConstantsAssumption
<1>4. PICK o : o = [op EXCEPT !.who = Main, !.mode = "apply", !.seen = seen]
  OBVIOUS
<1>5. o \in OpStates
  BY <1>2, <1>4 DEF OpStates
<1>6. SameCase(op, o) /\ o.who = Main /\ o.mode = "apply" /\ o.seen = seen
  BY <1>2, <1>4 DEF OpStates, SameCase
<1>7. /\ o.key \in Bindings /\ MainOK(o, live, Shown) /\ ~o.main.deleting
      /\ o.plan \in Outcomes[o.key] /\ Unopposed(o, live, object)
  <2>1. MainOK(o, live, Shown) /\ Unopposed(o, live, object)
    BY <1>2, <1>6, SameCaseKeeps
  <2>. QED
    BY <1>2, <1>6, <2>1 DEF SameCase
<1>8. ASSUME NEW pc \in {"clear", "confirm", "create"}, op' = [o EXCEPT !.pc = pc]
      PROVE  Weighed(op', live, Shown, object)
  <2>1. SameCase(o, op') /\ op'.mode = "apply" /\ op'.pc = pc
    BY <1>5, <1>6, <1>8 DEF OpStates, SameCase
  <2>2. MainOK(op', live, Shown) /\ Unopposed(op', live, object)
    BY <1>7, <2>1, SameCaseKeeps
  <2>. QED
    BY <1>7, <2>1, <2>2 DEF Weighed, SameCase
<1>9. ASSUME NEW found \in BOOLEAN, op' = Settled(o, found), found \/ op.main.rec = Unclaimed
      PROVE  Weighed(op', live, Shown, object)
  <2>1. Copy(o, o.who) = op.main
    BY <1>6 DEF Copy, SameCase
  <2>2. o.mode # "" /\ o.mode \notin {"cleanup", "list"}
    BY <1>6
  <2>3. found \/ Copy(o, o.who).rec = Unclaimed
    BY <1>9, <2>1
  <2>4. Weighed(Settled(o, found), live, Shown, object)
    BY <1>2, <1>5, <1>7, <2>2, <2>3, SettledWeighed
  <2>. QED
    BY <1>9, <2>4
<1>10. \/ op' = ApplyFailed(op)
       \/ op.main.rec.kind = "unclaimed" /\ op' = Settled(o, FALSE)
       \/ op' = Settled(o, TRUE)
       \/ op' = [o EXCEPT !.pc = "clear"] \/ op' = [o EXCEPT !.pc = "confirm"]
       \/ op' = [o EXCEPT !.pc = "create"]
  <2>1. CASE op.main.rec.kind = "unclaimed"
    BY <1>3, <1>4, <2>1 DEF ObserveDesired
  <2>2. CASE op.main.rec.kind = "pending"
    BY <1>3, <1>4, <2>2 DEF ObserveDesired
  <2>3. CASE op.main.rec.kind # "unclaimed" /\ op.main.rec.kind # "pending"
    BY <1>3, <1>4, <2>3 DEF ObserveDesired
  <2>. QED
    BY <2>1, <2>2, <2>3
<1>11. op.main.rec.kind = "unclaimed" => op.main.rec = Unclaimed
  BY OpFacts DEF BindingStates, Records, WellFormed
<1>12. CASE op' = ApplyFailed(op)
  BY <1>12, FinishWeighed DEF ApplyFailed
<1>13. CASE op' # ApplyFailed(op)
  <2>1. Weighed(op', live, Shown, object)
    BY <1>8, <1>9, <1>10, <1>11, <1>13
  <2>. QED
    BY <2>1, LocalWeighed DEF ObserveDesired
<1>. QED
  BY <1>12, <1>13

\* Creating the output (Create).
LEMMA CreateWeighed ==
    ASSUME ReconcilerInvariant, ExclusionInvariant, NEW r, Create(r)
    PROVE  Weighed(op', live', Shown', object')
<1>1. /\ op \in OpStates /\ op.key \in Bindings /\ ~op.main.deleting
      /\ op.plan \in Outcomes[op.key] /\ MainOK(op, live, Shown)
  BY EvaluationWeighed DEF Create
<1>2. CASE op' = ApplyFailed(op)
  BY <1>2, FinishWeighed DEF ApplyFailed
<1>3. CASE op' # ApplyFailed(op)
  <2>1. PICK seen : op' = [op EXCEPT !.pc = "confirm", !.mode = "created", !.seen = seen]
    BY <1>3 DEF Create
  <2>2. op'.pc = "confirm" /\ op'.mode = "created" /\ op'.key = op.key /\ op'.main = op.main /\ op'.plan = op.plan
    BY <1>1, <2>1 DEF OpStates
  <2>3. live' = live /\ Shown' = Shown
    BY DEF Create, Shown, Cached
  <2>4. MainOK(op', live, Shown)
    BY <1>1, <2>2 DEF MainOK, StillPending
  <2>5. Weighed(op', live, Shown, object')
    BY <1>1, <2>2, <2>4 DEF Weighed
  <2>. QED
    BY <2>3, <2>5
<1>. QED
  BY <1>2, <1>3

\* While the fetched copy is the stored binding, an unopposed reconcile has no rival with
\* an output, and stays unopposed when the copy is written.
LEMMA UnopposedCurrent ==
    ASSUME ReconcilerInvariant, op.key \in Bindings, Unopposed(op, live, object), op.main = live[op.key],
           NEW o, o.key = op.key, NEW lv
    PROVE  Unopposed(o, lv, object)
<1>1. PICK i \in Nat : i = live[op.key].rv
  BY LiveFacts
<1>2. ~(i < i)
  BY Versions
<1>3. ~Doomed(op, live)
  BY <1>1, <1>2 DEF Doomed
<1>. QED
  BY <1>3 DEF Unopposed

\* Reserving the claim (Reserve).
LEMMA ReserveWeighed ==
    ASSUME ReconcilerInvariant, ExclusionInvariant, [Next]_vars, NEW r, Reserve(r)
    PROVE  Weighed(op', live', Shown', object')
<1>1. op.pc = "reserve" /\ op.who = Main /\ op.main.there
  BY OpFacts DEF Reserve, Shape
<1>2. /\ op \in OpStates /\ op.key \in Bindings
      /\ Weighed(op, live, Shown, object) /\ MainOK(op, live, Shown)
      /\ op.plan # NoPlan => op.plan \in Outcomes[op.key]
  BY <1>1, WeighedFacts
<1>3. ~op.main.deleting /\ Unopposed(op, live, object)
  BY <1>1, <1>2 DEF Weighed
<1>4. CASE op' = ApplyFailed(op)
  BY <1>4, FinishWeighed DEF ApplyFailed
<1>5. CASE op' # ApplyFailed(op)
  <2>1. PICK k \in Bindings : k = op.key
    BY <1>2
  <2>2. Target(op.who) = k /\ Copy(op, op.who) = op.main
    BY <1>1, <2>1 DEF Target, Copy
  <2>3. live \in [Bindings -> BindingStates] /\ live[k] \in BindingStates
    BY LiveFacts
  <2>4. PICK rec, new : /\ new = [Recorded(rec) EXCEPT !.cond = "PendingOutput", !.shown = NoPlan]
                        /\ PatchOwnership(r, new, [op EXCEPT !.pc = "create", !.main = new])
    BY DEF Reserve
  <2>5. /\ op.main.rv = live[k].rv /\ live' = [live EXCEPT ![k] = new]
        /\ op' = [op EXCEPT !.pc = "create", !.main = new]
    BY <1>5, <2>2, <2>4 DEF PatchOwnership
  <2>6. new.there = live[k].there /\ new.deleting = live[k].deleting /\ new.rv = live[k].rv + 1
    BY <2>2, <2>3, <2>4 DEF Recorded, BindingStates
  <2>7. op.main = live[k]
    BY <1>2, <2>1, <2>5 DEF ReconcilerInvariant, Copies, IsCopy
  <2>8. PICK o : o = op'
    OBVIOUS
  <2>9. o.pc = "create" /\ o.key = op.key /\ o.main = new /\ o.plan = op.plan
    BY <1>2, <2>5, <2>8 DEF OpStates
  <2>10. live'[k] = new
    BY <2>3, <2>5
  <2>11. /\ o.key = op.key /\ o.main = live'[op.key] /\ o.main.there
         /\ (o.main.deleting <=> op.main.deleting) /\ o.main.rv = live[op.key].rv + 1
    BY <1>1, <2>1, <2>6, <2>7, <2>9, <2>10
  <2>12. MainOK(o, live', Shown')
    BY <1>1, <1>2, <2>1, <2>7, <2>11, MainPatched
  <2>13. Unopposed(o, live', object)
    BY <1>2, <1>3, <2>1, <2>7, <2>9, UnopposedCurrent
  <2>14. object' = object
    BY DEF Reserve
  <2>15. Weighed(o, live', Shown', object)
    BY <1>2, <1>3, <2>9, <2>11, <2>12, <2>13 DEF Weighed
  <2>. QED
    BY <2>8, <2>14, <2>15
<1>. QED
  BY <1>4, <1>5

-----------------------------------------------------------------------------
(* Writing the record (patchOwnershipStatus). *)

\* Memory o is op after the stored binding of the copy op.who, and the copy with it,
\* became new.
Patched(o, new) ==
    LET b == Target(op.who)
    IN  /\ o \in OpStates
        /\ o.key = op.key /\ o.plan = op.plan /\ o.who = op.who /\ o.mode = op.mode
        /\ o.ret = op.ret /\ o.todo = op.todo /\ o.plans = op.plans
        /\ b \in Bindings /\ Copy(op, op.who) = live[b] /\ Copy(o, o.who) = new /\ live'[b] = new
        /\ new.rv = live[b].rv + 1 /\ new.there = live[b].there /\ new.fin = live[b].fin
        /\ new.deleting = live[b].deleting
        /\ op.who = Main => o.main = new /\ o.list = op.list
        /\ op.who # Main => /\ o.main = op.main
                            /\ \A x \in Bindings : o.list[x] = IF x = op.who THEN new ELSE op.list[x]

\* The patch fails, or it leaves such a memory.
LEMMA PatchedMemory ==
    ASSUME NEW r, NEW rec \in Records, NEW found, ReconcilerInvariant,
           op.pc \in {"confirm", "clear"},
           PatchOwnership(r, Recorded(rec), Settled(WithCopy(op, op.who, Recorded(rec)), found))
    PROVE  \/ op' = ApplyFailed(op)
           \/ \E o, new : Patched(o, new) /\ new.rec = rec /\ op' = Settled(o, found)
<1>1. op \in OpStates /\ op.key \in Bindings
  BY OpFacts
<1>2. PICK b \in Bindings : b = Target(op.who)
  BY <1>1, PursuedCopy
<1>3. PICK c \in BindingStates : c = Copy(op, op.who)
  BY <1>1, PursuedCopy
<1>4. IsCopy(c, b) /\ live \in [Bindings -> BindingStates] /\ live[b] \in BindingStates
  BY <1>1, <1>2, <1>3, PursuedCopy, LiveFacts
<1>5. PICK new : new = Recorded(rec)
  OBVIOUS
<1>6. new \in BindingStates /\ new.rec = rec /\ new.rv = live[b].rv + 1
  BY <1>1, <1>2, <1>5, RecordedFields
<1>7. new.there = live[b].there /\ new.fin = live[b].fin /\ new.deleting = live[b].deleting
  BY <1>2, <1>4, <1>5 DEF Recorded, BindingStates
<1>8. PICK o : o = WithCopy(op, op.who, new)
  OBVIOUS
<1>9. /\ o \in OpStates
      /\ o.key = op.key /\ o.plan = op.plan /\ o.who = op.who /\ o.mode = op.mode
      /\ o.ret = op.ret /\ o.seen = op.seen
      /\ Copy(o, o.who) = new
      /\ op.who = Main => o.main = new /\ o.list = op.list
      /\ op.who # Main => /\ o.main = op.main
                          /\ \A x \in Bindings : o.list[x] = IF x = op.who THEN new ELSE op.list[x]
  BY <1>1, <1>6, <1>8, WithCopyFields, SMTT(30)
<1>10. o.todo = op.todo
  BY <1>1, <1>6, <1>8, WithCopyProgress
<1>11. o.plans = op.plans
  <2>1. CASE op.who = Main
    <3>1. o = [op EXCEPT !.main = new]
      BY <1>8, <2>1 DEF WithCopy
    <3>. QED
      BY <1>1, <3>1 DEF OpStates
  <2>2. CASE op.who # Main
    <3>1. o = [op EXCEPT !.list = [op.list EXCEPT ![op.who] = new]]
      BY <1>1, <1>8, <2>2 DEF WithCopy, OpStates
    <3>. QED
      BY <1>1, <3>1 DEF OpStates
  <2>. QED
    BY <2>1, <2>2
<1>12. \/ op' = ApplyFailed(op)
       \/ c.rv = live[b].rv /\ live' = [live EXCEPT ![b] = new] /\ op' = Settled(o, found)
  <2>1. PatchOwnership(r, new, Settled(o, found))
    BY <1>5, <1>8
  <2>2. op' # ApplyFailed(op) => c.rv = live[b].rv /\ r = "ok" /\ op' = Settled(o, found)
    BY <1>2, <1>3, <2>1 DEF PatchOwnership
  <2>3. c.rv = live[b].rv /\ r = "ok" => live' = [live EXCEPT ![b] = new]
    BY <1>2, <1>3, <2>1 DEF PatchOwnership
  <2>. QED
    BY <2>2, <2>3
<1>13. CASE op' = ApplyFailed(op)
  BY <1>13
<1>14. CASE c.rv = live[b].rv /\ live' = [live EXCEPT ![b] = new] /\ op' = Settled(o, found)
  <2>1. c = live[b]
    BY <1>4, <1>14 DEF IsCopy
  <2>2. live'[b] = new
    BY <1>4, <1>14
  <2>3. Patched(o, new)
    BY <1>2, <1>3, <1>6, <1>7, <1>9, <1>10, <1>11, <2>1, <2>2 DEF Patched
  <2>. QED
    BY <1>6, <1>14, <2>3
<1>. QED
  BY <1>12, <1>13, <1>14

\* The fetched copy in it is in good order.
LEMMA PatchedMain ==
    ASSUME ReconcilerInvariant, [Next]_vars, op.pc \in {"confirm", "clear"}, op.key \in Bindings,
           op.main.there, MainOK(op, live, Shown), NEW o, NEW new, Patched(o, new)
    PROVE  /\ MainOK(o, live', Shown') /\ o.main.there /\ (o.main.deleting <=> op.main.deleting)
           /\ Advances(op, live, live')
<1>1. ~\E r \in Replies : Reserve(r)
  BY DEF Reserve
<1>2. Advances(op, live, live') /\ MainOK(op, live', Shown')
  BY <1>1, MainKept
<1>3. PICK b \in Bindings : b = Target(op.who)
  BY DEF Patched
<1>4. CASE op.who = Main
  <2>1. b = op.key /\ Copy(op, op.who) = op.main
    BY <1>3, <1>4 DEF Target, Copy
  <2>2. /\ o.key = op.key /\ op.main = live[op.key] /\ o.main = new /\ live'[op.key] = new
        /\ new.rv = live[op.key].rv + 1 /\ new.there = live[op.key].there
        /\ new.deleting = live[op.key].deleting
    BY <1>3, <1>4, <2>1 DEF Patched
  <2>3. o.main = live'[op.key] /\ o.main.there /\ (o.main.deleting <=> op.main.deleting)
        /\ o.main.rv = live[op.key].rv + 1
    BY <2>2
  <2>4. MainOK(o, live', Shown')
    BY <2>2, <2>3, MainPatched
  <2>. QED
    BY <1>2, <2>3, <2>4
<1>5. CASE op.who # Main
  <2>1. o.main = op.main /\ o.key = op.key
    BY <1>5 DEF Patched
  <2>2. MainOK(o, live', Shown')
    BY <1>2, <2>1 DEF MainOK, StillPending
  <2>. QED
    BY <1>2, <2>1, <2>2
<1>. QED
  BY <1>4, <1>5

\* The evaluation it interrupted is as balanced as before.
LEMMA PatchedBalanced ==
    ASSUME ReconcilerInvariant, NoOrphan', NeverAdopts', object' = object, op.key \in Bindings,
           op.who # Main, Advances(op, live, live'), Balanced(op, live, object),
           NEW o, NEW new, Patched(o, new)
    PROVE  Balanced(o, live', object)
<1>1. PICK k \in Bindings : k = op.key
  OBVIOUS
<1>2. PICK b \in Bindings : b = op.who /\ live'[b] = new /\ new.rv = live[b].rv + 1
  BY DEF Patched, Target
<1>3. /\ o.key = k /\ o.main = op.main /\ o.plan = op.plan /\ o.todo = op.todo /\ o.plans = op.plans
      /\ \A x \in Bindings : o.list[x] = IF x = b THEN new ELSE op.list[x]
  BY <1>1, <1>2 DEF Patched
<1>4. ASSUME NEW c \in Rivals[k] \ o.todo, o.plans[c] = NoPlan PROVE NoOutput(object, c)
  BY <1>1, <1>3, <1>4 DEF Balanced
<1>5. ASSUME NEW x \in Bindings
      PROVE  /\ o.plans[x] # NoPlan => o.plans[x] \in Outcomes[x]
             /\ LeadsToOutput(object, x, o.list[x])
  <2>1. /\ op.plans[x] # NoPlan => op.plans[x] \in Outcomes[x]
        /\ LeadsToOutput(object, x, op.list[x])
    BY DEF Balanced
  <2>2. CASE x = b
    <3>1. o.list[x] = new /\ live'[x] = new
      BY <1>2, <1>3, <2>2
    <3>2. \A n \in Names : HasOutput(object', x, n) => live'[x].rec.name = n /\ Matches(live'[x].rec, object'[n])
      BY OutputOwnedNext
    <3>3. LeadsToOutput(object, x, o.list[x])
      BY <3>1, <3>2 DEF LeadsToOutput
    <3>. QED
      BY <1>3, <2>1, <3>3
  <2>3. CASE x # b
    BY <1>3, <2>1, <2>3
  <2>. QED
    BY <2>2, <2>3
<1>6. \A lv : (StillPending(o, lv) <=> StillPending(op, lv)) /\ (Doomed(op, lv) => Doomed(o, lv))
  BY <1>1, <1>3 DEF StillPending, Doomed
<1>7. k \in o.todo \/ o.plans[k] = o.plan \/ Doomed(o, live')
  BY <1>1, <1>3, <1>6, DoomedStays DEF Balanced
<1>8. ASSUME k \in o.todo, o.list[k].deleting
      PROVE  o.list[k].rv > o.main.rv /\ (StillPending(o, live') => o.list[k].rec = o.main.rec)
  <2>1. CASE k = b
    <3>1. o.list[k] = new /\ live'[k] = new /\ new.rv = live[k].rv + 1
      BY <1>2, <1>3, <2>1
    <3>2. PICK i \in Nat : i = op.main.rv
      BY OpFacts DEF BindingStates
    <3>3. PICK j \in Nat : j = live[k].rv
      BY LiveFacts
    <3>4. i <= j
      BY <1>1, <3>2, <3>3 DEF ReconcilerInvariant, Copies, IsCopy
    <3>5. new.rv > i
      BY <3>1, <3>3, <3>4, NextVersion
    <3>6. StillPending(o, live') => o.list[k].rec = o.main.rec
      BY <1>3, <3>1 DEF StillPending
    <3>. QED
      BY <1>3, <3>1, <3>2, <3>5, <3>6
  <2>2. CASE k # b
    <3>1. o.list[k] = op.list[k]
      BY <1>3, <2>2
    <3>2. op.list[k].rv > op.main.rv /\ (StillPending(op, live) => op.list[k].rec = op.main.rec)
      BY <1>1, <1>3, <1>8, <3>1 DEF Balanced
    <3>3. StillPending(o, live') => StillPending(op, live)
      BY <1>6 DEF Advances
    <3>. QED
      BY <1>3, <3>1, <3>2, <3>3
  <2>. QED
    BY <2>1, <2>2
<1>. QED
  BY <1>1, <1>3, <1>4, <1>5, <1>7, <1>8 DEF Balanced

\* A helper goes on waiting in it.
LEMMA PatchedWaits ==
    ASSUME ReconcilerInvariant, NoOrphan', NeverAdopts', [Next]_vars, object' = object,
           op.pc \in {"confirm", "clear"}, op.key \in Bindings, op.main.there,
           Waiting(op, live, Shown, object), NEW o, NEW new, Patched(o, new)
    PROVE  Waiting(o, live', Shown', object)
<1>1. /\ MainOK(o, live', Shown') /\ o.main.there /\ (o.main.deleting <=> op.main.deleting)
      /\ Advances(op, live, live')
  BY PatchedMain DEF Waiting
<1>2. PICK k \in Bindings : k = op.key
  OBVIOUS
<1>3. /\ o \in OpStates /\ o.key = k /\ o.plan = op.plan /\ o.who = op.who /\ o.mode = op.mode
      /\ o.ret = op.ret /\ o.todo = op.todo /\ o.plans = op.plans
      /\ op.who = Main => o.main = new /\ o.list = op.list
      /\ op.who # Main => o.main = op.main
  BY <1>2 DEF Patched
<1>4. o.plan # NoPlan => o.plan \in Outcomes[o.key]
  BY <1>2, <1>3 DEF Waiting
<1>5. op.who = Main => /\ op.main = live[k] /\ live'[k] = new
                       /\ new.fin = live[k].fin /\ new.rv = live[k].rv + 1
  BY <1>2 DEF Patched, Target, Copy
<1>6. Called(op) /\ Entered(op, live, object) /\ op.list[k].rv <= live[k].rv
  BY <1>2 DEF Waiting
<1>7. Called(o)
  <2>1. o.main.fin
    BY <1>3, <1>5, <1>6 DEF Called
  <2>. QED
    BY <1>1, <1>2, <1>3, <1>6, <2>1 DEF Called
<1>8. op.ret \in {"deletingPeer", "brokenPeer"} =>
         /\ op.who \in Bindings /\ op.who # Main
         /\ o.list[op.who] = new /\ op.list[op.who] = live[op.who] /\ new.deleting = live[op.who].deleting
  <2>. SUFFICES ASSUME op.ret \in {"deletingPeer", "brokenPeer"}
                PROVE  /\ op.who \in Bindings /\ op.who # Main
                       /\ o.list[op.who] = new /\ op.list[op.who] = live[op.who]
                       /\ new.deleting = live[op.who].deleting
    OBVIOUS
  <2>1. op.who \in Bindings
    BY <1>6 DEF Called
  <2>2. op.who # Main
    BY <2>1, ConstantsAssumption
  <2>3. Target(op.who) = op.who /\ Copy(op, op.who) = op.list[op.who] /\ Copy(o, op.who) = o.list[op.who]
    BY <2>2 DEF Target, Copy
  <2>. QED
    BY <2>1, <2>2, <2>3 DEF Patched
<1>9. Entered(o, live', object)
  <2>1. o.main.deleting => o.ret = "finalize"
    BY <1>1, <1>3, <1>6 DEF Entered
  <2>2. ASSUME o.ret = "rename" PROVE Unopposed(o, live', object)
    <3>1. op.who = Main /\ Unopposed(op, live, object)
      BY <1>3, <1>6, <2>2 DEF Entered, Called
    <3>. QED
      BY <1>2, <1>3, <1>5, <3>1, UnopposedCurrent
  <2>3. ASSUME o.ret \in {"deletingPeer", "brokenPeer"} PROVE Balanced(o, live', object)
    <3>1. Balanced(op, live, object)
      BY <1>3, <1>6, <2>3 DEF Entered
    <3>. QED
      BY <1>1, <1>3, <1>8, <2>3, <3>1, PatchedBalanced
  <2>4. ASSUME o.ret = "deletingPeer" PROVE o.list[o.who].deleting
    BY <1>3, <1>6, <1>8, <2>4 DEF Entered
  <2>5. ASSUME o.ret = "brokenPeer" PROVE o.who \notin Rivals[o.key] \cup {o.key}
    BY <1>2, <1>3, <1>6, <2>5 DEF Entered
  <2>. QED
    BY <2>1, <2>2, <2>3, <2>4, <2>5 DEF Entered
<1>10. o.list[k].rv <= live'[k].rv
  <2>1. PICK i \in Nat : i = op.list[k].rv
    BY OpFacts DEF BindingStates
  <2>2. PICK j \in Nat : j = live[k].rv
    BY LiveFacts
  <2>3. PICK v \in Nat : v = live'[k].rv
    BY <1>1, <1>2 DEF Advances
  <2>4. i <= j /\ j <= v
    BY <1>1, <1>2, <1>6, <2>1, <2>2, <2>3 DEF Advances
  <2>5. i <= v /\ v <= v
    BY <2>4, Versions, UpTo
  <2>6. CASE op.who = Main
    BY <1>3, <2>1, <2>3, <2>5, <2>6
  <2>7. CASE op.who # Main
    <3>1. o.list[k] = IF k = op.who THEN new ELSE op.list[k]
      BY <2>7 DEF Patched
    <3>2. CASE k = op.who
      <4>1. live'[k] = new
        BY <2>7, <3>2 DEF Patched, Target
      <4>. QED
        BY <2>3, <2>5, <3>1, <3>2, <4>1
    <3>3. CASE k # op.who
      BY <2>1, <2>3, <2>5, <3>1, <3>3
    <3>. QED
      BY <3>2, <3>3
  <2>. QED
    BY <2>6, <2>7
<1>. QED
  BY <1>1, <1>2, <1>3, <1>4, <1>7, <1>9, <1>10 DEF Waiting

\* Writing the record a helper asks for (Confirm and Clear).
LEMMA PatchWeighed ==
    ASSUME NEW r, NEW rec \in Records, NEW found \in BOOLEAN, found \/ rec = Unclaimed,
           ReconcilerInvariant, ReconcilerInvariant', NoOrphan', NeverAdopts', ExclusionInvariant,
           [Next]_vars, op.pc \in {"confirm", "clear"}, object' = object,
           PatchOwnership(r, Recorded(rec), Settled(WithCopy(op, op.who, Recorded(rec)), found))
    PROVE  Weighed(op', live', Shown', object')
<1>1. /\ op \in OpStates /\ op.key \in Bindings /\ op.main.there /\ op.mode # ""
      /\ MainOK(op, live, Shown) /\ (op.plan # NoPlan => op.plan \in Outcomes[op.key])
      /\ op.mode \in {"cleanup", "list"} => Waiting(op, live, Shown, object)
      /\ op.mode \in {"apply", "created"} => op.who = Main /\ ~op.main.deleting
      /\ op.mode = "apply" => Unopposed(op, live, object)
  BY HelperWaits
<1>2. CASE op' = ApplyFailed(op)
  BY <1>2, FinishWeighed DEF ApplyFailed
<1>3. CASE op' # ApplyFailed(op)
  <2>1. PICK o, new : Patched(o, new) /\ new.rec = rec /\ op' = Settled(o, found)
    BY <1>3, PatchedMemory
  <2>2. /\ o \in OpStates /\ o.key = op.key /\ o.plan = op.plan /\ o.mode = op.mode
        /\ Copy(o, o.who) = new
    BY <2>1 DEF Patched
  <2>3. MainOK(o, live', Shown') /\ (o.main.deleting <=> op.main.deleting)
    BY <1>1, <2>1, PatchedMain
  <2>4. ASSUME o.mode \in {"cleanup", "list"} PROVE Waiting(o, live', Shown', object)
    BY <1>1, <2>1, <2>2, <2>4, PatchedWaits
  <2>5. ASSUME o.mode = "apply"
        PROVE  /\ o.key \in Bindings /\ MainOK(o, live', Shown') /\ ~o.main.deleting
               /\ o.plan # NoPlan => o.plan \in Outcomes[o.key]
               /\ Unopposed(o, live', object)
    <3>1. op.who = Main /\ ~op.main.deleting /\ Unopposed(op, live, object)
      BY <1>1, <2>2, <2>5
    <3>2. op.main = live[op.key]
      BY <2>1, <3>1 DEF Patched, Target, Copy
    <3>3. Unopposed(o, live', object)
      BY <1>1, <2>2, <3>1, <3>2, UnopposedCurrent
    <3>. QED
      BY <1>1, <2>2, <2>3, <3>1, <3>3
  <2>6. live' \in [Bindings -> BindingStates]
    BY DEF ReconcilerInvariant, TypeOK
  <2>7. found \/ Copy(o, o.who).rec = Unclaimed
    BY <2>1, <2>2
  <2>8. Weighed(Settled(o, found), live', Shown', object)
    BY <1>1, <2>2, <2>4, <2>5, <2>6, <2>7, SettledWeighed
  <2>. QED
    BY <2>1, <2>8
<1>. QED
  BY <1>2, <1>3

\* Confirming and clearing the record (Confirm, Clear).
LEMMA RecordingWeighed ==
    ASSUME ReconcilerInvariant, ReconcilerInvariant', NoOrphan', NeverAdopts', ExclusionInvariant,
           [Next]_vars, NEW r, Confirm(r) \/ Clear(r)
    PROVE  Weighed(op', live', Shown', object')
<1>1. op.key \in Bindings
  BY OpFacts DEF Confirm, Clear
<1>2. CASE Confirm(r)
  <2>1. PICK rec : rec = Confirmed(Copy(op, op.who).rec.name, op.seen.uid)
    OBVIOUS
  <2>2. op.pc = "confirm" /\ object' = object
        /\ PatchOwnership(r, Recorded(rec), Settled(WithCopy(op, op.who, Recorded(rec)), TRUE))
    BY <1>2, <2>1 DEF Confirm
  <2>3. rec \in Records
    <3>1. Copy(op, op.who).rec \in Records /\ Copy(op, op.who).rec.kind = "pending"
      BY <1>1, <2>2, OpFacts, PursuedCopy DEF Shape
    <3>2. Copy(op, op.who).rec.name \in Names
      BY <3>1 DEF Records, WellFormed
    <3>3. op.seen.uid \in Nat
      BY OpFacts DEF ObjectStates
    <3>. QED
      BY <2>1, <3>2, <3>3, RecordTypes
  <2>. QED
    BY <2>2, <2>3, PatchWeighed
<1>3. CASE Clear(r)
  <2>1. op.pc = "clear" /\ object' = object
        /\ PatchOwnership(r, Recorded(Unclaimed), Settled(WithCopy(op, op.who, Recorded(Unclaimed)), FALSE))
    BY <1>3 DEF Clear
  <2>2. Unclaimed \in Records
    BY RecordTypes
  <2>. QED
    BY <2>1, <2>2, PatchWeighed
<1>. QED
  BY <1>2, <1>3

\* The steps after which the reconcile is over or about to be (UpdateOutput, DelayCreate,
\* RemoveFinalizer, PatchStatus, Crash).
LEMMA EndingWeighed ==
    ASSUME \/ \E r \in Replies : UpdateOutput(r) \/ RemoveFinalizer(r) \/ PatchStatus(r)
           \/ DelayCreate
           \/ Crash
    PROVE  Weighed(op', live', Shown', object')
<1>1. op' = IdleOp \/ \E cond : op' = Finish(op, cond)
  BY DEF UpdateOutput, RemoveFinalizer, PatchStatus, DelayCreate, Crash, ApplyFailed
<1>. QED
  BY <1>1, FinishWeighed

\* Every step of the operator leaves its memory in order.
LEMMA ReconcileWeighed ==
    ASSUME ReconcilerInvariant, ReconcilerInvariant', NoOrphan, NoOrphan', NeverAdopts, NeverAdopts',
           ExclusionInvariant, [Next]_vars, Shrinks(object, object'), Reconcile
    PROVE  Weighed(op', live', Shown', object')
<1>1. CASE \E b \in Bindings : StartReconcile(b) \/ LookUpDeleting(b)
  BY <1>1, StartReconcileWeighed, LookUpDeletingWeighed
<1>2. CASE \E b \in Bindings, r \in Replies : RenderPeer(b, r)
  BY <1>2, RenderPeerWeighed
<1>3. CASE \E r \in Replies : AddFinalizer(r) \/ RenderOwn(r) \/ Observe(r) \/ Delete(r)
  BY <1>3, AddFinalizerWeighed, RenderOwnWeighed, ObserveWeighed, DeleteWeighed
<1>4. CASE \E r \in Replies : Confirm(r) \/ Clear(r)
  BY <1>4, RecordingWeighed
<1>5. CASE \E r \in Replies : ObserveDesired(r) \/ Reserve(r) \/ Create(r)
  BY <1>5, ObserveDesiredWeighed, ReserveWeighed, CreateWeighed
<1>6. CASE (\E r \in Replies : UpdateOutput(r) \/ RemoveFinalizer(r) \/ PatchStatus(r)) \/ DelayCreate
  BY <1>6, EndingWeighed
<1>7. CASE ListBindings \/ DecideConflict \/ WithdrawnAll \/ SettleConflict
  BY <1>7, ListBindingsWeighed, DecideConflictWeighed, WithdrawalWeighed
<1>8. CASE \E m \in Bindings \cup {Main} : WithdrawMember(m) \/ ConfirmAbsent(m)
  BY <1>8, WithdrawMemberWeighed, ConfirmAbsentWeighed
<1>9. CASE CRDMissing
  BY <1>9, CRDMissingWeighed
<1>. QED
  BY <1>1, <1>2, <1>3, <1>4, <1>5, <1>6, <1>7, <1>8, <1>9 DEF Reconcile

\* Every step does.
LEMMA WeighedNext ==
    ASSUME ReconcilerInvariant, ReconcilerInvariant', NoOrphan, NoOrphan', NeverAdopts, NeverAdopts',
           ExclusionInvariant, ~LateCreates, [Next]_vars, [ClaimedStep]_vars
    PROVE  Weighed(op', live', Shown', object')
<1>1. CASE \E r \in Replies : Create(r)
  BY <1>1, CreateWeighed
<1>2. CASE ~\E r \in Replies : Create(r)
  <2>1. Shrinks(object, object')
    BY <1>2, OutputsShrink
  <2>2. CASE Reconcile
    BY <2>1, <2>2, ReconcileWeighed
  <2>3. CASE Crash
    BY <2>3, EndingWeighed
  <2>4. CASE Users \/ Others \/ SyncCache \/ (\E c \in inflight : LandCreate(c)) \/ UNCHANGED vars
    <3>1. op' = op
      <4>1. CASE Users
        BY <4>1 DEF Users, DeleteBinding, CreateBinding, EditBinding, ChangePool
      <4>2. CASE Others
        BY <4>2 DEF Others, OthersCreate, OthersReplace, OthersDelete, OthersEdit,
               OthersHold, OthersRelease
      <4>3. CASE SyncCache \/ (\E c \in inflight : LandCreate(c)) \/ UNCHANGED vars
        BY <4>3 DEF SyncCache, LandCreate, vars
      <4>. QED
        BY <2>4, <4>1, <4>2, <4>3
    <3>. QED
      BY <2>1, <3>1, EnvironmentWeighed
  <2>. QED
    BY <2>2, <2>3, <2>4 DEF Next
<1>. QED
  BY <1>1, <1>2

-----------------------------------------------------------------------------
(* Theorems. *)

\* Initially there are no outputs, no records and nothing in memory.
LEMMA InitExclusion == Init => ExclusionInvariant
<1>. SUFFICES ASSUME Init PROVE ExclusionInvariant
  OBVIOUS
<1>1. \A n \in Names : ~object[n].there
  BY AbsentObjectType DEF Init, AbsentObject
<1>2. \A b \in Bindings, n \in Names : ~HasOutput(object, b, n)
  BY <1>1 DEF HasOutput
<1>3. OutputsOK(object)
  BY <1>2 DEF OutputsOK, NoOutput
<1>4. \A b \in Bindings : live[b].rec = Unclaimed
  <2>1. \A v : AbsentBinding(v).rec = Unclaimed
    BY DEF AbsentBinding
  <2>2. ASSUME NEW s, NEW v PROVE NewBinding(s, v).rec = Unclaimed
    BY SMTT(30) DEF NewBinding, AbsentBinding
  <2>3. ASSUME NEW b \in Bindings PROVE live[b].rec = Unclaimed
    <3>1. live[b] = AbsentBinding(1) \/ \E s \in Specs : live[b] = NewBinding(s, 1)
      BY DEF Init
    <3>. QED
      BY <2>1, <2>2, <3>1
  <2>. QED
    BY <2>3
<1>5. ShownOK(live, Shown, object)
  <2>1. Unclaimed.kind # "pending"
    BY UnclaimedFields
  <2>. QED
    BY <1>2, <1>4, <2>1 DEF ShownOK, LeadsToOutput
<1>6. Weighed(op, live, Shown, object)
  BY FinishWeighed DEF Init
<1>. QED
  BY <1>3, <1>5, <1>6 DEF ExclusionInvariant

\* When a Create that was reported as failed has no later effect and every Create happens
\* under the stored claim, what an evaluation of conflicts leaves out has no output and the
\* reconcile that goes on from it has no rival with one, in every reachable state
\* (evaluateBindingConflicts, withdrawConflictOutputs and reconcileClusterSPIFFEIDs).
THEOREM Exclusion == ~LateCreates => (Spec /\ CreateUnderClaim => []ExclusionInvariant)
<1>. SUFFICES ASSUME ~LateCreates PROVE Spec /\ CreateUnderClaim => []ExclusionInvariant
  OBVIOUS
<1>1. ASSUME ReconcilerInvariant, ReconcilerInvariant', NoOrphan, NoOrphan', NeverAdopts, NeverAdopts',
             PublicationInvariant, ExclusionInvariant, [Next]_vars, [ClaimedStep]_vars
      PROVE  ExclusionInvariant'
  <2>1. OutputsOK(object')
    BY <1>1, OutputsStayOK
  <2>2. ShownOK(live', Shown', object')
    BY <1>1, ShownStaysOK
  <2>3. Weighed(op', live', Shown', object')
    BY <1>1, WeighedNext
  <2>. QED
    BY <2>1, <2>2, <2>3 DEF ExclusionInvariant
<1>2. Spec /\ CreateUnderClaim => []NoOrphan
  BY NoOrphans
<1>3. CreateUnderClaim => [][ClaimedStep]_vars
  BY PTL DEF CreateUnderClaim, ClaimedStep
<1>. QED
  BY <1>1, <1>2, <1>3, InitExclusion, Invariance, Publication, NoAdoption, PTL DEF Spec

\* Then, unless an edit of a spec or a pool can make two bindings compete that did not
\* before, no two identities the operator registered ever compete, for any number of
\* bindings, names and failures (evaluateBindingConflicts before
\* reconcileClusterSPIFFEIDs).
THEOREM ExclusiveIdentities ==
    ~LateCreates /\ FixedRivalry => (Spec /\ CreateUnderClaim => []ExclusiveOutputs)
<1>. SUFFICES ASSUME ~LateCreates, FixedRivalry PROVE Spec /\ CreateUnderClaim => []ExclusiveOutputs
  OBVIOUS
<1>1. ASSUME ReconcilerInvariant, NoOrphan, NeverAdopts, ExclusionInvariant PROVE ExclusiveOutputs
  <2>. SUFFICES ASSUME NEW n \in Names, NEW m \in Names, n # m,
                       object[n].there, object[n].own, object[n].body # NoPlan,
                       object[m].there, object[m].own, object[m].body # NoPlan
                PROVE  ~Competes(object[n].body, object[m].body)
    BY DEF ExclusiveOutputs
  <2>1. PICK b \in Bindings : Owns(b, n)
    BY <1>1 DEF NoOrphan
  <2>2. PICK c \in Bindings : Owns(c, m)
    BY <1>1 DEF NoOrphan
  <2>3. HasOutput(object, b, n) /\ HasOutput(object, c, m)
    BY <1>1, <2>1, <2>2 DEF NeverAdopts, HasOutput
  <2>4. b # c
    BY <2>1, <2>2 DEF Owns
  <2>5. OutputsOK(object)
    BY <1>1 DEF ExclusionInvariant
  <2>6. c \notin Rivals[b]
    BY <2>3, <2>5 DEF OutputsOK, NoOutput, NoRivalOutput
  <2>7. object[n].body \in Outcomes[b] /\ object[m].body \in Outcomes[c]
    BY <2>3, <2>5 DEF OutputsOK
  <2>8. object[n].body \in Plans /\ object[m].body \in Plans
    BY <1>1, ObjectFacts DEF ObjectStates
  <2>. QED
    BY <2>4, <2>6, <2>7, <2>8 DEF FixedRivalry
<1>2. Spec /\ CreateUnderClaim => []NoOrphan
  BY NoOrphans
<1>3. Spec /\ CreateUnderClaim => []ExclusionInvariant
  BY Exclusion
<1>. QED
  BY <1>1, <1>2, <1>3, Invariance, NoAdoption, PTL

=============================================================================
