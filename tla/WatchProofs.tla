---------------------------- MODULE WatchProofs ----------------------------
(***************************************************************************)
(* The operator of BindingWatch writes bindings from copies: those of the  *)
(* cache, which the binding watch fills, and those a reconcile holds in    *)
(* memory.  WatchInvariant says which of them are what is stored, and with *)
(* it no step of the operator takes back what a user wrote.  WakeInvariant *)
(* says what will still wake the reconciler, and with it no wake-up is     *)
(* lost.                                                                   *)
(***************************************************************************)
EXTENDS BindingWatch, TLAPS

\* Unless a step names another prover, Zenon proves it.
USE ZenonT(60)

-----------------------------------------------------------------------------
(* Sequences. *)

\* The elements of a sequence.
LEMMA SeqElements ==
    ASSUME NEW S, NEW s \in Seq(S)
    PROVE  Len(s) \in Nat /\ DOMAIN s = 1 .. Len(s) /\ \A i \in 1 .. Len(s) : s[i] \in S
BY SMTT(30)

\* A function on an initial segment is a sequence.
LEMMA SeqMade ==
    ASSUME NEW S, NEW n \in Nat, NEW f \in [1 .. n -> S] PROVE f \in Seq(S) /\ Len(f) = n
BY SMTT(30)

\* Events that are appended follow those under way.
LEMMA SeqConcat ==
    ASSUME NEW S, NEW s \in Seq(S), NEW t \in Seq(S)
    PROVE  /\ s \o t \in Seq(S) /\ Len(s \o t) = Len(s) + Len(t)
           /\ \A i \in 1 .. Len(s \o t) : (s \o t)[i] = IF i <= Len(s) THEN s[i] ELSE t[i - Len(s)]
<1>1. s \o t \in Seq(S) /\ Len(s \o t) = Len(s) + Len(t)
  BY SMTT(30)
<1>2. \A i \in 1 .. Len(s \o t) : (s \o t)[i] = IF i <= Len(s) THEN s[i] ELSE t[i - Len(s)]
  BY SMTT(30)
<1>. QED
  BY <1>1, <1>2

\* The event that is delivered, and those that are left.
LEMMA SeqTail ==
    ASSUME NEW S, NEW s \in Seq(S), s # <<>>
    PROVE  /\ Len(s) > 0 /\ Head(s) = s[1]
           /\ Tail(s) \in Seq(S) /\ Len(Tail(s)) = Len(s) - 1
           /\ \A i \in 1 .. Len(s) - 1 : Tail(s)[i] = s[i + 1]
<1>1. Len(s) > 0 /\ Head(s) = s[1]
  BY SMTT(30)
<1>2. Tail(s) \in Seq(S) /\ Len(Tail(s)) = Len(s) - 1
  BY <1>1, SMTT(30)
<1>3. \A i \in 1 .. Len(s) - 1 : Tail(s)[i] = s[i + 1]
  BY <1>1, SMTT(30)
<1>. QED
  BY <1>1, <1>2, <1>3

-----------------------------------------------------------------------------
(* The invariant in parts. *)

\* Bindings as stored, under way and cached.
StoreOK ==
    /\ live \in [Bindings -> BindingStates]
    /\ cache \in [Bindings -> BindingStates]
    /\ stream \in Seq(Events)
    /\ Streamed

\* The memories of a reconcile as a set of records (IsMemory).
Memories ==
    [pc : {"idle", "decide", "withdraw", "apply", "status"}, key : Bindings \cup {NoKey},
     own : BindingStates, fresh : SUBSET Bindings, ver : Nat,
     copies : UNION {[S -> BindingStates] : S \in SUBSET Bindings},
     then : {"", "finalize", "clean", "rename", "conflict", "blocked"},
     cond : Conditions, after : {"stop", "timer", "retry"}]

\* The reconcile under way.
MemoryOK == op \in Memories /\ Remembered

\* Pools, outputs, requests and counters.
OutputStates == [there : BOOLEAN, uid : Nat, ver : Nat, dying : BOOLEAN]

RestOK ==
    /\ pools \in [Pools -> Nat]
    /\ poolEvents \subseteq Pools
    /\ outs \in [Names -> OutputStates]
    /\ outEvents \subseteq Names
    /\ queue \subseteq Bindings
    /\ timers \subseteq Bindings
    /\ moves \in 0 .. MaxMoves
    /\ holds \in 0 .. MaxHolds

\* The two forms of the type of a memory agree.
LEMMA MemoryType == ASSUME NEW o PROVE IsMemory(o) <=> o \in Memories
<1>1. ASSUME IsMemory(o) PROVE o \in Memories
  <2>. DEFINE copies == [b \in DOMAIN o.copies |-> o.copies[b]]
  <2>1. copies \in [DOMAIN o.copies -> BindingStates] /\ DOMAIN o.copies \in SUBSET Bindings
    BY <1>1 DEF IsMemory
  <2>2. copies \in UNION {[S -> BindingStates] : S \in SUBSET Bindings}
    BY <2>1, SMTT(30)
  <2>. HIDE DEF copies
  <2>3. o = [pc |-> o.pc, key |-> o.key, own |-> o.own, fresh |-> o.fresh, ver |-> o.ver,
             copies |-> copies, then |-> o.then, cond |-> o.cond, after |-> o.after]
    BY <1>1 DEF IsMemory, copies
  <2>4. /\ o.pc \in {"idle", "decide", "withdraw", "apply", "status"}
        /\ o.key \in Bindings \cup {NoKey}
        /\ o.own \in BindingStates
        /\ o.fresh \subseteq Bindings
        /\ o.ver \in Nat
        /\ o.then \in {"", "finalize", "clean", "rename", "conflict", "blocked"}
        /\ o.cond \in Conditions
        /\ o.after \in {"stop", "timer", "retry"}
    BY <1>1 DEF IsMemory
  <2>5. [pc |-> o.pc, key |-> o.key, own |-> o.own, fresh |-> o.fresh, ver |-> o.ver,
         copies |-> copies, then |-> o.then, cond |-> o.cond, after |-> o.after] \in Memories
    BY <2>2, <2>4 DEF Memories
  <2>. QED
    BY <2>3, <2>5
<1>2. ASSUME o \in Memories PROVE IsMemory(o)
  <2>1. PICK S \in SUBSET Bindings : o.copies \in [S -> BindingStates]
    BY <1>2 DEF Memories
  <2>2. o.copies = [b \in DOMAIN o.copies |-> o.copies[b]]
    BY <2>1, SMTT(30)
  <2>3. o = [pc |-> o.pc, key |-> o.key, own |-> o.own, fresh |-> o.fresh, ver |-> o.ver,
             copies |-> o.copies, then |-> o.then, cond |-> o.cond, after |-> o.after]
    BY <1>2 DEF Memories
  <2>4. o = [pc |-> o.pc, key |-> o.key, own |-> o.own, fresh |-> o.fresh, ver |-> o.ver,
             copies |-> [b \in DOMAIN o.copies |-> o.copies[b]],
             then |-> o.then, cond |-> o.cond, after |-> o.after]
    BY <2>2, <2>3
  <2>5. /\ DOMAIN o.copies \subseteq Bindings
        /\ \A b \in DOMAIN o.copies : o.copies[b] \in BindingStates
    BY <2>1, SMTT(30)
  <2>6. /\ o.pc \in {"idle", "decide", "withdraw", "apply", "status"}
        /\ o.key \in Bindings \cup {NoKey}
        /\ o.own \in BindingStates
        /\ o.fresh \subseteq Bindings
        /\ o.ver \in Nat
        /\ o.then \in {"", "finalize", "clean", "rename", "conflict", "blocked"}
        /\ o.cond \in Conditions
        /\ o.after \in {"stop", "timer", "retry"}
    BY <1>2 DEF Memories
  <2>. QED
    BY <2>4, <2>5, <2>6 DEF IsMemory
<1>. QED
  BY <1>1, <1>2, SMTT(30)

\* The invariant in the parts that the steps disturb one by one.
LEMMA Parts == WatchInvariant <=> StoreOK /\ MemoryOK /\ RestOK
<1>1. IsMemory(op) <=> op \in Memories
  BY MemoryType, SMTT(30)
<1>. QED
  BY <1>1 DEF WatchInvariant, StoreOK, MemoryOK, RestOK, TypeOK, OutputStates

-----------------------------------------------------------------------------
(* Values. *)

\* There is a spec to choose, so an absent binding has its type.
LEMMA AbsentTyped == AbsentBinding \in BindingStates
<1>1. (CHOOSE s \in Specs : TRUE) \in Specs
  BY WatchAssumption, SMTT(30)
<1>. QED
  BY <1>1, SMTT(30) DEF AbsentBinding, BindingStates, NewStatus, Conditions

\* A binding as a user creates it.
LEMMA NewTyped == ASSUME NEW s \in Specs PROVE NewBinding(s) \in BindingStates
BY AbsentTyped DEF NewBinding, BindingStates

\* What the operator writes into a copy.
LEMMA WrittenTyped ==
    ASSUME NEW c \in BindingStates
    PROVE  /\ Cleared(c) \in BindingStates
           /\ [c EXCEPT !.fin = TRUE] \in BindingStates
           /\ \A s \in [cond : Conditions, gen : Nat, ver : Nat] : [c EXCEPT !.status = s] \in BindingStates
           /\ \A r \in [name : Names, uid : Nat], s \in [cond : Conditions, gen : Nat, ver : Nat] :
                 [c EXCEPT !.rec = r, !.status = s] \in BindingStates
BY DEF Cleared, BindingStates

\* None of it is what users write.
LEMMA WrittenManaged ==
    ASSUME NEW c \in BindingStates
    PROVE  /\ Managed(c, c) /\ Managed(c, Cleared(c)) /\ Managed(c, [c EXCEPT !.fin = TRUE])
           /\ \A s : Managed(c, [c EXCEPT !.status = s])
           /\ \A r, s : Managed(c, [c EXCEPT !.rec = r, !.status = s])
BY SMTT(30) DEF Managed, Cleared, BindingStates

\* An output of a binding has one of the names.
LEMMA OutputNamed == ASSUME NEW b \in Bindings, NEW s \in Specs PROVE Output(b, s) \in Names
BY SMTT(30) DEF Names

\* An output as it is created.
LEMMA NewOutput ==
    ASSUME NEW u \in Nat, NEW v \in Nat
    PROVE  [AbsentOutput(u) EXCEPT !.there = TRUE, !.ver = v] \in OutputStates
BY DEF AbsentOutput, OutputStates

\* No copies are copies of no bindings.
LEMMA NoCopies == <<>> \in UNION {[S -> BindingStates] : S \in SUBSET Bindings}
<1>1. <<>> \in [{} -> BindingStates]
  BY SMTT(30)
<1>. QED
  BY <1>1, SMTT(30)

\* An idle operator.
LEMMA IdleTyped == Idle \in Memories
BY NoCopies, AbsentTyped, SMTT(30) DEF Idle, Memories, Conditions

-----------------------------------------------------------------------------
(* Storing bindings. *)

\* The events tell of the bindings D, each with what is written to it.
Announces(events, D, new) ==
    /\ events \in Seq(Events)
    /\ \A i \in DOMAIN events : events[i].key \in D /\ events[i].to = new[events[i].key]
    /\ \A b \in D : \E i \in DOMAIN events : events[i].key = b
    /\ \A i, j \in DOMAIN events : events[i].key = events[j].key => i = j

\* The events of one step: one for every binding that was written, with what was written.
LEMMA EventsStored ==
    ASSUME NEW new, DOMAIN new \subseteq Bindings, \A b \in DOMAIN new : new[b] \in BindingStates,
           Store(new)
    PROVE  \E events : stream' = stream \o events /\ Announces(events, DOMAIN new, new)
<1>. DEFINE D == DOMAIN new
            written(n, order) == [i \in 1 .. n |-> [key |-> order[i], to |-> new[order[i]]]]
<1>1. PICK n \in 0 .. MaxLag : \E order \in Bijection(1 .. n, D) : stream' = stream \o written(n, order)
  BY DEF Store
<1>2. PICK order \in Bijection(1 .. n, D) : stream' = stream \o written(n, order)
  BY <1>1
<1>3. /\ order \in [1 .. n -> D] /\ \A b \in D : \E i \in 1 .. n : order[i] = b
      /\ \A i, j \in 1 .. n : order[i] = order[j] => i = j
  BY SMTT(30) DEF Bijection, Surjection, Injection, IsInjective
<1>4. PICK events : events = written(n, order) /\ stream' = stream \o events
  BY <1>2
<1>5. \A i \in 1 .. n : events[i] \in Events /\ events[i].key = order[i] /\ events[i].to = new[order[i]]
  <2>. TAKE i \in 1 .. n
  <2>1. PICK b \in D : b = order[i]
    BY <1>3, SMTT(30)
  <2>2. events[i] = [key |-> b, to |-> new[b]] /\ new[b] \in BindingStates /\ b \in Bindings
    BY <1>4, <2>1
  <2>. QED
    BY <2>1, <2>2, SMTT(30) DEF Events
<1>6. DOMAIN events = 1 .. n /\ events \in Seq(Events)
  <2>1. events \in [1 .. n -> Events]
    BY <1>4, <1>5
  <2>2. n \in Nat
    BY <1>1, WatchAssumption, SMTT(30)
  <2>. QED
    BY <2>1, <2>2, SeqMade
<1>7. \A i \in DOMAIN events : events[i].key \in D /\ events[i].to = new[events[i].key]
  <2>. SUFFICES ASSUME NEW i \in 1 .. n PROVE events[i].key \in D /\ events[i].to = new[events[i].key]
    BY <1>6
  <2>1. order[i] \in D
    BY <1>3
  <2>. QED
    BY <1>5, <2>1
<1>8. ASSUME NEW b \in D PROVE \E i \in DOMAIN events : events[i].key = b
  <2>1. PICK i \in 1 .. n : order[i] = b
    BY <1>3
  <2>2. events[i].key = b
    BY <1>5, <2>1
  <2>. QED
    BY <1>6, <2>2
<1>9. \A i, j \in DOMAIN events : events[i].key = events[j].key => i = j
  <2>. SUFFICES ASSUME NEW i \in 1 .. n, NEW j \in 1 .. n, events[i].key = events[j].key PROVE i = j
    BY <1>6
  <2>1. events[i].key = order[i] /\ events[j].key = order[j]
    BY <1>5
  <2>. QED
    BY <1>3, <2>1
<1>10. Announces(events, D, new)
  BY <1>6, <1>7, <1>8, <1>9 DEF Announces
<1>. QED
  BY <1>4, <1>10

\* What is stored after a write.
LEMMA StoreValue ==
    ASSUME NEW new, Store(new), NEW b \in Bindings
    PROVE  live'[b] = IF b \in DOMAIN new THEN new[b] ELSE live[b]
BY SMTT(30) DEF Store

-----------------------------------------------------------------------------
(* What a reconcile reads and keeps. *)

\* What UserWritesKept says of a step.
WritesKept ==
    moves' = moves => \A b \in Bindings :
        \/ Managed(live[b], live'[b])
        \/ ~live'[b].there /\ live[b].deleting /\ ~Found(live[b], outs')

\* The cached copy that nothing overtakes is the stored one.
LEMMA CachedIsStored ==
    ASSUME StoreOK, NEW b \in Bindings
    PROVE  /\ cache[b] \in BindingStates /\ live[b] \in BindingStates
           /\ CacheFresh(b) => cache[b] = live[b]
BY SMTT(30) DEF StoreOK, Streamed

\* The memory of a reconcile under way.
LEMMA MemoryFields ==
    ASSUME MemoryOK, op.pc # "idle"
    PROVE  /\ op \in Memories /\ op.key \in Bindings /\ op.own \in BindingStates
           /\ op.cond \in Conditions /\ op.after \in {"stop", "timer", "retry"} /\ op.ver \in Nat
           /\ op.fresh \subseteq Bindings
BY DEF MemoryOK, Remembered, Memories

\* The copies taken from the cache are of some of the bindings.
LEMMA CopiesMapped ==
    ASSUME op \in Memories
    PROVE  \E S \in SUBSET Bindings : op.copies \in [S -> BindingStates]
BY DEF Memories

-----------------------------------------------------------------------------
(* The theorems. *)

\* Initially the cache shows what is stored and the operator is idle.
LEMMA InitInvariant == ASSUME Init PROVE WatchInvariant
<1>1. live \in [Bindings -> BindingStates] /\ cache = live /\ stream = <<>>
  BY AbsentTyped, NewTyped, SMTT(30) DEF Init
<1>2. StoreOK
  BY <1>1, SMTT(30) DEF StoreOK, Streamed, CacheFresh
<1>3. MemoryOK
  BY IdleTyped DEF Init, MemoryOK, Remembered, Idle
<1>4. [n \in Names |-> AbsentOutput(0)] \in [Names -> OutputStates]
  BY SMTT(30) DEF AbsentOutput, OutputStates
<1>5. RestOK
  BY <1>4, WatchAssumption, SMTT(30) DEF Init, RestOK, PeerRequests
<1>. QED
  BY <1>2, <1>3, <1>5, Parts, SMTT(30)

\* Every step keeps the invariant, and what users wrote.
LEMMA NextStep == WatchInvariant /\ [Next]_vars => WatchInvariant' /\ WritesKept
\* The same in the next state.
<1>PartsNext. WatchInvariant' <=> StoreOK' /\ MemoryOK' /\ RestOK'
  <2>1. IsMemory(op') <=> op' \in Memories
    BY MemoryType, SMTT(30)
  <2>. QED
    BY <2>1 DEF WatchInvariant, StoreOK, MemoryOK, RestOK, TypeOK, OutputStates, IsMemory
\* A write leaves the last event of every binding in step with what is stored (Store).
<1>StoreStep.
      ASSUME StoreOK, NEW new, DOMAIN new \subseteq Bindings,
             \A b \in DOMAIN new : new[b] \in BindingStates, Store(new), cache' = cache
      PROVE  StoreOK'
  <2>. USE <1>StoreStep
  <2>1. PICK events : stream' = stream \o events /\ Announces(events, DOMAIN new, new)
    BY EventsStored
  <2>2. /\ events \in Seq(Events)
        /\ \A i \in DOMAIN events : events[i].key \in DOMAIN new /\ events[i].to = new[events[i].key]
        /\ \A b \in DOMAIN new : \E i \in DOMAIN events : events[i].key = b
    BY <2>1 DEF Announces
  <2>3. live' = [b \in Bindings |-> IF b \in DOMAIN new THEN new[b] ELSE live[b]]
    BY SMTT(30) DEF Store
  <2>4. live' \in [Bindings -> BindingStates] /\ cache' \in [Bindings -> BindingStates]
    BY <2>3, SMTT(30) DEF StoreOK
  <2>5. stream \in Seq(Events)
    BY SMTT(30) DEF StoreOK
  <2>6. /\ stream' \in Seq(Events)
        /\ Len(stream') = Len(stream) + Len(events)
        /\ \A i \in 1 .. Len(stream') :
              stream'[i] = IF i <= Len(stream) THEN stream[i] ELSE events[i - Len(stream)]
    BY <2>1, <2>2, <2>5, SeqConcat, SMTT(30)
  <2>7. /\ DOMAIN stream = 1 .. Len(stream) /\ DOMAIN events = 1 .. Len(events)
        /\ DOMAIN stream' = 1 .. Len(stream')
        /\ Len(stream) \in Nat /\ Len(events) \in Nat
    BY <2>2, <2>5, <2>6, SeqElements, SMTT(30)
  <2>8. ASSUME NEW b \in DOMAIN new
        PROVE  \E j \in DOMAIN stream' : Len(stream) < j /\ stream'[j].key = b
    <3>1. PICK k \in 1 .. Len(events) : events[k].key = b
      BY <2>2, <2>7, SMTT(30)
    <3>2. Len(stream) + k \in DOMAIN stream' /\ stream'[Len(stream) + k] = events[k]
      BY <2>6, <2>7, SMTT(30)
    <3>. QED
      BY <2>7, <3>1, <3>2, SMTT(30)
  <2>9. ASSUME NEW i \in DOMAIN stream',
               \A j \in DOMAIN stream' : i < j => stream'[j].key # stream'[i].key
        PROVE  stream'[i].to = live'[stream'[i].key]
    <3>1. CASE i <= Len(stream)
      <4>1. i \in DOMAIN stream /\ stream'[i] = stream[i] /\ stream[i].key \in Bindings
        <5>1. i \in 1 .. Len(stream) /\ stream'[i] = stream[i]
          BY <2>6, <2>7, <3>1, SMTT(30)
        <5>2. stream[i] \in Events
          BY <2>5, <5>1, SeqElements, SMTT(30)
        <5>. QED
          BY <2>7, <5>1, <5>2, SMTT(30) DEF Events
      <4>2. stream[i].key \notin DOMAIN new
        BY <2>7, <2>8, <2>9, <3>1, <4>1, SMTT(30)
      <4>3. \A j \in DOMAIN stream : i < j => stream[j].key # stream[i].key
        BY <2>6, <2>7, <2>9, <4>1, SMTT(30)
      <4>4. stream[i].to = live[stream[i].key]
        BY <4>1, <4>3, SMTT(30) DEF StoreOK, Streamed
      <4>. QED
        BY <2>3, <4>1, <4>2, <4>4, SMTT(30)
    <3>2. CASE ~(i <= Len(stream))
      <4>1. i - Len(stream) \in DOMAIN events /\ stream'[i] = events[i - Len(stream)]
        BY <2>6, <2>7, <3>2, SMTT(30)
      <4>. QED
        BY <2>2, <2>3, <4>1, SMTT(30)
    <3>. QED
      BY <3>1, <3>2, SMTT(30)
  <2>10. ASSUME NEW b \in Bindings, CacheFresh(b)' PROVE cache'[b] = live'[b]
    <3>1. \A i \in DOMAIN stream' : stream'[i].key # b
      BY <2>10, SMTT(30) DEF CacheFresh
    <3>2. b \notin DOMAIN new
      BY <2>8, <3>1, SMTT(30)
    <3>3. CacheFresh(b)
      BY <2>6, <2>7, <3>1, SMTT(30) DEF CacheFresh
    <3>. QED
      BY <2>3, <3>2, <3>3, SMTT(30) DEF StoreOK, Streamed
  <2>11. Streamed'
    BY <2>9, <2>10, SMTT(30) DEF Streamed
  <2>. QED
    BY <2>4, <2>6, <2>11, SMTT(30) DEF StoreOK
\* A step that writes no binding and delivers no event.
<1>StoreKept. ASSUME StoreOK, UNCHANGED <<live, cache, stream>> PROVE StoreOK'
  BY <1>StoreKept, SMTT(30) DEF StoreOK, Streamed, CacheFresh
\* The reconcile is over.
<1>IdleMemory. ASSUME op' = Idle PROVE MemoryOK'
  <2>. USE <1>IdleMemory
  <2>1. Idle \in Memories /\ Idle.pc = "idle"
    BY IdleTyped DEF Idle
  <2>. QED
    BY <2>1, SMTT(30) DEF MemoryOK, Remembered
\* The reconcile returns to the workqueue (Return).
<1>ReturnStep.
      ASSUME RestOK, op.key \in Bindings, NEW after, Return(after)
      PROVE  MemoryOK' /\ queue' \subseteq Bindings /\ timers' \subseteq Bindings
  <2>. USE <1>ReturnStep
  <2>1. MemoryOK'
    BY <1>IdleMemory, SMTT(30) DEF Return
  <2>. QED
    BY <2>1, SMTT(30) DEF Return, RestOK
\* Only the status is left to write (Finish).
<1>FinishStep.
      ASSUME RestOK, MemoryOK, op.key \in Bindings, NEW cond \in Conditions,
             NEW after \in {"stop", "timer", "retry"}, Finish(cond, after)
      PROVE  MemoryOK' /\ queue' \subseteq Bindings /\ timers' \subseteq Bindings
  <2>. USE <1>FinishStep
  <2>1. op \in Memories /\ Idle \in Memories
    BY IdleTyped, SMTT(30) DEF MemoryOK
  <2>2. op' = [Idle EXCEPT !.pc = "status", !.key = op.key, !.own = op.own, !.ver = op.ver,
                           !.cond = cond, !.after = after]
    BY SMTT(30) DEF Finish
  <2>3. op' \in Memories /\ op'.pc = "status" /\ op'.key = op.key
    BY <2>1, <2>2 DEF Memories
  <2>4. MemoryOK'
    BY <2>3, SMTT(30) DEF MemoryOK, Remembered
  <2>. QED
    BY <2>4, SMTT(30) DEF Finish, RestOK
\* A failed call (Fail).
<1>FailStep.
      ASSUME RestOK, MemoryOK, op.key \in Bindings, Fail
      PROVE  MemoryOK' /\ queue' \subseteq Bindings /\ timers' \subseteq Bindings
  BY <1>FailStep, <1>FinishStep, SMTT(30) DEF Fail, Conditions
\* A memory without a change stays in step while the stored bindings do not change.
<1>MemoryKept. ASSUME MemoryOK, UNCHANGED <<live, op>> PROVE MemoryOK'
  BY <1>MemoryKept, SMTT(30) DEF MemoryOK, Remembered
\* Others' writes count the copies of the binding as old (Outdate).
<1>OutdateStep.
      ASSUME MemoryOK, NEW b \in Bindings, NEW new, Store([c \in {b} |-> new]), Outdate(b)
      PROVE  MemoryOK'
  <2>. USE <1>OutdateStep
  <2>1. op \in Memories /\ op' = [op EXCEPT !.fresh = op.fresh \ {b}]
    BY SMTT(30) DEF MemoryOK, Outdate
  <2>2. /\ op' \in Memories
        /\ op'.pc = op.pc /\ op'.key = op.key /\ op'.own = op.own /\ op'.copies = op.copies
        /\ op'.then = op.then /\ op'.fresh = op.fresh \ {b}
    BY <2>1 DEF Memories
  <2>3. \A x \in Bindings : x # b => live'[x] = live[x]
    BY StoreValue, SMTT(30)
  <2>4. DOMAIN op.copies \subseteq Bindings
    BY <2>1 DEF Memories
  <2>5. Remembered'
    BY <2>2, <2>3, <2>4 DEF MemoryOK, Remembered
  <2>. QED
    BY <2>2, <2>5, SMTT(30) DEF MemoryOK
\* Outputs that change have events (SetOuts).
<1>SetOutsStep.
      ASSUME RestOK, NEW o \in [Names -> OutputStates], SetOuts(o)
      PROVE  outs' \in [Names -> OutputStates] /\ outEvents' \subseteq Names
  BY <1>SetOutsStep, SMTT(30) DEF RestOK, SetOuts
\* A fetched copy that counts as current is the stored binding.
<1>DecideMemory.
      ASSUME NEW b \in Bindings, NEW c \in BindingStates, NEW fresh \in SUBSET {b},
             op' = [Idle EXCEPT !.pc = "decide", !.key = b, !.own = c, !.fresh = fresh],
             b \in fresh => c = live'[b]
      PROVE  MemoryOK'
  <2>. USE <1>DecideMemory
  <2>1. op' \in Memories /\ op'.pc = "decide" /\ op'.key = b /\ op'.own = c /\ op'.fresh = fresh
    BY IdleTyped DEF Memories
  <2>2. Remembered'
    BY <2>1, SMTT(30) DEF Remembered
  <2>. QED
    BY <2>1, <2>2, SMTT(30) DEF MemoryOK
\* An event that is delivered brings the cache up to what was stored with it.
<1>DeliverBindingStep. ASSUME WatchInvariant, DeliverBinding PROVE WatchInvariant'
  <2>. USE <1>DeliverBindingStep
  <2>1. StoreOK /\ MemoryOK /\ RestOK
    BY Parts, SMTT(30)
  <2>2. stream \in Seq(Events) /\ stream # <<>> /\ stream' = Tail(stream)
    BY <2>1, SMTT(30) DEF StoreOK, DeliverBinding
  <2>3. PICK e : e = Head(stream)
    BY SMTT(30)
  <2>4. /\ cache' = [cache EXCEPT ![e.key] = e.to]
        /\ queue' = queue \/ queue' = queue \cup {e.key} \cup PeerRequests(cache')
        /\ UNCHANGED <<live, pools, poolEvents, outs, outEvents, timers, op, moves, holds>>
    BY <2>3, SMTT(30) DEF DeliverBinding
  <2>5. /\ Len(stream) \in Nat /\ Len(stream) > 0 /\ DOMAIN stream = 1 .. Len(stream)
        /\ e = stream[1] /\ e \in Events
        /\ stream' \in Seq(Events) /\ DOMAIN stream' = 1 .. (Len(stream) - 1)
        /\ \A i \in 1 .. (Len(stream) - 1) : stream'[i] = stream[i + 1]
    BY <2>2, <2>3, SeqTail, SeqElements, SMTT(30)
  <2>6. e.key \in Bindings /\ e.to \in BindingStates
    BY <2>5, SMTT(30) DEF Events
  <2>7. live' \in [Bindings -> BindingStates] /\ cache' \in [Bindings -> BindingStates]
    BY <2>1, <2>4, <2>6, SMTT(30) DEF StoreOK
  <2>8. ASSUME NEW i \in DOMAIN stream',
               \A j \in DOMAIN stream' : i < j => stream'[j].key # stream'[i].key
        PROVE  stream'[i].to = live'[stream'[i].key]
    <3>1. i + 1 \in DOMAIN stream /\ stream'[i] = stream[i + 1]
      BY <2>5, SMTT(30)
    <3>2. \A j \in DOMAIN stream : i + 1 < j => stream[j].key # stream[i + 1].key
      <4>. TAKE j \in DOMAIN stream
      <4>. HAVE i + 1 < j
      <4>1. j - 1 \in DOMAIN stream' /\ i < j - 1 /\ stream'[j - 1] = stream[j]
        BY <2>5, <2>8, SMTT(30)
      <4>. QED
        BY <2>8, <3>1, <4>1, SMTT(30)
    <3>. QED
      BY <2>1, <2>4, <3>1, <3>2, SMTT(30) DEF StoreOK, Streamed
  <2>9. ASSUME NEW b \in Bindings, CacheFresh(b)' PROVE cache'[b] = live'[b]
    <3>1. \A i \in DOMAIN stream' : stream'[i].key # b
      BY <2>9, SMTT(30) DEF CacheFresh
    <3>2. \A j \in DOMAIN stream : 1 < j => stream[j].key # b
      <4>. TAKE j \in DOMAIN stream
      <4>. HAVE 1 < j
      <4>1. j - 1 \in DOMAIN stream' /\ stream'[j - 1] = stream[j]
        BY <2>5, SMTT(30)
      <4>. QED
        BY <3>1, <4>1, SMTT(30)
    <3>3. CASE b = e.key
      <4>1. 1 \in DOMAIN stream /\ stream[1].to = live[b]
        BY <2>1, <2>5, <3>2, <3>3, SMTT(30) DEF StoreOK, Streamed
      <4>. QED
        BY <2>1, <2>4, <2>5, <3>3, <4>1, SMTT(30) DEF StoreOK
    <3>4. CASE b # e.key
      <4>1. CacheFresh(b)
        BY <2>5, <3>2, <3>4, SMTT(30) DEF CacheFresh
      <4>. QED
        BY <2>1, <2>4, <3>4, <4>1, SMTT(30) DEF StoreOK, Streamed
    <3>. QED
      BY <3>3, <3>4, SMTT(30)
  <2>10. StoreOK'
    BY <2>5, <2>7, <2>8, <2>9, SMTT(30) DEF StoreOK, Streamed
  <2>11. MemoryOK'
    BY <2>1, <2>4, <1>MemoryKept, SMTT(30)
  <2>12. RestOK'
    BY <2>1, <2>4, <2>6, SMTT(30) DEF RestOK, PeerRequests
  <2>. QED
    BY <2>10, <2>11, <2>12, <1>PartsNext, SMTT(30)
\* Events of pools and outputs, and timers, only make requests for bindings.
<1>RequestStep.
      ASSUME WatchInvariant,
             \/ \E p \in Pools : DeliverPool(p)
             \/ \E n \in Names : DeliverOutput(n)
             \/ \E b \in Bindings : Expire(b)
      PROVE  WatchInvariant'
  <2>. USE <1>RequestStep
  <2>1. StoreOK /\ MemoryOK /\ RestOK
    BY Parts, SMTT(30)
  <2>2. UNCHANGED <<live, cache, stream, op, pools, outs, moves, holds>>
    BY SMTT(30) DEF DeliverPool, DeliverOutput, Expire
  <2>3. RestOK'
    BY <2>1, <2>2, SMTT(30) DEF RestOK, DeliverPool, DeliverOutput, Expire, PoolRequests, OutputRequests, PeerRequests
  <2>. QED
    BY <2>1, <2>2, <2>3, <1>StoreKept, <1>MemoryKept, <1>PartsNext, SMTT(30)
\* What users do to bindings outdates the copies of the binding.
<1>UserStep.
      ASSUME WatchInvariant, NEW b \in Bindings, NEW new \in BindingStates,
             Store([c \in {b} |-> new]), Outdate(b), Move,
             UNCHANGED <<cache, pools, poolEvents, outs, outEvents, queue, timers>>
      PROVE  WatchInvariant'
  <2>. USE <1>UserStep
  <2>1. StoreOK /\ MemoryOK /\ RestOK
    BY Parts, SMTT(30)
  <2>2. PICK f : f = [c \in {b} |-> new]
    BY SMTT(30)
  <2>3. DOMAIN f \subseteq Bindings /\ \A x \in DOMAIN f : f[x] \in BindingStates
    BY <2>2, SMTT(30)
  <2>4. StoreOK'
    BY <2>1, <2>2, <2>3, <1>StoreStep, SMTT(30)
  <2>5. MemoryOK'
    BY <2>1, <1>OutdateStep
  <2>6. RestOK'
    BY <2>1, WatchAssumption, SMTT(30) DEF RestOK, Move
  <2>. QED
    BY <2>4, <2>5, <2>6, <1>PartsNext, SMTT(30)
\* Creating, editing and deleting bindings.
<1>ChangeBindingStep.
      ASSUME WatchInvariant, NEW b \in Bindings,
             DeleteBinding(b) \/ \E s \in Specs : CreateBinding(b, s) \/ EditBinding(b, s)
      PROVE  WatchInvariant'
  <2>. USE <1>ChangeBindingStep
  <2>1. live[b] \in BindingStates
    BY SMTT(30) DEF WatchInvariant, TypeOK
  <2>2. ASSUME DeleteBinding(b) PROVE WatchInvariant'
    <3>1. PICK new : new = IF live[b].fin THEN [live[b] EXCEPT !.deleting = TRUE, !.gen = @ + 1] ELSE AbsentBinding
      BY SMTT(30)
    <3>2. new \in BindingStates
      <4>1. PICK g \in Nat : g = live[b].gen + 1
        BY <2>1, SMTT(30) DEF BindingStates
      <4>2. [live[b] EXCEPT !.deleting = TRUE, !.gen = g] \in BindingStates
        BY <2>1 DEF BindingStates
      <4>3. new = IF live[b].fin THEN [live[b] EXCEPT !.deleting = TRUE, !.gen = g] ELSE AbsentBinding
        BY <2>1, <3>1, <4>1, SMTT(30) DEF BindingStates
      <4>. QED
        BY <4>2, <4>3, AbsentTyped, SMTT(30)
    <3>3. Store([c \in {b} |-> new])
      BY <2>2, <3>1, SMTT(30) DEF DeleteBinding
    <3>. QED
      BY <2>2, <3>2, <3>3, <1>UserStep DEF DeleteBinding
  <2>3. ASSUME NEW s \in Specs, CreateBinding(b, s) PROVE WatchInvariant'
    BY <2>3, NewTyped, <1>UserStep DEF CreateBinding
  <2>4. ASSUME NEW s \in Specs, EditBinding(b, s) PROVE WatchInvariant'
    <3>1. PICK new : new = [live[b] EXCEPT !.spec = s, !.gen = @ + 1]
      BY SMTT(30)
    <3>2. new \in BindingStates
      <4>1. PICK g \in Nat : g = live[b].gen + 1
        BY <2>1, SMTT(30) DEF BindingStates
      <4>2. [live[b] EXCEPT !.spec = s, !.gen = g] \in BindingStates
        BY <2>1 DEF BindingStates
      <4>3. new = [live[b] EXCEPT !.spec = s, !.gen = g]
        BY <2>1, <3>1, <4>1, SMTT(30) DEF BindingStates
      <4>. QED
        BY <4>2, <4>3, SMTT(30)
    <3>3. Store([c \in {b} |-> new])
      BY <2>4, <3>1, SMTT(30) DEF EditBinding
    <3>. QED
      BY <2>4, <3>2, <3>3, <1>UserStep DEF EditBinding
  <2>. QED
    BY <2>2, <2>3, <2>4, SMTT(30)
\* Pools and outputs change beside the bindings.
<1>ChangeOutsideStep.
      ASSUME WatchInvariant,
             \/ \E p \in Pools, v \in 0 .. MaxMoves + 1 : ChangePool(p, v)
             \/ \E n \in Names : TouchOutput(n) \/ Release(n)
      PROVE  WatchInvariant'
  <2>. USE <1>ChangeOutsideStep
  <2>1. StoreOK /\ MemoryOK /\ RestOK
    BY Parts, SMTT(30)
  <2>2. UNCHANGED <<live, cache, stream, op, queue, timers>>
    BY DEF ChangePool, TouchOutput, Release
  <2>3. ASSUME NEW p \in Pools, NEW v \in 0 .. MaxMoves + 1, ChangePool(p, v) PROVE RestOK'
    BY <2>1, <2>3, WatchAssumption, SMTT(30) DEF RestOK, ChangePool, Move
  <2>4. ASSUME NEW n \in Names PROVE
          /\ [outs EXCEPT ![n] = AbsentOutput(@.uid)] \in [Names -> OutputStates]
          /\ [outs EXCEPT ![n].ver = 0] \in [Names -> OutputStates]
    BY <2>1, SMTT(30) DEF RestOK, OutputStates, AbsentOutput
  <2>5. ASSUME NEW n \in Names, TouchOutput(n) PROVE RestOK'
    <3>1. outs' \in [Names -> OutputStates] /\ outEvents' \subseteq Names
      BY <2>1, <2>4, <2>5, <1>SetOutsStep DEF TouchOutput
    <3>. QED
      BY <2>1, <2>5, <3>1, WatchAssumption, SMTT(30) DEF RestOK, TouchOutput, Move
  <2>6. ASSUME NEW n \in Names, Release(n) PROVE RestOK'
    <3>1. outs' \in [Names -> OutputStates] /\ outEvents' \subseteq Names
      BY <2>1, <2>4, <2>6, <1>SetOutsStep DEF Release
    <3>. QED
      BY <2>1, <2>6, <3>1, SMTT(30) DEF RestOK, Release
  <2>7. RestOK'
    BY <2>3, <2>5, <2>6, SMTT(30)
  <2>. QED
    BY <2>1, <2>2, <2>7, <1>StoreKept, <1>MemoryKept, <1>PartsNext, SMTT(30)
\* A restart fills the cache from what is stored.
<1>RestartStep. ASSUME WatchInvariant, Restart PROVE WatchInvariant'
  <2>. USE <1>RestartStep
  <2>1. StoreOK /\ MemoryOK /\ RestOK
    BY Parts, SMTT(30)
  <2>2. live' = live /\ cache' = live /\ stream' = <<>> /\ op' = Idle
    BY SMTT(30) DEF Restart
  <2>3. stream' \in Seq(Events) /\ DOMAIN stream' = {}
    BY <2>2, SMTT(30)
  <2>4. StoreOK'
    BY <2>1, <2>2, <2>3, SMTT(30) DEF StoreOK, Streamed, CacheFresh
  <2>5. RestOK'
    BY <2>1, WatchAssumption, SMTT(30) DEF RestOK, Restart, Move, PeerRequests
  <2>. QED
    BY <2>2, <2>4, <2>5, <1>IdleMemory, <1>PartsNext, SMTT(30)
\* No binding changes.
<1>NothingWritten. ASSUME StoreOK, live' = live PROVE WritesKept
  BY <1>NothingWritten, WrittenManaged DEF StoreOK, WritesKept
\* The bindings that are written change in nothing that users declare.
<1>ManagedWritten.
      ASSUME StoreOK, NEW new, Store(new), \A b \in DOMAIN new : Managed(live[b], new[b])
      PROVE  WritesKept
  <2>. USE <1>ManagedWritten
  <2>1. ASSUME NEW b \in Bindings PROVE Managed(live[b], live'[b])
    <3>1. live[b] \in BindingStates
      BY SMTT(30) DEF StoreOK
    <3>. QED
      BY <3>1, StoreValue, WrittenManaged
  <2>. QED
    BY <2>1, SMTT(30) DEF WritesKept
\* Writing one binding.
<1>StoreOne.
      ASSUME StoreOK, cache' = cache, NEW b \in Bindings, NEW new \in BindingStates,
             Store([c \in {b} |-> new])
      PROVE  StoreOK' /\ live'[b] = new /\ (Managed(live[b], new) => WritesKept)
  <2>. USE <1>StoreOne
  <2>1. PICK f : f = [c \in {b} |-> new]
    BY SMTT(30)
  <2>2. DOMAIN f = {b} /\ f[b] = new /\ Store(f)
    BY <2>1, SMTT(30)
  <2>3. StoreOK'
    BY <2>2, <1>StoreStep, SMTT(30)
  <2>4. live'[b] = new
    BY <2>2, StoreValue, SMTT(30)
  <2>5. Managed(live[b], new) => WritesKept
    BY <2>2, <1>ManagedWritten, SMTT(30)
  <2>. QED
    BY <2>3, <2>4, <2>5, SMTT(30)
\* Fetching the binding, and adding the finalizer under the lock of the cached copy.
<1>FetchStep. ASSUME WatchInvariant, NEW b \in Bindings, Fetch(b) PROVE WatchInvariant' /\ WritesKept
  <2>. USE <1>FetchStep
  <2>1. StoreOK /\ MemoryOK /\ RestOK
    BY Parts, SMTT(30)
  <2>2. UNCHANGED <<cache, pools, poolEvents, outs, outEvents, timers, moves, holds>> /\ queue' = queue \ {b}
    BY SMTT(30) DEF Fetch
  <2>3. RestOK'
    BY <2>1, <2>2, SMTT(30) DEF RestOK
  <2>4. PICK own : own = cache[b]
    BY SMTT(30)
  <2>5. own \in BindingStates /\ (CacheFresh(b) => own = live[b])
    BY <2>1, <2>4, CachedIsStored, SMTT(30)
  <2>6. \/ UNCHANGED <<live, stream, op>>
        \/ /\ op' = [Idle EXCEPT !.pc = "decide", !.key = b, !.own = own,
                                 !.fresh = IF CacheFresh(b) THEN {b} ELSE {}]
           /\ UNCHANGED <<live, stream>>
        \/ /\ CacheFresh(b)
           /\ Store([c \in {b} |-> [own EXCEPT !.fin = TRUE]])
           /\ op' = [Idle EXCEPT !.pc = "decide", !.key = b, !.own = [own EXCEPT !.fin = TRUE],
                                 !.fresh = IF TRUE THEN {b} ELSE {}]
    BY <2>4 DEF Fetch
  <2>7. CASE UNCHANGED <<live, stream, op>>
    BY <2>1, <2>2, <2>3, <2>7, <1>StoreKept, <1>MemoryKept, <1>NothingWritten, <1>PartsNext, SMTT(30)
  <2>8. CASE /\ op' = [Idle EXCEPT !.pc = "decide", !.key = b, !.own = own,
                                   !.fresh = IF CacheFresh(b) THEN {b} ELSE {}]
             /\ UNCHANGED <<live, stream>>
    <3>1. PICK fresh : fresh = IF CacheFresh(b) THEN {b} ELSE {}
      OBVIOUS
    <3>2. fresh \in SUBSET {b} /\ (b \in fresh => own = live'[b])
      BY <2>5, <2>8, <3>1, SMTT(30)
    <3>3. MemoryOK'
      BY <2>5, <2>8, <3>1, <3>2, <1>DecideMemory
    <3>. QED
      BY <2>1, <2>2, <2>3, <2>8, <3>3, <1>StoreKept, <1>NothingWritten, <1>PartsNext, SMTT(30)
  <2>9. CASE /\ CacheFresh(b)
             /\ Store([c \in {b} |-> [own EXCEPT !.fin = TRUE]])
             /\ op' = [Idle EXCEPT !.pc = "decide", !.key = b, !.own = [own EXCEPT !.fin = TRUE],
                                   !.fresh = IF TRUE THEN {b} ELSE {}]
    <3>1. PICK new : new = [own EXCEPT !.fin = TRUE]
      OBVIOUS
    <3>2. new \in BindingStates /\ Managed(live[b], new)
      BY <2>5, <2>9, <3>1, WrittenTyped, WrittenManaged
    <3>3. StoreOK' /\ live'[b] = new /\ WritesKept
      BY <2>1, <2>2, <2>9, <3>1, <3>2, <1>StoreOne
    <3>4. op' = [Idle EXCEPT !.pc = "decide", !.key = b, !.own = new, !.fresh = {b}]
      BY <2>9, <3>1, SMTT(30)
    <3>5. MemoryOK'
      BY <3>2, <3>3, <3>4, <1>DecideMemory
    <3>. QED
      BY <2>3, <3>3, <3>5, <1>PartsNext, SMTT(30)
  <2>. QED
    BY <2>6, <2>7, <2>8, <2>9, SMTT(30)
\* Writing the status over the cached copy, under its lock.
<1>PatchStatusStep. ASSUME WatchInvariant, PatchStatus PROVE WatchInvariant' /\ WritesKept
  <2>. USE <1>PatchStatusStep
  <2>1. StoreOK /\ MemoryOK /\ RestOK
    BY Parts, SMTT(30)
  <2>2. op.pc = "status" /\ UNCHANGED <<cache, pools, poolEvents, outs, outEvents, moves, holds>>
    BY SMTT(30) DEF PatchStatus
  <2>3. /\ op.key \in Bindings /\ op.own \in BindingStates /\ op.cond \in Conditions /\ op.ver \in Nat
    BY <2>1, <2>2, MemoryFields, SMTT(30)
  <2>4. PICK new : new = [cond |-> op.cond, gen |-> op.own.gen, ver |-> IF op.cond = "Ready" THEN op.ver ELSE 0]
    OBVIOUS
  <2>5. new \in [cond : Conditions, gen : Nat, ver : Nat]
    BY <2>3, <2>4, SMTT(30) DEF BindingStates
  <2>6. PICK latest : latest = cache[op.key]
    BY SMTT(30)
  <2>7. /\ latest \in BindingStates
        /\ CacheFresh(op.key) => latest = live[op.key]
    BY <2>1, <2>3, <2>6, CachedIsStored, SMTT(30)
  <2>8. \E after : Return(after)
    BY SMTT(30) DEF PatchStatus
  <2>9. MemoryOK' /\ queue' \subseteq Bindings /\ timers' \subseteq Bindings
    BY <2>1, <2>3, <2>8, <1>ReturnStep, SMTT(30)
  <2>10. RestOK'
    BY <2>1, <2>2, <2>9, SMTT(30) DEF RestOK
  <2>11. \/ UNCHANGED <<live, stream>>
         \/ CacheFresh(op.key) /\ Store([b \in {op.key} |-> [latest EXCEPT !.status = new]])
    BY <2>4, <2>6 DEF PatchStatus
  <2>12. CASE UNCHANGED <<live, stream>>
    BY <2>1, <2>2, <2>9, <2>10, <2>12, <1>StoreKept, <1>NothingWritten, <1>PartsNext, SMTT(30)
  <2>13. CASE CacheFresh(op.key) /\ Store([b \in {op.key} |-> [latest EXCEPT !.status = new]])
    <3>1. PICK c : c = [latest EXCEPT !.status = new]
      OBVIOUS
    <3>2. c \in BindingStates /\ Managed(live[op.key], c)
      BY <2>5, <2>7, <2>13, <3>1, WrittenTyped, WrittenManaged
    <3>3. StoreOK' /\ WritesKept
      BY <2>1, <2>2, <2>3, <2>13, <3>1, <3>2, <1>StoreOne
    <3>. QED
      BY <2>9, <2>10, <3>3, <1>PartsNext, SMTT(30)
  <2>. QED
    BY <2>11, <2>12, <2>13, SMTT(30)
\* A reconcile that needs no peers works on its own copy.
<1>DecideAloneStep. ASSUME WatchInvariant, DecideAlone PROVE WatchInvariant' /\ WritesKept
  <2>. USE <1>DecideAloneStep
  <2>1. StoreOK /\ MemoryOK /\ RestOK
    BY Parts, SMTT(30)
  <2>2. /\ op.pc = "decide"
        /\ UNCHANGED <<live, cache, stream, pools, poolEvents, outs, outEvents, queue, timers, moves, holds>>
    BY SMTT(30) DEF DecideAlone
  <2>3. op \in Memories /\ op.key \in Bindings /\ op.own \in BindingStates
    BY <2>1, <2>2, MemoryFields, SMTT(30)
  <2>4. PICK copies, then :
          /\ copies = [b \in {op.key} |-> op.own]
          /\ then \in {"finalize", "clean"} /\ (then = "finalize" => op.own.deleting)
          /\ op' = [op EXCEPT !.pc = "withdraw", !.copies = copies, !.then = then]
    BY DEF DecideAlone
  <2>5. copies \in UNION {[S -> BindingStates] : S \in SUBSET Bindings}
    <3>1. copies \in [{op.key} -> BindingStates] /\ {op.key} \in SUBSET Bindings
      BY <2>3, <2>4, SMTT(30)
    <3>. QED
      BY <3>1, SMTT(30)
  <2>6. /\ op' \in Memories /\ op'.pc = "withdraw" /\ op'.key = op.key /\ op'.own = op.own
        /\ op'.copies = copies /\ op'.then = then /\ op'.fresh = op.fresh
    BY <2>3, <2>4, <2>5 DEF Memories
  <2>7. Remembered'
    BY <2>1, <2>2, <2>3, <2>4, <2>6, SMTT(30) DEF MemoryOK, Remembered
  <2>8. MemoryOK'
    BY <2>6, <2>7, SMTT(30) DEF MemoryOK
  <2>9. RestOK'
    BY <2>1, <2>2, SMTT(30) DEF RestOK
  <2>. QED
    BY <2>1, <2>2, <2>8, <2>9, <1>StoreKept, <1>NothingWritten, <1>PartsNext, SMTT(30)
\* Evaluating the peers: records are cleared from cached copies under their lock, and the
\* copies that are kept for withdrawal and count as current are what is then stored.
<1>DecideAmongPeersStep. ASSUME WatchInvariant, DecideAmongPeers PROVE WatchInvariant' /\ WritesKept
  <2>. USE <1>DecideAmongPeersStep
  <2>. DEFINE gone == {b \in LookedUp : cache[b].rec # NoRec /\ ~Found(cache[b], outs)}
              cleared == [b \in gone |-> Cleared(cache[b])]
              listed(b) == IF b \in gone THEN cleared[b] ELSE cache[b]
              members == Rivals \cup Blockers \cup {op.key}
              own(b) == IF b = op.key /\ Rivals = {} THEN op.own ELSE listed(b)
              fresh == {b \in Bindings : CacheFresh(b)}
              freshOwn == op.fresh \ gone
  <2>1. StoreOK /\ MemoryOK /\ RestOK
    BY Parts, SMTT(30)
  <2>2. op.pc = "decide" /\ UNCHANGED <<cache, pools, poolEvents, outs, outEvents, moves, holds>>
    BY SMTT(30) DEF DecideAmongPeers
  <2>3. op \in Memories /\ op.key \in Bindings /\ op.own \in BindingStates /\ op.fresh \subseteq Bindings
    BY <2>1, <2>2, MemoryFields, SMTT(30)
  <2>4. \/ Fail /\ UNCHANGED <<live, stream>>
        \/ /\ gone \subseteq fresh /\ Store(cleared) /\ UNCHANGED <<queue, timers>>
           /\ \/ op' = [op EXCEPT !.pc = "withdraw", !.copies = [b \in members |-> own(b)],
                                  !.fresh = IF Rivals = {} THEN freshOwn \cup (fresh \ {op.key}) ELSE fresh,
                                  !.then = IF Blockers # {} THEN "blocked" ELSE "conflict"]
              \/ op' = [op EXCEPT !.pc = "apply", !.fresh = freshOwn, !.ver = pools[op.own.spec.pool]]
              \/ op' = [op EXCEPT !.pc = "withdraw", !.copies = [b \in {op.key} |-> op.own],
                                  !.fresh = freshOwn, !.ver = pools[op.own.spec.pool], !.then = "rename"]
    BY SMTT(30) DEF DecideAmongPeers
  <2>5. CASE Fail /\ UNCHANGED <<live, stream>>
    <3>1. MemoryOK' /\ queue' \subseteq Bindings /\ timers' \subseteq Bindings
      BY <2>1, <2>3, <2>5, <1>FailStep, SMTT(30)
    <3>2. RestOK'
      BY <2>1, <2>2, <3>1, SMTT(30) DEF RestOK
    <3>. QED
      BY <2>1, <2>2, <2>5, <3>1, <3>2, <1>StoreKept, <1>NothingWritten, <1>PartsNext, SMTT(30)
  <2>6. CASE /\ gone \subseteq fresh /\ Store(cleared) /\ UNCHANGED <<queue, timers>>
             /\ \/ op' = [op EXCEPT !.pc = "withdraw", !.copies = [b \in members |-> own(b)],
                                    !.fresh = IF Rivals = {} THEN freshOwn \cup (fresh \ {op.key}) ELSE fresh,
                                    !.then = IF Blockers # {} THEN "blocked" ELSE "conflict"]
                \/ op' = [op EXCEPT !.pc = "apply", !.fresh = freshOwn, !.ver = pools[op.own.spec.pool]]
                \/ op' = [op EXCEPT !.pc = "withdraw", !.copies = [b \in {op.key} |-> op.own],
                                    !.fresh = freshOwn, !.ver = pools[op.own.spec.pool], !.then = "rename"]
    <3>1. gone \subseteq Bindings /\ members \subseteq Bindings /\ op.key \in members
      BY <2>3 DEF LookedUp, Rivals, Blockers
    <3>2. ASSUME NEW b \in gone
          PROVE  /\ b \in Bindings /\ cache[b] \in BindingStates /\ cache[b] = live[b]
                 /\ cleared[b] = Cleared(cache[b]) /\ cleared[b] \in BindingStates
                 /\ Managed(live[b], cleared[b])
      <4>1. b \in Bindings /\ CacheFresh(b)
        BY <2>6, <3>1, SMTT(30)
      <4>2. cache[b] \in BindingStates /\ cache[b] = live[b]
        BY <2>1, <4>1, CachedIsStored, SMTT(30)
      <4>. QED
        BY <4>1, <4>2, WrittenTyped, WrittenManaged
    <3>3. DOMAIN cleared = gone
      BY SMTT(30)
    <3>4. PICK new : new = cleared
      OBVIOUS
    <3>5. /\ DOMAIN new = gone /\ Store(new)
          /\ \A b \in gone : new[b] \in BindingStates /\ Managed(live[b], new[b]) /\ new[b] = Cleared(cache[b])
      BY <2>6, <3>2, <3>3, <3>4
    <3>6. StoreOK' /\ WritesKept
      BY <2>1, <2>2, <3>1, <3>5, <1>StoreStep, <1>ManagedWritten
    <3>7. \A b \in Bindings : live'[b] = IF b \in gone THEN new[b] ELSE live[b]
      BY <3>5, StoreValue
    <3>8. \A b \in Bindings : listed(b) \in BindingStates /\ (b \in fresh => listed(b) = live'[b])
      <4>. TAKE b \in Bindings
      <4>1. cache[b] \in BindingStates /\ (b \in fresh => cache[b] = live[b])
        BY <2>1, CachedIsStored
      <4>. QED
        BY <3>2, <3>4, <3>7, <4>1
    <3>9. op.key \in freshOwn => op.own = live'[op.key]
      BY <2>1, <2>2, <2>3, <3>7 DEF MemoryOK, Remembered
    <3>10. RestOK'
      BY <2>1, <2>2, <2>6, SMTT(30) DEF RestOK
    <3>11. pools[op.own.spec.pool] \in Nat
      BY <2>1, <2>3, WatchAssumption DEF RestOK, BindingStates
    <3>12. freshOwn \subseteq Bindings /\ fresh \subseteq Bindings
      BY <2>3
    <3>13. CASE op' = [op EXCEPT !.pc = "withdraw", !.copies = [b \in members |-> own(b)],
                                 !.fresh = IF Rivals = {} THEN freshOwn \cup (fresh \ {op.key}) ELSE fresh,
                                 !.then = IF Blockers # {} THEN "blocked" ELSE "conflict"]
      <4>1. PICK copies, f, then :
              /\ copies = [b \in members |-> own(b)]
              /\ f = IF Rivals = {} THEN freshOwn \cup (fresh \ {op.key}) ELSE fresh
              /\ then = IF Blockers # {} THEN "blocked" ELSE "conflict"
        OBVIOUS
      <4>2. op' = [op EXCEPT !.pc = "withdraw", !.copies = copies, !.fresh = f, !.then = then]
        BY <3>13, <4>1, SMTT(30)
      <4>3. \A b \in members : own(b) \in BindingStates /\ (b \in f => own(b) = live'[b])
        <5>. TAKE b \in members
        <5>1. CASE b = op.key /\ Rivals = {}
          <6>1. own(b) = op.own /\ f = freshOwn \cup (fresh \ {op.key})
            BY <4>1, <5>1
          <6>2. b \in f => b \in freshOwn
            BY <5>1, <6>1
          <6>. QED
            BY <2>3, <3>9, <5>1, <6>1, <6>2
        <5>2. CASE ~(b = op.key /\ Rivals = {})
          <6>1. own(b) = listed(b) /\ b \in Bindings
            BY <3>1, <5>2
          <6>2. b \in f => b \in fresh
            <7>1. freshOwn \subseteq {op.key}
              BY <2>1, <2>2 DEF MemoryOK, Remembered
            <7>. QED
              BY <4>1, <5>2, <7>1
          <6>. QED
            BY <3>8, <6>1, <6>2
        <5>. QED
          BY <5>1, <5>2
      <4>4. DOMAIN copies = members /\ \A b \in members : copies[b] \in BindingStates /\ (b \in f => copies[b] = live'[b])
        BY <4>1, <4>3
      <4>5. copies \in [members -> BindingStates]
        BY <4>1, <4>3
      <4>6. copies \in UNION {[S -> BindingStates] : S \in SUBSET Bindings} /\ f \in SUBSET Bindings
        BY <3>1, <3>12, <4>1, <4>5
      <4>7. /\ op' \in Memories /\ op'.pc = "withdraw" /\ op'.key = op.key /\ op'.copies = copies
            /\ op'.then \in {"blocked", "conflict"} /\ op'.fresh = f
        BY <2>3, <4>1, <4>2, <4>6 DEF Memories
      <4>8. MemoryOK'
        BY <2>3, <4>4, <4>7, SMTT(30) DEF MemoryOK, Remembered
      <4>. QED
        BY <3>6, <3>10, <4>8, <1>PartsNext, SMTT(30)
    <3>14. CASE op' = [op EXCEPT !.pc = "apply", !.fresh = freshOwn, !.ver = pools[op.own.spec.pool]]
      <4>1. /\ op' \in Memories /\ op'.pc = "apply" /\ op'.key = op.key /\ op'.own = op.own
            /\ op'.fresh = freshOwn
        BY <2>3, <3>11, <3>12, <3>14 DEF Memories
      <4>2. MemoryOK'
        BY <2>3, <3>9, <4>1 DEF MemoryOK, Remembered
      <4>. QED
        BY <3>6, <3>10, <4>2, <1>PartsNext, SMTT(30)
    <3>15. CASE op' = [op EXCEPT !.pc = "withdraw", !.copies = [b \in {op.key} |-> op.own],
                                 !.fresh = freshOwn, !.ver = pools[op.own.spec.pool], !.then = "rename"]
      <4>1. PICK copies : copies = [b \in {op.key} |-> op.own]
        OBVIOUS
      <4>2. copies \in [{op.key} -> BindingStates] /\ {op.key} \in SUBSET Bindings
        BY <2>3, <4>1, SMTT(30)
      <4>3. copies \in UNION {[S -> BindingStates] : S \in SUBSET Bindings}
        BY <4>2, SMTT(30)
      <4>4. /\ op' \in Memories /\ op'.pc = "withdraw" /\ op'.key = op.key /\ op'.own = op.own
            /\ op'.copies = copies /\ op'.then = "rename" /\ op'.fresh = freshOwn
        BY <2>3, <3>11, <3>12, <3>15, <4>1, <4>3 DEF Memories
      <4>5. MemoryOK'
        BY <2>3, <3>9, <4>1, <4>4 DEF MemoryOK, Remembered
      <4>. QED
        BY <3>6, <3>10, <4>5, <1>PartsNext, SMTT(30)
    <3>. QED
      BY <2>6, <3>13, <3>14, <3>15, SMTT(30)
  <2>. QED
    BY <2>4, <2>5, <2>6, SMTT(30)
\* Bringing the output up to date, or creating it and recording it under the lock.
<1>ApplyStep. ASSUME WatchInvariant, Apply PROVE WatchInvariant' /\ WritesKept
  <2>. USE <1>ApplyStep
  <2>. DEFINE n == Output(op.key, op.own.spec)
              new == [AbsentOutput(outs[n].uid + 1) EXCEPT !.there = TRUE, !.ver = op.ver]
              waiting == [cond |-> "PendingOutput", gen |-> op.own.gen, ver |-> 0]
              recorded == [op.own EXCEPT !.rec = [name |-> n, uid |-> new.uid], !.status = waiting]
  <2>1. StoreOK /\ MemoryOK /\ RestOK
    BY Parts, SMTT(30)
  <2>2. op.pc = "apply" /\ UNCHANGED <<cache, pools, poolEvents, moves, holds>>
    BY DEF Apply
  <2>3. op \in Memories /\ op.key \in Bindings /\ op.own \in BindingStates /\ op.ver \in Nat
    BY <2>1, <2>2, MemoryFields, SMTT(30)
  <2>4. n \in Names /\ outs \in [Names -> OutputStates] /\ outs[n] \in OutputStates
    BY <2>1, <2>3, OutputNamed DEF RestOK, BindingStates
  <2>5. /\ new \in OutputStates /\ new.uid \in Nat
        /\ [outs EXCEPT ![n] = new] \in [Names -> OutputStates]
        /\ [outs EXCEPT ![n].ver = op.ver] \in [Names -> OutputStates]
    <3>1. outs[n].uid + 1 \in Nat
      BY <2>4, SMTT(30) DEF OutputStates
    <3>2. new \in OutputStates
      BY <2>3, <3>1, NewOutput
    <3>3. new \in OutputStates /\ new.uid \in Nat
      BY <3>2 DEF OutputStates
    <3>4. [outs[n] EXCEPT !.ver = op.ver] \in OutputStates
      BY <2>3, <2>4, SMTT(30) DEF OutputStates
    <3>. HIDE DEF new, n
    <3>. QED
      BY <2>4, <3>3, <3>4, SMTT(30)
  <2>6. [name |-> n, uid |-> new.uid] \in [name : Names, uid : Nat] /\ waiting \in [cond : Conditions, gen : Nat, ver : Nat]
    BY <2>3, <2>4, <2>5, SMTT(30) DEF Conditions, BindingStates
  <2>7. recorded \in BindingStates /\ Managed(op.own, recorded)
    BY <2>3, <2>6, WrittenTyped, WrittenManaged
  <2>8. \/ /\ SetOuts([outs EXCEPT ![n].ver = op.ver]) /\ Finish("Ready", "stop")
           /\ UNCHANGED <<live, stream>>
        \/ /\ op.key \in op.fresh /\ SetOuts([outs EXCEPT ![n] = new])
           /\ Store([c \in {op.key} |-> recorded]) /\ Finish("Ready", "stop")
        \/ Fail /\ UNCHANGED <<live, stream, outs, outEvents>>
    BY DEF Apply
  <2>. HIDE DEF n, new, waiting, recorded
  <2>9. MemoryOK' /\ queue' \subseteq Bindings /\ timers' \subseteq Bindings
    BY <2>1, <2>3, <2>8, <1>FinishStep, <1>FailStep, SMTT(30) DEF Conditions
  <2>10. outs' \in [Names -> OutputStates] /\ outEvents' \subseteq Names
    BY <2>1, <2>4, <2>5, <2>8, <1>SetOutsStep DEF RestOK
  <2>11. RestOK'
    BY <2>1, <2>2, <2>9, <2>10, SMTT(30) DEF RestOK
  <2>12. CASE UNCHANGED <<live, stream>>
    BY <2>1, <2>2, <2>9, <2>11, <2>12, <1>StoreKept, <1>NothingWritten, <1>PartsNext, SMTT(30)
  <2>13. CASE op.key \in op.fresh /\ Store([c \in {op.key} |-> recorded])
    <3>1. op.own = live[op.key]
      BY <2>1, <2>2, <2>13, SMTT(30) DEF MemoryOK, Remembered
    <3>2. StoreOK' /\ WritesKept
      BY <2>1, <2>2, <2>3, <2>7, <2>13, <3>1, <1>StoreOne
    <3>. QED
      BY <2>9, <2>11, <3>2, <1>PartsNext, SMTT(30)
  <2>. QED
    BY <2>8, <2>12, <2>13, SMTT(30)
\* Deleting outputs leaves a function on the names (Deleted).
<1>DeletedTyped. ASSUME RestOK, NEW copies, NEW held PROVE Deleted(copies, held) \in [Names -> OutputStates]
  <2>. USE <1>DeletedTyped
  <2>1. \A n \in Names : outs[n] \in OutputStates
    BY SMTT(30) DEF RestOK
  <2>2. \A n \in Names : /\ [outs[n] EXCEPT !.dying = TRUE] \in OutputStates
                         /\ AbsentOutput(outs[n].uid) \in OutputStates
    BY <2>1 DEF OutputStates, AbsentOutput
  <2>. QED
    BY <2>1, <2>2, SMTT(30) DEF Deleted
\* Withdrawing outputs: records are cleared from copies that are current, a finalizer is
\* removed from a current copy once no output is left, and the copy with which a renamed
\* output is applied stays in step.
<1>WithdrawStep.
      ASSUME WatchInvariant, NEW held \in BOOLEAN, NEW done \in SUBSET DOMAIN op.copies,
             NEW clear \in SUBSET DOMAIN op.copies, Withdraw(held, done, clear)
      PROVE  WatchInvariant' /\ WritesKept
  <2>. USE <1>WithdrawStep
  <2>. DEFINE all == op.copies
              some == [b \in done |-> all[b]]
              gone(copies) == {b \in DOMAIN copies :
                                  copies[b].rec # NoRec /\ ~Found(copies[b], Deleted(copies, held))}
              left == \E b \in DOMAIN all : Found(all[b], Deleted(all, held))
              cleared == [b \in clear |-> Cleared(all[b])]
              renamed == [op EXCEPT !.pc = "apply", !.copies = <<>>,
                                    !.own = IF op.key \in gone(all) THEN Cleared(@) ELSE @]
  <2>1. StoreOK /\ MemoryOK /\ RestOK
    BY Parts, SMTT(30)
  <2>2. /\ op.pc = "withdraw" /\ UNCHANGED <<cache, pools, poolEvents, moves>>
        /\ clear \subseteq op.fresh /\ SetOuts(Deleted(some, held))
    BY DEF Withdraw
  <2>3. /\ op \in Memories /\ op.key \in Bindings /\ op.own \in BindingStates /\ op.fresh \subseteq Bindings
    BY <2>1, <2>2, MemoryFields, SMTT(30)
  <2>4. PICK S \in SUBSET Bindings : all \in [S -> BindingStates]
    BY <2>3, CopiesMapped
  <2>5. holds' \in 0 .. MaxHolds
    BY <2>1, WatchAssumption, SMTT(30) DEF Withdraw, RestOK
  <2>6. outs' = Deleted(some, held) /\ outs' \in [Names -> OutputStates] /\ outEvents' \subseteq Names
    BY <2>1, <2>2, <1>DeletedTyped, <1>SetOutsStep DEF SetOuts
  <2>7. \/ Store(cleared) /\ \E cond \in Conditions, after \in {"stop", "timer", "retry"} :
                                Finish(cond, after) \/ Return(after)
        \/ /\ op.then = "finalize" /\ ~left /\ done = DOMAIN all /\ op.key \in op.fresh
           /\ Store([b \in {op.key} |-> AbsentBinding]) /\ Return("stop")
        \/ /\ op.then = "rename" /\ gone(all) \subseteq op.fresh /\ clear = gone(all)
           /\ Store(cleared) /\ op' = renamed /\ UNCHANGED <<queue, timers>>
    <3>1. \A then, x : After(then, x) \in {"stop", "timer", "retry"}
      BY SMTT(30) DEF After
    <3>2. {"ApplyFailed", "PendingReplacement", "StateError", "PendingConflict", "Conflict"} \subseteq Conditions
      BY SMTT(30) DEF Conditions
    <3>. QED
      BY <3>1, <3>2 DEF Withdraw, Fail
  <2>8. ASSUME NEW b \in clear
        PROVE  /\ b \in Bindings /\ all[b] \in BindingStates /\ all[b] = live[b]
               /\ Cleared(all[b]) \in BindingStates /\ Managed(live[b], Cleared(all[b]))
    <3>1. b \in Bindings /\ all[b] \in BindingStates /\ b \in DOMAIN op.copies \cap op.fresh
      BY <2>2, <2>4, SMTT(30)
    <3>2. all[b] = live[b]
      BY <2>1, <2>2, <3>1 DEF MemoryOK, Remembered
    <3>. QED
      BY <3>1, <3>2, WrittenTyped, WrittenManaged
  <2>9. ASSUME Store(cleared)
        PROVE  /\ StoreOK' /\ WritesKept
               /\ \A b \in Bindings : live'[b] = IF b \in clear THEN Cleared(all[b]) ELSE live[b]
    <3>1. PICK new : new = cleared
      OBVIOUS
    <3>2. DOMAIN new = clear /\ Store(new) /\ \A b \in clear : new[b] = Cleared(all[b])
      BY <2>9, <3>1, SMTT(30)
    <3>3. StoreOK' /\ WritesKept
      BY <2>1, <2>2, <2>8, <3>2, <1>StoreStep, <1>ManagedWritten
    <3>4. \A b \in Bindings : live'[b] = IF b \in clear THEN new[b] ELSE live[b]
      BY <3>2, StoreValue
    <3>. QED
      BY <3>2, <3>3, <3>4, SMTT(30)
  <2>10. ASSUME queue' \subseteq Bindings, timers' \subseteq Bindings PROVE RestOK'
    BY <2>1, <2>2, <2>5, <2>6, <2>10 DEF RestOK
  <2>11. CASE Store(cleared) /\ \E cond \in Conditions, after \in {"stop", "timer", "retry"} :
                                   Finish(cond, after) \/ Return(after)
    <3>1. MemoryOK' /\ queue' \subseteq Bindings /\ timers' \subseteq Bindings
      BY <2>1, <2>3, <2>11, <1>FinishStep, <1>ReturnStep
    <3>. QED
      BY <2>9, <2>10, <2>11, <3>1, <1>PartsNext
  <2>12. CASE /\ op.then = "finalize" /\ ~left /\ done = DOMAIN all /\ op.key \in op.fresh
              /\ Store([b \in {op.key} |-> AbsentBinding]) /\ Return("stop")
    <3>1. MemoryOK' /\ queue' \subseteq Bindings /\ timers' \subseteq Bindings
      BY <2>1, <2>3, <2>12, <1>ReturnStep
    <3>2. StoreOK' /\ live'[op.key] = AbsentBinding
      BY <2>1, <2>2, <2>3, <2>12, AbsentTyped, <1>StoreOne
    <3>3. /\ DOMAIN all = {op.key} /\ all[op.key] = op.own /\ op.own.deleting
          /\ all[op.key] = live[op.key]
      BY <2>1, <2>2, <2>12 DEF MemoryOK, Remembered
    <3>4. some = all
      BY <2>4, <2>12
    <3>5. ~Found(live[op.key], outs')
      BY <2>6, <2>12, <3>3, <3>4
    <3>6. ~live'[op.key].there
      BY <3>2, SMTT(30) DEF AbsentBinding
    <3>7. \A b \in Bindings : b # op.key => live'[b] = live[b] /\ Managed(live[b], live[b])
      <4>. TAKE b \in Bindings
      <4>1. live[b] \in BindingStates
        BY <2>1, SMTT(30) DEF StoreOK
      <4>2. PICK new : new = [c \in {op.key} |-> AbsentBinding]
        OBVIOUS
      <4>3. Store(new) /\ DOMAIN new = {op.key}
        BY <2>12, <4>2
      <4>4. b # op.key => live'[b] = live[b]
        BY <4>3, StoreValue
      <4>. QED
        BY <4>1, <4>4, WrittenManaged
    <3>8. WritesKept
      BY <3>3, <3>5, <3>6, <3>7 DEF WritesKept
    <3>. QED
      BY <2>10, <3>1, <3>2, <3>8, <1>PartsNext, SMTT(30)
  <2>13. CASE /\ op.then = "rename" /\ gone(all) \subseteq op.fresh /\ clear = gone(all)
              /\ Store(cleared) /\ op' = renamed /\ UNCHANGED <<queue, timers>>
    <3>1. PICK own : own = IF op.key \in clear THEN Cleared(op.own) ELSE op.own
      OBVIOUS
    <3>2. op' = [op EXCEPT !.pc = "apply", !.copies = <<>>, !.own = own]
      BY <2>13, <3>1, SMTT(30)
    <3>3. own \in BindingStates
      BY <2>3, <3>1, WrittenTyped
    <3>4. /\ op' \in Memories /\ op'.pc = "apply" /\ op'.key = op.key /\ op'.own = own /\ op'.fresh = op.fresh
      BY <2>3, <3>2, <3>3, NoCopies DEF Memories
    <3>5. op.key \in op.fresh => op.own = live[op.key] /\ all[op.key] = op.own
      BY <2>1, <2>2, <2>13 DEF MemoryOK, Remembered
    <3>6. op.key \in op.fresh => own = live'[op.key]
      BY <2>3, <2>9, <2>13, <3>1, <3>5
    <3>7. MemoryOK'
      BY <2>3, <3>4, <3>6 DEF MemoryOK, Remembered
    <3>8. queue' \subseteq Bindings /\ timers' \subseteq Bindings
      BY <2>1, <2>13, SMTT(30) DEF RestOK
    <3>. QED
      BY <2>9, <2>10, <2>13, <3>7, <3>8, <1>PartsNext, SMTT(30)
  <2>. QED
    BY <2>7, <2>11, <2>12, <2>13, SMTT(30)
<1>. SUFFICES ASSUME WatchInvariant, [Next]_vars PROVE WatchInvariant' /\ WritesKept
  OBVIOUS
<1>1. StoreOK /\ moves \in 0 .. MaxMoves
  BY Parts, SMTT(30) DEF RestOK
<1>2. ASSUME Move PROVE WritesKept
  BY <1>1, <1>2, SMTT(30) DEF Move, WritesKept
<1>3. ASSUME NEW b \in Bindings, Fetch(b) PROVE WatchInvariant' /\ WritesKept
  BY <1>3, <1>FetchStep, SMTT(30)
<1>4. ASSUME Work PROVE WatchInvariant' /\ WritesKept
  BY <1>4, <1>DecideAloneStep, <1>DecideAmongPeersStep, <1>ApplyStep, <1>PatchStatusStep, <1>WithdrawStep, SMTT(30) DEF Work, Decide
<1>5. ASSUME Deliver PROVE WatchInvariant' /\ WritesKept
  <2>1. live' = live
    BY <1>5 DEF Deliver, DeliverBinding, DeliverPool, DeliverOutput, Expire
  <2>. QED
    BY <1>1, <1>5, <2>1, <1>DeliverBindingStep, <1>RequestStep, <1>NothingWritten, SMTT(30) DEF Deliver
<1>6. ASSUME Changes PROVE WatchInvariant' /\ WritesKept
  <2>1. Move
    BY <1>6 DEF Changes, DeleteBinding, CreateBinding, EditBinding, ChangePool, TouchOutput, Restart
  <2>. QED
    BY <1>2, <1>6, <2>1, <1>ChangeBindingStep, <1>ChangeOutsideStep, <1>RestartStep, SMTT(30) DEF Changes
<1>7. ASSUME NEW n \in Names, Release(n) PROVE WatchInvariant' /\ WritesKept
  BY <1>1, <1>7, <1>ChangeOutsideStep, <1>NothingWritten, SMTT(30) DEF Release
<1>8. ASSUME UNCHANGED vars PROVE WatchInvariant' /\ WritesKept
  <2>1. WatchInvariant'
    BY <1>8 DEF vars, WatchInvariant, TypeOK, Streamed, CacheFresh, Remembered
  <2>. QED
    BY <1>1, <1>8, <2>1, <1>NothingWritten, SMTT(30) DEF vars
<1>. QED
  BY <1>3, <1>4, <1>5, <1>6, <1>7, <1>8, SMTT(30) DEF Next

\* Whatever copy the operator may write from is what is stored, for any bindings, pools,
\* lag, changes and restarts, whether or not output events overtake.
THEOREM WatchInductive == Spec => []WatchInvariant
<1>1. Init => WatchInvariant
  BY InitInvariant, SMTT(30)
<1>2. WatchInvariant /\ [Next]_vars => WatchInvariant'
  BY NextStep, SMTT(30)
<1>. QED
  BY <1>1, <1>2, PTL DEF Spec

\* What is stored, cached, under way, queued and in memory has its type.
THEOREM WatchTypes == Spec => []TypeOK
<1>1. WatchInvariant => TypeOK
  BY SMTT(30) DEF WatchInvariant
<1>. QED
  BY <1>1, WatchInductive, PTL

\* No step of the operator takes back what a user wrote, brings a binding back, or removes
\* one that is not being deleted or whose recorded output still exists.
THEOREM UserWrites == Spec => UserWritesKept
<1>. DEFINE Step == moves' = moves => \A b \in Bindings :
                        \/ Managed(live[b], live'[b])
                        \/ ~live'[b].there /\ live[b].deleting /\ ~Found(live[b], outs')
<1>1. WatchInvariant /\ [Next]_vars => [Step]_vars
  BY NextStep DEF WritesKept
<1>. QED
  BY <1>1, WatchInductive, PTL DEF Spec, UserWritesKept

-----------------------------------------------------------------------------
(* What the wake-ups rest on: copies, events and records. *)

\* The name of an output tells whose it is.
LEMMA Owner ==
    /\ \A n \in Names : n[1] \in Bindings
    /\ \A b, s : Output(b, s)[1] = b
BY SMTT(30) DEF Names, Output

\* What is stored of a binding that users create, and of one that is gone, is sound.
LEMMA SoundNew ==
    ASSUME NEW b, NEW s \in Specs
    PROVE  Sound(b, AbsentBinding) /\ Sound(b, NewBinding(s))
BY SMTT(30) DEF Sound, NewBinding, AbsentBinding

\* What the operator and users write into a sound copy leaves it sound.
LEMMA SoundWritten ==
    ASSUME NEW b, NEW c \in BindingStates, Sound(b, c)
    PROVE  /\ Sound(b, Cleared(c))
           /\ Sound(b, [c EXCEPT !.fin = TRUE])
           /\ \A s : Sound(b, [c EXCEPT !.status = s])
           /\ \A s, g : Sound(b, [c EXCEPT !.spec = s, !.gen = g])
           /\ c.there /\ c.fin =>
                 /\ \A g : Sound(b, [c EXCEPT !.deleting = TRUE, !.gen = g])
                 /\ \A r, s : r.name[1] = b => Sound(b, [c EXCEPT !.rec = r, !.status = s])
BY DEF Sound, Cleared, BindingStates

\* The fields of what is written.
LEMMA WrittenFields ==
    ASSUME NEW c \in BindingStates
    PROVE  /\ Cleared(c).rec = NoRec /\ Cleared(c).there = c.there /\ Cleared(c).fin = c.fin
           /\ Cleared(c).spec = c.spec /\ Cleared(c).deleting = c.deleting
           /\ [c EXCEPT !.fin = TRUE].rec = c.rec
           /\ \A s : [c EXCEPT !.status = s].rec = c.rec
           /\ \A r, s : [c EXCEPT !.rec = r, !.status = s].rec = r
BY DEF Cleared, BindingStates

\* The events of a write follow those under way, one for every binding that is written.
LEMMA Appended ==
    ASSUME StoreOK, NEW new, DOMAIN new \subseteq Bindings,
           \A b \in DOMAIN new : new[b] \in BindingStates, Store(new)
    PROVE  /\ Len(stream) \in Nat /\ DOMAIN stream = 1 .. Len(stream)
           /\ Len(stream') \in Nat /\ DOMAIN stream' = 1 .. Len(stream')
           /\ \A i \in DOMAIN stream : i \in DOMAIN stream' /\ stream'[i] = stream[i]
           /\ \A i \in DOMAIN stream' : i \notin DOMAIN stream =>
                 /\ Len(stream) < i
                 /\ stream'[i].key \in DOMAIN new /\ stream'[i].to = new[stream'[i].key]
           /\ \A i, j \in DOMAIN stream' :
                 i \notin DOMAIN stream /\ j \notin DOMAIN stream /\ stream'[i].key = stream'[j].key => i = j
<1>. DEFINE D == DOMAIN new
<1>2. PICK events : stream' = stream \o events /\ Announces(events, D, new)
  BY EventsStored
<1>4. /\ events \in Seq(Events)
      /\ \A i \in DOMAIN events : events[i].key \in D /\ events[i].to = new[events[i].key]
  BY <1>2 DEF Announces
<1>5. \A i, j \in DOMAIN events : events[i].key = events[j].key => i = j
  BY <1>2 DEF Announces
<1>6. stream \in Seq(Events)
  BY SMTT(30) DEF StoreOK
<1>7. /\ Len(stream') = Len(stream) + Len(events)
      /\ stream' \in Seq(Events)
      /\ \A i \in 1 .. Len(stream') :
            stream'[i] = IF i <= Len(stream) THEN stream[i] ELSE events[i - Len(stream)]
  BY <1>2, <1>4, <1>6, SeqConcat, SMTT(30)
<1>8. /\ DOMAIN stream = 1 .. Len(stream) /\ DOMAIN events = 1 .. Len(events)
      /\ DOMAIN stream' = 1 .. Len(stream')
      /\ Len(stream) \in Nat /\ Len(events) \in Nat /\ Len(stream') \in Nat
  BY <1>4, <1>6, <1>7, SeqElements, SMTT(30)
<1>9. \A i \in DOMAIN stream : i \in DOMAIN stream' /\ stream'[i] = stream[i]
  BY <1>7, <1>8, SMTT(30)
<1>10. \A i \in DOMAIN stream' : i \notin DOMAIN stream =>
          /\ Len(stream) < i /\ i - Len(stream) \in DOMAIN events
          /\ stream'[i] = events[i - Len(stream)]
  BY <1>7, <1>8, SMTT(30)
<1>11. ASSUME NEW i \in DOMAIN stream', NEW j \in DOMAIN stream',
              i \notin DOMAIN stream, j \notin DOMAIN stream, stream'[i].key = stream'[j].key
       PROVE  i = j
  <2>1. i - Len(stream) = j - Len(stream)
    BY <1>5, <1>10, <1>11
  <2>. QED
    BY <1>8, <2>1, SMTT(30)
<1>12. \A i \in DOMAIN stream' : i \notin DOMAIN stream =>
          /\ Len(stream) < i
          /\ stream'[i].key \in DOMAIN new /\ stream'[i].to = new[stream'[i].key]
  BY <1>4, <1>10
<1>13. \A i, j \in DOMAIN stream' :
          i \notin DOMAIN stream /\ j \notin DOMAIN stream /\ stream'[i].key = stream'[j].key => i = j
  BY <1>11
<1>. QED
  BY <1>8, <1>9, <1>12, <1>13

\* The events of a write are visible if the write is.
LEMMA VisibleStore ==
    ASSUME StoreOK, VisibleEvents, cache' = cache, NEW new, DOMAIN new \subseteq Bindings,
           \A b \in DOMAIN new : new[b] \in BindingStates /\ Visible(live[b], new[b]), Store(new)
    PROVE  VisibleEvents'
<1>1. /\ Len(stream) \in Nat /\ DOMAIN stream = 1 .. Len(stream)
      /\ Len(stream') \in Nat /\ DOMAIN stream' = 1 .. Len(stream')
      /\ \A i \in DOMAIN stream : i \in DOMAIN stream' /\ stream'[i] = stream[i]
      /\ \A i \in DOMAIN stream' : i \notin DOMAIN stream =>
            /\ Len(stream) < i
            /\ stream'[i].key \in DOMAIN new /\ stream'[i].to = new[stream'[i].key]
      /\ \A i, j \in DOMAIN stream' :
            i \notin DOMAIN stream /\ j \notin DOMAIN stream /\ stream'[i].key = stream'[j].key => i = j
  BY Appended
<1>2. \A i \in DOMAIN stream, j \in DOMAIN stream' : j \notin DOMAIN stream => i < j /\ ~(j < i)
  BY <1>1, SMTT(30)
<1>3. \A i \in DOMAIN stream, j \in DOMAIN stream' : j < i => j \in DOMAIN stream
  BY <1>1, SMTT(30)
<1>4. ASSUME NEW i \in DOMAIN stream',
             \A j \in DOMAIN stream' : j < i => stream'[j].key # stream'[i].key
      PROVE  Visible(cache[stream'[i].key], stream'[i].to)
  <2>1. CASE i \in DOMAIN stream
    <3>1. stream'[i] = stream[i] /\ \A j \in DOMAIN stream : j < i => stream[j].key # stream[i].key
      BY <1>1, <1>4, <2>1
    <3>. QED
      BY <2>1, <3>1 DEF VisibleEvents
  <2>2. CASE i \notin DOMAIN stream
    <3>1. PICK b \in DOMAIN new : b = stream'[i].key /\ stream'[i].to = new[b]
      BY <1>1, <2>2
    <3>2. CacheFresh(b)
      BY <1>1, <1>2, <1>4, <2>2, <3>1 DEF CacheFresh
    <3>3. cache[b] = live[b] /\ Visible(live[b], new[b])
      BY <3>2 DEF StoreOK, Streamed
    <3>. QED
      BY <3>1, <3>3
  <2>. QED
    BY <2>1, <2>2
<1>5. ASSUME NEW i \in DOMAIN stream', NEW j \in DOMAIN stream',
             i < j, stream'[i].key = stream'[j].key,
             \A k \in DOMAIN stream' : i < k /\ k < j => stream'[k].key # stream'[i].key
      PROVE  Visible(stream'[i].to, stream'[j].to)
  <2>0. i \in DOMAIN stream
    <3>1. CASE j \in DOMAIN stream
      BY <1>3, <1>5, <3>1
    <3>2. CASE j \notin DOMAIN stream
      <4>1. i # j
        BY <1>1, <1>5, SMTT(30)
      <4>. QED
        BY <1>1, <1>5, <3>2, <4>1
    <3>. QED
      BY <3>1, <3>2
  <2>1. CASE j \in DOMAIN stream
    <3>1. /\ stream'[i] = stream[i] /\ stream'[j] = stream[j]
          /\ \A k \in DOMAIN stream : i < k /\ k < j => stream[k].key # stream[i].key
      BY <1>1, <1>5, <2>0, <2>1
    <3>2. Visible(stream[i].to, stream[j].to)
      BY <1>5, <2>0, <2>1, <3>1 DEF VisibleEvents
    <3>. QED
      BY <3>1, <3>2
  <2>2. CASE j \notin DOMAIN stream
    <3>1. PICK b \in DOMAIN new : b = stream'[j].key /\ stream'[j].to = new[b]
      BY <1>1, <2>2
    <3>2. stream'[i] = stream[i] /\ \A k \in DOMAIN stream : i < k => stream[k].key # stream[i].key
      BY <1>1, <1>2, <1>5, <2>0, <2>2
    <3>3. stream[i].to = live[stream[i].key] /\ stream[i].key = b
      BY <1>5, <2>0, <3>1, <3>2 DEF StoreOK, Streamed
    <3>4. Visible(live[b], new[b])
      OBVIOUS
    <3>. QED
      BY <3>1, <3>2, <3>3, <3>4
  <2>. QED
    BY <2>1, <2>2
<1>6. /\ \A i \in DOMAIN stream' :
            (\A j \in DOMAIN stream' : j < i => stream'[j].key # stream'[i].key)
            => Visible(cache'[stream'[i].key], stream'[i].to)
      /\ \A i, j \in DOMAIN stream' :
            /\ i < j /\ stream'[i].key = stream'[j].key
            /\ \A k \in DOMAIN stream' : i < k /\ k < j => stream'[k].key # stream'[i].key
            => Visible(stream'[i].to, stream'[j].to)
  BY <1>4, <1>5
<1>. QED
  BY <1>6 DEF VisibleEvents

\* An event that is delivered leaves the following ones visible.
LEMMA VisibleDelivery ==
    ASSUME StoreOK, VisibleEvents, DeliverBinding PROVE VisibleEvents'
<1>1. stream \in Seq(Events) /\ stream # <<>> /\ stream' = Tail(stream)
  BY SMTT(30) DEF StoreOK, DeliverBinding
<1>2. PICK e : e = Head(stream)
  OBVIOUS
<1>3. cache' = [cache EXCEPT ![e.key] = e.to]
  BY <1>2 DEF DeliverBinding
<1>4. /\ Len(stream) \in Nat /\ Len(stream) > 0 /\ DOMAIN stream = 1 .. Len(stream)
      /\ e = stream[1] /\ e \in Events
      /\ DOMAIN stream' = 1 .. (Len(stream) - 1)
      /\ \A i \in 1 .. (Len(stream) - 1) : stream'[i] = stream[i + 1]
  BY <1>1, <1>2, SeqTail, SeqElements, SMTT(30)
<1>5. /\ 1 \in DOMAIN stream
      /\ \A i \in DOMAIN stream' : i + 1 \in DOMAIN stream /\ 1 < i + 1 /\ stream'[i] = stream[i + 1]
      /\ \A i \in DOMAIN stream : i = 1 \/ (1 < i /\ \E j \in DOMAIN stream' : i = j + 1)
      /\ \A i, j \in DOMAIN stream' : i + 1 < j + 1 <=> i < j
  <2>1. 1 \in DOMAIN stream
    BY <1>4, SMTT(30)
  <2>2. \A i \in DOMAIN stream' : i + 1 \in DOMAIN stream /\ 1 < i + 1 /\ stream'[i] = stream[i + 1]
    BY <1>4, SMTT(30)
  <2>3. \A i \in DOMAIN stream : i = 1 \/ (1 < i /\ i - 1 \in DOMAIN stream' /\ i = (i - 1) + 1)
    BY <1>4, SMTT(30)
  <2>4. \A i, j \in DOMAIN stream' : i + 1 < j + 1 <=> i < j
    BY <1>4, SMTT(30)
  <2>. QED
    BY <2>1, <2>2, <2>3, <2>4
<1>6. e.key \in Bindings /\ cache'[e.key] = e.to /\ \A b \in Bindings : b # e.key => cache'[b] = cache[b]
  BY <1>3, <1>4, SMTT(30) DEF StoreOK, Events
<1>7. ASSUME NEW i \in DOMAIN stream',
             \A j \in DOMAIN stream' : j < i => stream'[j].key # stream'[i].key
      PROVE  Visible(cache'[stream'[i].key], stream'[i].to)
  <2>1. PICK k : k = i + 1
    OBVIOUS
  <2>2. k \in DOMAIN stream /\ 1 < k /\ stream'[i] = stream[k]
    BY <1>5, <2>1
  <2>3. \A j \in DOMAIN stream : 1 < j /\ j < k => stream[j].key # stream[k].key
    <3>. TAKE j \in DOMAIN stream
    <3>. HAVE 1 < j /\ j < k
    <3>0. j # 1
      BY <1>4, SMTT(30)
    <3>1. PICK m \in DOMAIN stream' : j = m + 1
      BY <1>5, <3>0
    <3>2. m < i /\ stream'[m] = stream[j]
      BY <1>5, <2>1, <3>1
    <3>. QED
      BY <1>7, <2>2, <3>2
  <2>4. CASE stream[k].key = e.key
    <3>1. Visible(stream[1].to, stream[k].to)
      BY <1>4, <1>5, <2>2, <2>3, <2>4 DEF VisibleEvents
    <3>. QED
      BY <1>4, <1>6, <2>2, <2>4, <3>1
  <2>5. CASE stream[k].key # e.key
    <3>1. \A j \in DOMAIN stream : j < k => stream[j].key # stream[k].key
      BY <1>4, <1>5, <2>3, <2>5
    <3>2. Visible(cache[stream[k].key], stream[k].to)
      BY <2>2, <3>1 DEF VisibleEvents
    <3>3. stream[k].key \in Bindings
      <4>1. stream[k] \in Events
        BY <1>1, <1>4, <2>2, SeqElements, SMTT(30)
      <4>. QED
        BY <4>1, SMTT(30) DEF Events
    <3>. QED
      BY <1>6, <2>2, <2>5, <3>2, <3>3
  <2>. QED
    BY <2>4, <2>5
<1>8. ASSUME NEW i \in DOMAIN stream', NEW j \in DOMAIN stream',
             i < j, stream'[i].key = stream'[j].key,
             \A k \in DOMAIN stream' : i < k /\ k < j => stream'[k].key # stream'[i].key
      PROVE  Visible(stream'[i].to, stream'[j].to)
  <2>1. PICK x, y : x = i + 1 /\ y = j + 1
    OBVIOUS
  <2>2. /\ x \in DOMAIN stream /\ stream'[i] = stream[x] /\ 1 < x
        /\ y \in DOMAIN stream /\ stream'[j] = stream[y] /\ x < y
    BY <1>5, <1>8, <2>1
  <2>3. \A k \in DOMAIN stream : x < k /\ k < y => stream[k].key # stream[x].key
    <3>. TAKE k \in DOMAIN stream
    <3>. HAVE x < k /\ k < y
    <3>1. k # 1
      BY <1>4, <2>2, SMTT(30)
    <3>2. PICK m \in DOMAIN stream' : k = m + 1
      BY <1>5, <3>1
    <3>3. i < m /\ m < j /\ stream'[m] = stream[k]
      BY <1>5, <2>1, <3>2
    <3>. QED
      BY <1>8, <2>2, <3>3
  <2>4. Visible(stream[x].to, stream[y].to)
    BY <1>8, <2>2, <2>3 DEF VisibleEvents
  <2>. QED
    BY <2>2, <2>4
<1>. QED
  BY <1>7, <1>8 DEF VisibleEvents

\* The copies outside of a reconcile, and those in its memory.
SoundStored ==
    /\ \A b \in Bindings : Sound(b, live[b]) /\ Sound(b, cache[b])
    /\ \A i \in DOMAIN stream : Sound(stream[i].key, stream[i].to)

SoundMemory ==
    op.pc # "idle" => Sound(op.key, op.own) /\ \A b \in DOMAIN op.copies : Sound(b, op.copies[b])

\* The decision of a reconcile under way.
DecisionOK == op.pc # "idle" => Decided(op)

\* Every binding has what it should have or will be woken, and every deletion goes on.
Attended ==
    /\ \A b \in Bindings : cache[b].there => Settling(b)
    /\ \A b \in Bindings : cache[b].deleting => Finalized(b)

\* The invariant in the parts that the steps disturb one by one, in this and the next state.
LEMMA WakeParts ==
    /\ WakeInvariant <=> /\ SoundStored /\ SoundMemory /\ VisibleEvents /\ Recorded
                         /\ LeadingCopies /\ Attended /\ DecisionOK
    /\ WakeInvariant' <=> /\ SoundStored' /\ SoundMemory' /\ VisibleEvents' /\ Recorded'
                          /\ LeadingCopies' /\ Attended' /\ DecisionOK'
<1>1. WakeInvariant <=> /\ SoundStored /\ SoundMemory /\ VisibleEvents /\ Recorded
                        /\ LeadingCopies /\ Attended /\ DecisionOK
  BY DEF WakeInvariant, SoundCopies, SoundStored, SoundMemory, Attended, DecisionOK
<1>2. WakeInvariant' <=> /\ SoundStored' /\ SoundMemory' /\ VisibleEvents' /\ Recorded'
                         /\ LeadingCopies' /\ Attended' /\ DecisionOK'
  BY DEF WakeInvariant, SoundCopies, SoundStored, SoundMemory, Attended, DecisionOK
<1>. QED
  BY <1>1, <1>2

\* The decision of the memory at hand.
LEMMA DecisionNow ==
    ASSUME NEW o, op = o, DecisionOK PROVE o.pc # "idle" => Decided(o)
BY DEF DecisionOK

\* The decision of the next memory.
LEMMA DecisionNext ==
    ASSUME NEW o, op' = o, o.pc # "idle" => Decided(o)' PROVE DecisionOK'
<1>1. Leads(o.key, o.own)' => Leads(op.key, op.own)'
  BY SMTT(30) DEF Leads
<1>2. Withdrawing(o)' => Withdrawing(op)'
  BY SMTT(30) DEF Withdrawing, Leads
<1>3. Applying(o)' => Applying(op)'
  BY SMTT(30) DEF Applying, Wanted, Renders
<1>4. Managed(cache[o.key], o.own)' => Managed(cache[op.key], op.own)'
  BY SMTT(30) DEF Managed
<1>. QED
  BY <1>1, <1>2, <1>3, <1>4, SMTT(30) DEF DecisionOK, Decided

\* Writing sound copies.
LEMMA SoundStore ==
    ASSUME StoreOK, SoundStored, cache' = cache, NEW new, DOMAIN new \subseteq Bindings,
           \A b \in DOMAIN new : new[b] \in BindingStates /\ Sound(b, new[b]), Store(new)
    PROVE  SoundStored'
<1>1. /\ \A i \in DOMAIN stream : i \in DOMAIN stream' /\ stream'[i] = stream[i]
      /\ \A i \in DOMAIN stream' : i \notin DOMAIN stream =>
            stream'[i].key \in DOMAIN new /\ stream'[i].to = new[stream'[i].key]
  BY Appended
<1>2. \A i \in DOMAIN stream' : Sound(stream'[i].key, stream'[i].to)
  <2>. TAKE i \in DOMAIN stream'
  <2>1. CASE i \in DOMAIN stream
    BY <1>1, <2>1 DEF SoundStored
  <2>2. CASE i \notin DOMAIN stream
    <3>1. PICK b \in DOMAIN new : b = stream'[i].key /\ stream'[i].to = new[b]
      BY <1>1, <2>2
    <3>2. Sound(b, new[b])
      OBVIOUS
    <3>. QED
      BY <3>1, <3>2
  <2>. QED
    BY <2>1, <2>2
<1>3. \A b \in Bindings : Sound(b, live'[b]) /\ Sound(b, cache'[b])
  <2>. TAKE b \in Bindings
  <2>1. live'[b] = IF b \in DOMAIN new THEN new[b] ELSE live[b]
    BY StoreValue
  <2>2. Sound(b, live'[b])
    <3>1. CASE b \in DOMAIN new
      BY <2>1, <3>1
    <3>2. CASE b \notin DOMAIN new
      BY <2>1, <3>2 DEF SoundStored
    <3>. QED
      BY <3>1, <3>2
  <2>. QED
    BY <2>2 DEF SoundStored
<1>. QED
  BY <1>2, <1>3 DEF SoundStored

\* Events that are not delivered and bindings that are not written.
LEMMA EventsKept ==
    ASSUME UNCHANGED <<live, cache, stream>>
    PROVE  (SoundStored => SoundStored') /\ (VisibleEvents => VisibleEvents')
BY DEF SoundStored, VisibleEvents

\* What the cache calls for depends on the cache, the pools and their events.
LEMMA ViewKept ==
    ASSUME UNCHANGED <<cache, pools, poolEvents>>
    PROVE  /\ Restless' <=> Restless
           /\ \A b : Wanted(b)' <=> Wanted(b)
           /\ queue \subseteq queue' /\ Alarmed => Alarmed'
<1>1. Restless' <=> Restless
  BY DEF Restless
<1>2. \A b : Wanted(b)' <=> Wanted(b)
  BY DEF Wanted, Renders
<1>3. queue \subseteq queue' /\ Alarmed => Alarmed'
  BY DEF Alarmed
<1>. QED
  BY <1>1, <1>2, <1>3

\* Every output of b keeps its record, or its event is under way.
Tracked(b) ==
    \A n \in Names : n[1] = b /\ outs'[n].there =>
        n \in outEvents' \/ (outs[n].there /\ live'[b].rec = live[b].rec)

\* A copy of b still leads to the output.
LEMMA LeadsKept ==
    ASSUME NEW b, NEW c, Tracked(b), outEvents \subseteq outEvents', Leads(b, c)
    PROVE  Leads(b, c)'
BY DEF Tracked, Leads

\* So do all copies, those that are written included.
LEMMA LeadingStore ==
    ASSUME StoreOK, LeadingCopies, \A b \in Bindings : Tracked(b), outEvents \subseteq outEvents',
           cache' = cache, NEW new, DOMAIN new \subseteq Bindings,
           \A b \in DOMAIN new : new[b] \in BindingStates, Store(new)
    PROVE  LeadingCopies'
<1>1. /\ \A i \in DOMAIN stream : i \in DOMAIN stream' /\ stream'[i] = stream[i]
      /\ \A i \in DOMAIN stream' : i \notin DOMAIN stream =>
            stream'[i].key \in DOMAIN new /\ stream'[i].to = new[stream'[i].key]
  BY Appended
<1>2. ASSUME NEW b \in Bindings, NEW c, c = cache[b] PROVE Leads(b, c)'
  BY <1>2, LeadsKept DEF LeadingCopies
<1>3. ASSUME NEW i \in DOMAIN stream', NEW b, NEW c, b = stream'[i].key, c = stream'[i].to PROVE Leads(b, c)'
  <2>1. CASE i \in DOMAIN stream
    <3>1. stream[i].key = b /\ stream[i].to = c
      BY <1>1, <1>3, <2>1
    <3>2. b \in Bindings
      <4>1. stream[i] \in Events
        BY <2>1, SeqElements, SMTT(30) DEF StoreOK
      <4>. QED
        BY <3>1, <4>1, SMTT(30) DEF Events
    <3>3. Leads(b, c)
      BY <2>1, <3>1 DEF LeadingCopies
    <3>. QED
      BY <3>2, <3>3, LeadsKept
  <2>2. CASE i \notin DOMAIN stream
    <3>1. b \in DOMAIN new /\ c = new[b] /\ b \in Bindings
      BY <1>1, <1>3, <2>2
    <3>2. live'[b] = c
      BY <3>1, StoreValue
    <3>. QED
      BY <3>2 DEF Leads
  <2>. QED
    BY <2>1, <2>2
<1>4. \A b \in Bindings : Leads(b, cache[b])'
  BY <1>2 DEF Leads
<1>5. \A i \in DOMAIN stream' : Leads(stream[i].key, stream[i].to)'
  BY <1>3 DEF Leads
<1>. QED
  BY <1>4, <1>5 DEF LeadingCopies

\* So do all copies if none is written or delivered.
LEMMA LeadingKept ==
    ASSUME StoreOK, LeadingCopies, \A b \in Bindings : Tracked(b), outEvents \subseteq outEvents',
           UNCHANGED <<cache, stream>>
    PROVE  LeadingCopies'
<1>1. ASSUME NEW b \in Bindings, NEW c, c = cache[b] PROVE Leads(b, c)'
  BY <1>1, LeadsKept DEF LeadingCopies
<1>2. ASSUME NEW i \in DOMAIN stream, NEW b, NEW c, b = stream[i].key, c = stream[i].to PROVE Leads(b, c)'
  <2>1. b \in Bindings
    <3>1. stream[i] \in Events
      BY SeqElements, SMTT(30) DEF StoreOK
    <3>. QED
      BY <1>2, <3>1, SMTT(30) DEF Events
  <2>2. Leads(b, c)
    BY <1>2 DEF LeadingCopies
  <2>. QED
    BY <2>1, <2>2, LeadsKept
<1>3. \A b \in Bindings : Leads(b, cache[b])'
  BY <1>1 DEF Leads
<1>4. \A i \in DOMAIN stream' : Leads(stream[i].key, stream[i].to)'
  BY <1>2, SMTT(30) DEF Leads
<1>. QED
  BY <1>3, <1>4 DEF LeadingCopies

\* No output appears, and the ones that are left keep their records.
Fading ==
    \A n \in Names : outs'[n].there =>
        outs[n].there /\ outs'[n].uid = outs[n].uid /\ live'[n[1]].rec = live[n[1]].rec

\* Then records and copies lead to the outputs as before.
LEMMA FadingStep ==
    ASSUME Recorded, Fading PROVE Recorded' /\ \A b \in Bindings : Tracked(b)
<1>1. Recorded'
  BY DEF Recorded, Fading
<1>2. \A b \in Bindings : Tracked(b)
  BY DEF Fading, Tracked
<1>. QED
  BY <1>1, <1>2

\* A binding whose recorded output is not found has no output.
LEMMA NoOutput ==
    ASSUME RestOK, Recorded, NEW b \in Bindings, ~Found(live[b], outs), NEW n \in Names, n[1] = b
    PROVE  ~outs[n].there
<1>1. SUFFICES ASSUME outs[n].there PROVE FALSE
  OBVIOUS
<1>2. PICK u \in Nat : u = outs[n].uid
  BY DEF RestOK, OutputStates
<1>3. live[b].rec = [name |-> n, uid |-> u]
  BY <1>1, <1>2 DEF Recorded
<1>4. live[b].rec # NoRec /\ live[b].rec.name = n /\ live[b].rec.uid = u
  BY <1>3, RecordAssumption, SMTT(30)
<1>. QED
  BY <1>1, <1>2, <1>4 DEF Found

\* The output of a binding is its recorded one.
LEMMA HasOutput ==
    ASSUME RestOK, Recorded, NEW n \in Names, outs[n].there
    PROVE  /\ n[1] \in Bindings
           /\ live[n[1]].rec # NoRec /\ live[n[1]].rec.name = n /\ live[n[1]].rec.uid = outs[n].uid
<1>1. PICK u \in Nat : u = outs[n].uid
  BY DEF RestOK, OutputStates
<1>2. live[n[1]].rec = [name |-> n, uid |-> u]
  BY <1>1 DEF Recorded
<1>3. live[n[1]].rec # NoRec /\ live[n[1]].rec.name = n /\ live[n[1]].rec.uid = u
  BY <1>2, RecordAssumption, SMTT(30)
<1>. QED
  BY <1>1, <1>3, Owner

\* A decision stays right, or every binding is queued or will be.
LEMMA DecidedView ==
    ASSUME NEW o, Decided(o), queue \subseteq queue', o.key \in Bindings, DOMAIN o.copies \subseteq Bindings,
           \A c \in Bindings : \A x : Leads(c, x) => Leads(c, x)' \/ c \in queue',
           Managed(cache[o.key], o.own) \/ Alarmed => Managed(cache'[o.key], o.own) \/ Alarmed',
           Restless \/ Alarmed => Restless' \/ Alarmed',
           \/ Restless' \/ Alarmed'
           \/ /\ \A b \in Bindings : Wanted(b)' <=> Wanted(b)
              /\ pools'[o.own.spec.pool] = pools[o.own.spec.pool]
    PROVE  Decided(o)'
<1>1. Leads(o.key, o.own) \/ o.key \in queue => Leads(o.key, o.own)' \/ o.key \in queue'
  OBVIOUS
<1>2. \A c \in DOMAIN o.copies :
         Leads(c, o.copies[c]) \/ c \in queue => Leads(c, o.copies[c])' \/ c \in queue'
  OBVIOUS
<1>3. Applying(o) => Applying(o)'
  BY DEF Applying
<1>4. Withdrawing(o) => Withdrawing(o)'
  BY <1>2 DEF Withdrawing
<1>. QED
  BY <1>1, <1>3, <1>4 DEF Decided

\* So it does while the cache and the pools stay.
LEMMA DecidedKept ==
    ASSUME NEW o, Decided(o), UNCHANGED <<cache, pools, poolEvents>>, queue \subseteq queue',
           outEvents \subseteq outEvents', \A b \in Bindings : Tracked(b),
           o.key \in Bindings, DOMAIN o.copies \subseteq Bindings
    PROVE  Decided(o)'
<1>1. /\ Restless' <=> Restless
      /\ \A b \in Bindings : Wanted(b)' <=> Wanted(b)
      /\ Alarmed => Alarmed'
  BY ViewKept
<1>2. \A c \in Bindings : \A x : Leads(c, x) => Leads(c, x)'
  BY LeadsKept
<1>. QED
  BY <1>1, <1>2, DecidedView

\* A decision does not depend on which copies are current.
LEMMA DecidedSame ==
    ASSUME NEW o, NEW p, Decided(o), p.pc = o.pc, p.key = o.key, p.own = o.own, p.copies = o.copies,
           p.then = o.then, p.after = o.after, p.ver = o.ver
    PROVE  Decided(p)
<1>1. Withdrawing(o) => Withdrawing(p)
  BY DEF Withdrawing
<1>2. Applying(o) => Applying(p)
  BY DEF Applying
<1>3. /\ Leads(o.key, o.own) <=> Leads(p.key, p.own)
      /\ Managed(cache[o.key], o.own) <=> Managed(cache[p.key], p.own)
  OBVIOUS
<1>. QED
  BY <1>1, <1>2, <1>3 DEF Decided

\* Neither the record nor the outputs of b change.
SameOutputs(b) ==
    /\ live'[b].rec = live[b].rec
    /\ \A n \in Names : n[1] = b => outs'[n] = outs[n]

\* What a sound binding records is the name of an output of it.
LEMMA RecordNamed ==
    ASSUME StoreOK, SoundStored, NEW b \in Bindings, live[b].rec # NoRec
    PROVE  live[b].rec.name \in Names /\ live[b].rec.name[1] = b
<1>1. live[b] \in BindingStates /\ Sound(b, live[b])
  BY DEF StoreOK, SoundStored
<1>2. live[b].rec \in [name : Names, uid : Nat]
  BY <1>1 DEF BindingStates
<1>. QED
  BY <1>1, <1>2 DEF Sound

\* A binding that has what it should have keeps it while the cache calls for the same.
LEMMA RightView ==
    ASSUME StoreOK, NEW b \in Bindings, cache'[b].spec = cache[b].spec, Wanted(b)' <=> Wanted(b),
           Wanted(b) => pools'[cache[b].spec.pool] = pools[cache[b].spec.pool],
           \A n \in Names : n[1] = b => outs'[n] = outs[n], Right(b)
    PROVE  Right(b)'
<1>1. PICK n : n = Output(b, cache[b].spec)
  OBVIOUS
<1>2. n \in Names /\ n[1] = b
  <2>1. cache[b].spec \in Specs
    BY DEF StoreOK, BindingStates
  <2>. QED
    BY <1>1, <2>1, OutputNamed, Owner
<1>3. /\ \A m \in Names : m[1] = b /\ outs[m].there => Wanted(b) /\ m = n
      /\ Wanted(b) => outs[n].there /\ outs[n].ver = pools[cache[b].spec.pool]
  BY <1>1 DEF Right
<1>4. /\ \A m \in Names : m[1] = b /\ outs'[m].there => Wanted(b)' /\ m = n
      /\ Wanted(b)' => outs'[n].there /\ outs'[n].ver = pools'[cache'[b].spec.pool]
  BY <1>2, <1>3
<1>5. n = Output(b, cache'[b].spec)
  BY <1>1
<1>. QED
  BY <1>4, <1>5 DEF Right

\* A binding that a step leaves alone goes on settling.
LEMMA SettlingView ==
    ASSUME StoreOK, SoundStored, outEvents \subseteq outEvents', Restless => Restless',
           NEW b \in Bindings, cache'[b].spec = cache[b].spec, Wanted(b)' <=> Wanted(b),
           Wanted(b) => pools'[cache[b].spec.pool] = pools[cache[b].spec.pool],
           SameOutputs(b), b \in queue \cup timers => b \in queue' \cup timers',
           Pursued(b) => Pursued(b)' \/ b \in queue' \cup timers', Settling(b)
    PROVE  Settling(b)'
<1>1. Right(b) => Right(b)'
  BY RightView DEF SameOutputs
<1>2. ASSUME live[b].rec # NoRec, live[b].rec.name \in outEvents \/ outs[live[b].rec.name].dying
      PROVE  live'[b].rec # NoRec /\ (live'[b].rec.name \in outEvents' \/ outs'[live'[b].rec.name].dying)
  BY <1>2, RecordNamed DEF SameOutputs
<1>. QED
  BY <1>1, <1>2 DEF Settling

\* So it does while the cache and the pools stay.
LEMMA SettlingKept ==
    ASSUME StoreOK, SoundStored, UNCHANGED <<cache, pools, poolEvents>>, outEvents \subseteq outEvents',
           NEW b \in Bindings, SameOutputs(b), b \in queue \cup timers => b \in queue' \cup timers',
           Pursued(b) => Pursued(b)' \/ b \in queue' \cup timers', Settling(b)
    PROVE  Settling(b)'
BY ViewKept, SettlingView

\* A deletion goes on while its request, reconcile or event does.
LEMMA FinalizedKept ==
    ASSUME NEW b \in Bindings, Finalized(b), b \in queue \cup timers => b \in queue' \cup timers',
           \A i \in DOMAIN stream : i \in DOMAIN stream' /\ stream'[i] = stream[i],
           op.key = b /\ op.pc # "idle" /\ op.own.deleting => Finalized(b)'
    PROVE  Finalized(b)'
BY DEF Finalized

\* All bindings are attended to as before.
LEMMA AttendedKept ==
    ASSUME StoreOK, SoundStored, Attended, UNCHANGED <<cache, pools, poolEvents>>, outEvents \subseteq outEvents',
           \A b \in Bindings : SameOutputs(b),
           \A b \in Bindings : b \in queue \cup timers => b \in queue' \cup timers',
           \A b \in Bindings : Pursued(b) => Pursued(b)' \/ b \in queue' \cup timers',
           \A i \in DOMAIN stream : i \in DOMAIN stream' /\ stream'[i] = stream[i],
           \A b \in Bindings : op.key = b /\ op.pc # "idle" /\ op.own.deleting => Finalized(b)'
    PROVE  Attended'
<1>1. \A b \in Bindings : cache[b].there => Settling(b)'
  BY SettlingKept DEF Attended
<1>2. \A b \in Bindings : cache[b].deleting => Finalized(b)'
  BY FinalizedKept DEF Attended
<1>. QED
  BY <1>1, <1>2 DEF Attended

\* The copies of a reconcile under way are of bindings.
LEMMA MemoryKeys ==
    ASSUME MemoryOK, op.pc # "idle" PROVE op.key \in Bindings /\ DOMAIN op.copies \subseteq Bindings
<1>1. op \in Memories /\ op.key \in Bindings
  BY MemoryFields
<1>2. PICK S \in SUBSET Bindings : op.copies \in [S -> BindingStates]
  BY <1>1, CopiesMapped
<1>. QED
  BY <1>1, <1>2

\* The reconcile under way does not go on, and its decision stays.
LEMMA DecisionKept ==
    ASSUME MemoryOK, DecisionOK, UNCHANGED <<cache, pools, poolEvents>>, queue \subseteq queue',
           outEvents \subseteq outEvents', \A b \in Bindings : Tracked(b),
           op'.pc = op.pc, op'.key = op.key, op'.own = op.own, op'.copies = op.copies,
           op'.then = op.then, op'.after = op.after, op'.ver = op.ver
    PROVE  DecisionOK'
<1>1. PICK o, p : o = op /\ p = op'
  OBVIOUS
<1>2. ASSUME p.pc # "idle" PROVE Decided(p)'
  <2>1. o.pc # "idle" /\ Decided(o)
    BY <1>1, <1>2, DecisionNow
  <2>2. Decided(p)
    BY <1>1, <2>1, DecidedSame
  <2>3. p.key \in Bindings /\ DOMAIN p.copies \subseteq Bindings
    BY <1>1, <2>1, MemoryKeys
  <2>. QED
    BY <2>2, <2>3, DecidedKept
<1>. QED
  BY <1>1, <1>2, DecisionNext

-----------------------------------------------------------------------------
(* Wake-ups: events, users and restarts. *)

\* A user's write of a binding is visible, sound, and leaves the record alone.
LEMMA WakeUserStep ==
    ASSUME WatchInvariant, WakeInvariant, NEW b \in Bindings, NEW new \in BindingStates,
           Store([c \in {b} |-> new]), Outdate(b),
           UNCHANGED <<cache, pools, poolEvents, outs, outEvents, queue, timers>>,
           Visible(live[b], new), Sound(b, new), new.rec = live[b].rec
    PROVE  WakeInvariant'
<1>1. StoreOK /\ MemoryOK /\ RestOK
  BY Parts
<1>2. /\ SoundStored /\ SoundMemory /\ VisibleEvents /\ Recorded
      /\ LeadingCopies /\ Attended /\ DecisionOK
  BY WakeParts
<1>3. PICK f : f = [c \in {b} |-> new]
  OBVIOUS
<1>4. DOMAIN f = {b} /\ f[b] = new /\ Store(f)
  BY <1>3, SMTT(30)
<1>5. /\ DOMAIN f \subseteq Bindings
      /\ \A c \in DOMAIN f : f[c] \in BindingStates /\ Visible(live[c], f[c]) /\ Sound(c, f[c])
  BY <1>4
<1>6. SoundStored' /\ VisibleEvents'
  BY <1>1, <1>2, <1>4, <1>5, SoundStore, VisibleStore
<1>7. \A c \in Bindings : live'[c].rec = live[c].rec
  BY <1>4, StoreValue, SMTT(30)
<1>8. Fading
  BY <1>7, Owner DEF Fading
<1>9. Recorded' /\ \A c \in Bindings : Tracked(c)
  BY <1>2, <1>8, FadingStep
<1>10. LeadingCopies'
  BY <1>1, <1>2, <1>4, <1>5, <1>9, LeadingStore
<1>11. op \in Memories /\ op' = [op EXCEPT !.fresh = op.fresh \ {b}]
  BY <1>1 DEF MemoryOK, Outdate
<1>12. /\ op'.pc = op.pc /\ op'.key = op.key /\ op'.own = op.own /\ op'.copies = op.copies
       /\ op'.then = op.then /\ op'.after = op.after /\ op'.ver = op.ver
  BY <1>11 DEF Memories
<1>13. DecisionOK'
  BY <1>1, <1>2, <1>9, <1>12, DecisionKept
<1>14. SoundMemory'
  BY <1>2, <1>12 DEF SoundMemory
<1>15. \A i \in DOMAIN stream : i \in DOMAIN stream' /\ stream'[i] = stream[i]
  BY <1>1, <1>4, <1>5, Appended
<1>16. Attended'
  <2>1. \A c \in Bindings : SameOutputs(c)
    BY <1>7 DEF SameOutputs
  <2>2. \A c \in Bindings : Pursued(c) => Pursued(c)'
    BY <1>12 DEF Pursued
  <2>3. \A c \in Bindings : op.key = c /\ op.pc # "idle" /\ op.own.deleting => Finalized(c)'
    BY <1>12 DEF Finalized
  <2>. QED
    BY <1>1, <1>2, <1>15, <2>1, <2>2, <2>3, AttendedKept
<1>. QED
  BY <1>6, <1>9, <1>10, <1>13, <1>14, <1>16, WakeParts

\* Creating, editing and deleting bindings.
LEMMA WakeBindingStep ==
    ASSUME WatchInvariant, WakeInvariant, NEW b \in Bindings,
           DeleteBinding(b) \/ \E s \in Specs : CreateBinding(b, s) \/ EditBinding(b, s)
    PROVE  WakeInvariant'
<1>1. live[b] \in BindingStates /\ Sound(b, live[b])
  BY DEF WatchInvariant, TypeOK, WakeInvariant, SoundCopies
<1>2. PICK g \in Nat : g = live[b].gen + 1 /\ g # live[b].gen
  BY <1>1, SMTT(30) DEF BindingStates
<1>3. ASSUME DeleteBinding(b), live[b].fin PROVE WakeInvariant'
  <2>1. PICK new : new = [live[b] EXCEPT !.deleting = TRUE, !.gen = g]
    OBVIOUS
  <2>2. [live[b] EXCEPT !.deleting = TRUE, !.gen = @ + 1] = new
    BY <1>1, <1>2, <2>1, SMTT(30) DEF BindingStates
  <2>3. Store([c \in {b} |-> new])
    BY <1>3, <2>2, SMTT(30) DEF DeleteBinding
  <2>4. new \in BindingStates /\ new.gen = g /\ new.rec = live[b].rec
    BY <1>1, <2>1 DEF BindingStates
  <2>5. Visible(live[b], new)
    BY <1>2, <2>4 DEF Visible, Passes
  <2>6. Sound(b, new)
    BY <1>1, <1>3, <2>1, SoundWritten DEF DeleteBinding
  <2>. QED
    BY <1>3, <2>3, <2>4, <2>5, <2>6, WakeUserStep DEF DeleteBinding
<1>4. ASSUME DeleteBinding(b), ~live[b].fin PROVE WakeInvariant'
  <2>1. PICK new : new = AbsentBinding
    OBVIOUS
  <2>2. Store([c \in {b} |-> new])
    BY <1>4, <2>1, SMTT(30) DEF DeleteBinding
  <2>3. new \in BindingStates /\ ~new.there /\ new.rec = NoRec
    BY <2>1, AbsentTyped DEF AbsentBinding
  <2>4. live[b].there /\ live[b].rec = NoRec
    BY <1>1, <1>4 DEF DeleteBinding, Sound
  <2>5. Visible(live[b], new)
    BY <2>3, <2>4 DEF Visible, Passes
  <2>6. Sound(b, new)
    BY <2>1, WatchAssumption, SoundNew
  <2>. QED
    BY <1>4, <2>2, <2>3, <2>4, <2>5, <2>6, WakeUserStep DEF DeleteBinding
<1>5. ASSUME NEW s \in Specs, CreateBinding(b, s) PROVE WakeInvariant'
  <2>1. PICK new : new = NewBinding(s)
    OBVIOUS
  <2>2. new \in BindingStates /\ new.there /\ new.rec = NoRec
    <3>1. AbsentBinding.rec = NoRec
      BY DEF AbsentBinding
    <3>2. new.there /\ new.rec = AbsentBinding.rec
      BY <2>1, AbsentTyped DEF NewBinding, BindingStates
    <3>. QED
      BY <2>1, <3>1, <3>2, NewTyped
  <2>3. ~live[b].there /\ live[b].rec = NoRec
    BY <1>1, <1>5 DEF CreateBinding, Sound
  <2>4. Visible(live[b], new)
    BY <2>2, <2>3 DEF Visible, Passes
  <2>5. Sound(b, new)
    BY <2>1, SoundNew
  <2>. QED
    BY <1>5, <2>1, <2>2, <2>3, <2>4, <2>5, WakeUserStep DEF CreateBinding
<1>6. ASSUME NEW s \in Specs, EditBinding(b, s) PROVE WakeInvariant'
  <2>1. PICK new : new = [live[b] EXCEPT !.spec = s, !.gen = g]
    OBVIOUS
  <2>2. [live[b] EXCEPT !.spec = s, !.gen = @ + 1] = new
    BY <1>1, <1>2, <2>1, SMTT(30) DEF BindingStates
  <2>3. Store([c \in {b} |-> new])
    BY <1>6, <2>2, SMTT(30) DEF EditBinding
  <2>4. new \in BindingStates /\ new.gen = g /\ new.rec = live[b].rec
    BY <1>1, <2>1 DEF BindingStates
  <2>5. Visible(live[b], new)
    BY <1>2, <2>4 DEF Visible, Passes
  <2>6. Sound(b, new)
    BY <1>1, <2>1, SoundWritten
  <2>. QED
    BY <1>6, <2>3, <2>4, <2>5, <2>6, WakeUserStep DEF EditBinding
<1>. QED
  BY <1>3, <1>4, <1>5, <1>6

\* Someone touches an output, or it is released: its event wakes the binding that records it.
LEMMA WakeOutputStep ==
    ASSUME WatchInvariant, WakeInvariant, NEW n \in Names, NEW o \in OutputStates,
           SetOuts([outs EXCEPT ![n] = o]), o # outs[n],
           o.there => outs[n].there /\ o.uid = outs[n].uid, outs[n].there \/ outs[n].dying,
           UNCHANGED <<live, cache, stream, pools, poolEvents, queue, timers, op>>
    PROVE  WakeInvariant'
<1>1. StoreOK /\ MemoryOK /\ RestOK
  BY Parts
<1>2. /\ SoundStored /\ SoundMemory /\ VisibleEvents /\ Recorded
      /\ LeadingCopies /\ Attended /\ DecisionOK
  BY WakeParts
<1>3. outs' = [outs EXCEPT ![n] = o] /\ outs \in [Names -> OutputStates]
  BY <1>1 DEF SetOuts, RestOK
<1>4. outs'[n] = o /\ \A m \in Names : m # n => outs'[m] = outs[m]
  BY <1>3
<1>5. outEvents \subseteq outEvents' /\ n \in outEvents'
  <2>1. outEvents' = outEvents \cup {m \in Names : outs'[m] # outs[m]}
    BY DEF SetOuts
  <2>. QED
    BY <1>4, <2>1
<1>6. Fading
  BY <1>4, SMTT(30) DEF Fading
<1>7. Recorded' /\ \A b \in Bindings : Tracked(b)
  BY <1>2, <1>6, FadingStep
<1>8. LeadingCopies'
  BY <1>1, <1>2, <1>5, <1>7, LeadingKept
<1>9. SoundStored' /\ VisibleEvents'
  BY <1>2, EventsKept
<1>10. SoundMemory'
  BY <1>2 DEF SoundMemory
<1>11. DecisionOK'
  BY <1>1, <1>2, <1>5, <1>7, DecisionKept
<1>12. ASSUME NEW b \in Bindings, Settling(b) PROVE Settling(b)'
  <2>1. CASE b = n[1] /\ (outs[n].there \/ (live[b].rec.name = n /\ live[b].rec # NoRec))
    <3>1. live[b].rec # NoRec /\ live[b].rec.name = n
      BY <1>1, <1>2, <2>1, HasOutput
    <3>. QED
      BY <1>5, <3>1 DEF Settling
  <2>2. CASE b # n[1]
    <3>1. SameOutputs(b)
      BY <1>4, <2>2 DEF SameOutputs
    <3>2. Pursued(b) => Pursued(b)'
      BY DEF Pursued
    <3>. QED
      BY <1>1, <1>2, <1>5, <1>12, <3>1, <3>2, SettlingKept
  <2>3. CASE b = n[1] /\ ~outs[n].there /\ ~(live[b].rec.name = n /\ live[b].rec # NoRec)
    <3>1. Restless' <=> Restless
      BY ViewKept
    <3>2. Pursued(b) => Pursued(b)'
      BY DEF Pursued
    <3>3. ~o.there /\ ~outs[n].there
      BY <2>3
    <3>4. Right(b) => Right(b)'
      <4>1. Wanted(b)' <=> Wanted(b)
        BY ViewKept
      <4>2. Output(b, cache[b].spec) \in Names
        <5>1. cache[b].spec \in Specs
          BY <1>1 DEF StoreOK, BindingStates
        <5>. QED
          BY <5>1, OutputNamed
      <4>3. PICK x : x = Output(b, cache[b].spec)
        OBVIOUS
      <4>4. ASSUME /\ \A m \in Names : m[1] = b /\ outs[m].there => Wanted(b) /\ m = x
                   /\ Wanted(b) => outs[x].there /\ outs[x].ver = pools[cache[b].spec.pool]
            PROVE  /\ \A m \in Names : m[1] = b /\ outs'[m].there => Wanted(b)' /\ m = x
                   /\ Wanted(b)' => outs'[x].there /\ outs'[x].ver = pools[cache[b].spec.pool]
        BY <1>4, <3>3, <4>1, <4>2, <4>3, <4>4, SMTT(30)
      <4>. QED
        BY <4>3, <4>4 DEF Right
    <3>5. ASSUME live[b].rec # NoRec, live[b].rec.name \in outEvents \/ outs[live[b].rec.name].dying
          PROVE  live[b].rec.name \in outEvents' \/ outs'[live[b].rec.name].dying
      <4>1. live[b].rec.name \in Names
        BY <1>1, <1>2, <3>5, RecordNamed
      <4>. QED
        BY <1>4, <1>5, <2>3, <3>5, <4>1
    <3>. QED
      BY <1>12, <3>1, <3>2, <3>4, <3>5 DEF Settling
  <2>. QED
    BY <2>1, <2>2, <2>3
<1>13. ASSUME NEW b \in Bindings, Finalized(b) PROVE Finalized(b)'
  BY <1>13 DEF Finalized
<1>14. Attended'
  BY <1>2, <1>12, <1>13 DEF Attended
<1>. QED
  BY <1>7, <1>8, <1>9, <1>10, <1>11, <1>14, WakeParts

\* Others delete and edit outputs, and a finalizer that holds one is removed.
LEMMA WakeTouchStep ==
    ASSUME WatchInvariant, WakeInvariant, NEW n \in Names, TouchOutput(n) \/ Release(n)
    PROVE  WakeInvariant'
<1>1. outs[n] \in OutputStates /\ outs \in [Names -> OutputStates]
  BY Parts DEF RestOK
<1>2. PICK gone : gone = AbsentOutput(outs[n].uid)
  OBVIOUS
<1>3. PICK edited : edited = [outs[n] EXCEPT !.ver = 0]
  OBVIOUS
<1>4. gone \in OutputStates /\ ~gone.there /\ ~gone.dying
  BY <1>1, <1>2, SMTT(30) DEF AbsentOutput, OutputStates
<1>5. edited \in OutputStates /\ edited.there = outs[n].there /\ edited.uid = outs[n].uid /\ edited.ver = 0
  BY <1>1, <1>3, SMTT(30) DEF OutputStates
<1>6. /\ UNCHANGED <<live, cache, stream, pools, poolEvents, queue, timers, op>>
      /\ outs[n].there \/ outs[n].dying
      /\ \/ SetOuts([outs EXCEPT ![n] = AbsentOutput(@.uid)])
         \/ outs[n].ver # 0 /\ SetOuts([outs EXCEPT ![n].ver = 0])
  BY DEF TouchOutput, Release
<1>7. CASE SetOuts([outs EXCEPT ![n] = AbsentOutput(@.uid)])
  <2>1. [outs EXCEPT ![n] = AbsentOutput(@.uid)] = [outs EXCEPT ![n] = gone]
    BY <1>1, <1>2, SMTT(30)
  <2>2. gone # outs[n]
    BY <1>4, <1>6
  <2>. QED
    BY <1>4, <1>6, <1>7, <2>1, <2>2, WakeOutputStep
<1>8. CASE outs[n].ver # 0 /\ SetOuts([outs EXCEPT ![n].ver = 0])
  <2>1. [outs EXCEPT ![n].ver = 0] = [outs EXCEPT ![n] = edited]
    BY <1>1, <1>3, SMTT(30)
  <2>2. edited # outs[n]
    BY <1>5, <1>8
  <2>. QED
    BY <1>5, <1>6, <1>8, <2>1, <2>2, WakeOutputStep
<1>. QED
  BY <1>6, <1>7, <1>8

\* A restart wakes all bindings.
LEMMA WakeRestartStep == ASSUME WatchInvariant, WakeInvariant, Restart PROVE WakeInvariant'
<1>1. /\ SoundStored /\ Recorded
  BY WakeParts
<1>2. /\ cache' = live /\ live' = live /\ stream' = <<>> /\ outs' = outs
      /\ op' = Idle /\ queue' = {b \in Bindings : live[b].there}
  BY DEF Restart, PeerRequests
<1>3. DOMAIN stream' = {}
  BY <1>2, SMTT(30)
<1>4. op'.pc = "idle"
  BY <1>2 DEF Idle
<1>5. SoundStored' /\ SoundMemory' /\ VisibleEvents' /\ DecisionOK'
  BY <1>1, <1>2, <1>3, <1>4 DEF SoundStored, SoundMemory, VisibleEvents, DecisionOK
<1>6. Recorded'
  BY <1>1, <1>2 DEF Recorded
<1>7. LeadingCopies'
  BY <1>2, <1>3 DEF LeadingCopies, Leads
<1>8. \A b \in Bindings : live[b].deleting => live[b].there
  BY <1>1 DEF SoundStored, Sound
<1>9. Attended'
  BY <1>2, <1>8 DEF Attended, Settling, Finalized
<1>. QED
  BY <1>5, <1>6, <1>7, <1>9, WakeParts

\* A decision under way, while the reconcile does not go on.
LEMMA DecisionView ==
    ASSUME MemoryOK, DecisionOK, op' = op, queue \subseteq queue',
           \A c \in Bindings : \A x : Leads(c, x) => Leads(c, x)' \/ c \in queue',
           Restless \/ Alarmed => Restless' \/ Alarmed',
           op.pc # "idle" /\ Decided(op) =>
              /\ Managed(cache[op.key], op.own) \/ Alarmed => Managed(cache'[op.key], op.own) \/ Alarmed'
              /\ \/ Restless' \/ Alarmed'
                 \/ /\ \A b \in Bindings : Wanted(b)' <=> Wanted(b)
                    /\ pools'[op.own.spec.pool] = pools[op.own.spec.pool]
    PROVE  DecisionOK'
<1>1. PICK o : o = op
  OBVIOUS
<1>2. ASSUME o.pc # "idle" PROVE Decided(o)'
  <2>1. Decided(o) /\ Decided(op)
    BY <1>1, <1>2, DecisionNow DEF DecisionOK
  <2>2. o.key \in Bindings /\ DOMAIN o.copies \subseteq Bindings
    BY <1>1, <1>2, MemoryKeys
  <2>3. /\ Managed(cache[o.key], o.own) \/ Alarmed => Managed(cache'[o.key], o.own) \/ Alarmed'
        /\ \/ Restless' \/ Alarmed'
           \/ /\ \A b \in Bindings : Wanted(b)' <=> Wanted(b)
              /\ pools'[o.own.spec.pool] = pools[o.own.spec.pool]
    BY <1>1, <1>2, <2>1
  <2>. QED
    BY <2>1, <2>2, <2>3, DecidedView
<1>. QED
  BY <1>1, <1>2, DecisionNext

\* A timer makes a request.
LEMMA WakeExpireStep ==
    ASSUME WatchInvariant, WakeInvariant, NEW b \in Bindings, Expire(b) PROVE WakeInvariant'
<1>1. StoreOK /\ MemoryOK /\ RestOK
  BY Parts
<1>2. /\ SoundStored /\ SoundMemory /\ VisibleEvents /\ Recorded
      /\ LeadingCopies /\ Attended /\ DecisionOK
  BY WakeParts
<1>3. /\ UNCHANGED <<live, cache, stream, pools, poolEvents, outs, outEvents, op>>
      /\ queue' = queue \cup {b} /\ timers' = timers \ {b}
  BY DEF Expire
<1>4. SoundStored' /\ VisibleEvents' /\ SoundMemory' /\ Recorded'
  BY <1>2, <1>3, EventsKept DEF SoundMemory, Recorded
<1>5. \A c \in Bindings : Tracked(c) /\ SameOutputs(c)
  BY <1>3 DEF Tracked, SameOutputs
<1>6. LeadingCopies' /\ DecisionOK'
  BY <1>1, <1>2, <1>3, <1>5, LeadingKept, DecisionKept
<1>7. /\ \A c \in Bindings : Pursued(c) => Pursued(c)'
      /\ \A c \in Bindings : op.key = c /\ op.pc # "idle" /\ op.own.deleting => Finalized(c)'
  BY <1>3 DEF Pursued, Finalized
<1>8. Attended'
  BY <1>1, <1>2, <1>3, <1>5, <1>7, AttendedKept
<1>. QED
  BY <1>4, <1>6, <1>8, WakeParts

\* The event of a pool wakes every binding, or the pool is of no binding in the cache.
LEMMA WakePoolStep ==
    ASSUME WatchInvariant, WakeInvariant, NEW p \in Pools, DeliverPool(p) PROVE WakeInvariant'
<1>1. StoreOK /\ MemoryOK /\ RestOK
  BY Parts
<1>2. /\ SoundStored /\ SoundMemory /\ VisibleEvents /\ Recorded
      /\ LeadingCopies /\ Attended /\ DecisionOK
  BY WakeParts
<1>3. /\ UNCHANGED <<live, cache, stream, pools, outs, outEvents, timers, op>>
      /\ poolEvents' = poolEvents \ {p} /\ queue' = queue \cup PoolRequests(p)
  BY DEF DeliverPool
<1>4. SoundStored' /\ VisibleEvents' /\ SoundMemory' /\ Recorded'
  BY <1>2, <1>3, EventsKept DEF SoundMemory, Recorded
<1>5. \A c \in Bindings : Tracked(c) /\ SameOutputs(c)
  BY <1>3 DEF Tracked, SameOutputs
<1>6. LeadingCopies'
  BY <1>1, <1>2, <1>3, <1>5, LeadingKept
<1>7. \A c \in Bindings : \A x : Leads(c, x) => Leads(c, x)'
  BY <1>3, <1>5, LeadsKept
<1>8. \A c \in Bindings : Finalized(c) => Finalized(c)'
  BY <1>3 DEF Finalized
<1>9. CASE \E b \in Bindings : References(b, p)
  <2>1. \A b \in Bindings : cache'[b].there => b \in queue'
    BY <1>3, <1>9, SMTT(30) DEF PoolRequests, PeerRequests
  <2>2. Alarmed'
    BY <2>1 DEF Alarmed
  <2>3. DecisionOK'
    BY <1>1, <1>2, <1>3, <1>7, <2>2, DecisionView
  <2>4. Attended'
    BY <1>2, <1>3, <1>8, <2>1 DEF Attended, Settling
  <2>. QED
    BY <1>4, <1>6, <2>3, <2>4, WakeParts
<1>10. CASE ~\E b \in Bindings : References(b, p)
  <2>1. \A b \in Bindings : cache[b].there => cache[b].spec.pool # p
    BY <1>10 DEF References
  <2>2. Restless => Restless'
    BY <1>3, <2>1 DEF Restless
  <2>3. (Alarmed => Alarmed') /\ \A b : Wanted(b)' <=> Wanted(b)
    BY <1>3 DEF Alarmed, Wanted, Renders
  <2>4. DecisionOK'
    BY <1>1, <1>2, <1>3, <1>7, <2>2, <2>3, DecisionView
  <2>5. \A b \in Bindings : Pursued(b) => Pursued(b)'
    BY <1>3 DEF Pursued
  <2>6. \A b \in Bindings : Settling(b) => Settling(b)'
    BY <1>1, <1>2, <1>3, <1>5, <2>2, <2>3, <2>5, SettlingView
  <2>7. Attended'
    BY <1>2, <1>3, <1>8, <2>6 DEF Attended
  <2>. QED
    BY <1>4, <1>6, <2>4, <2>7, WakeParts
<1>. QED
  BY <1>9, <1>10

\* A change of a pool leaves an event that will wake every binding, or the pool is of no
\* binding in the cache.
LEMMA WakeChangePoolStep ==
    ASSUME WatchInvariant, WakeInvariant, NEW p \in Pools, NEW v, ChangePool(p, v) PROVE WakeInvariant'
<1>1. StoreOK /\ MemoryOK /\ RestOK
  BY Parts
<1>2. /\ SoundStored /\ SoundMemory /\ VisibleEvents /\ Recorded
      /\ LeadingCopies /\ Attended /\ DecisionOK
  BY WakeParts
<1>3. /\ UNCHANGED <<live, cache, stream, outs, outEvents, queue, timers, op>>
      /\ poolEvents' = poolEvents \cup {p} /\ pools' = [pools EXCEPT ![p] = v]
  BY DEF ChangePool
<1>4. \A q \in Pools : q # p => pools'[q] = pools[q]
  BY <1>1, <1>3 DEF RestOK
<1>5. SoundStored' /\ VisibleEvents' /\ SoundMemory' /\ Recorded'
  BY <1>2, <1>3, EventsKept DEF SoundMemory, Recorded
<1>6. \A c \in Bindings : Tracked(c) /\ SameOutputs(c)
  BY <1>3 DEF Tracked, SameOutputs
<1>7. LeadingCopies'
  BY <1>1, <1>2, <1>3, <1>6, LeadingKept
<1>8. \A c \in Bindings : \A x : Leads(c, x) => Leads(c, x)'
  BY <1>3, <1>6, LeadsKept
<1>9. \A c \in Bindings : Finalized(c) => Finalized(c)'
  BY <1>3 DEF Finalized
<1>10. (Restless => Restless') /\ (Alarmed => Alarmed')
  BY <1>3 DEF Restless, Alarmed
<1>11. CASE \E b \in Bindings : cache[b].there /\ cache[b].spec.pool = p
  <2>1. Restless'
    BY <1>3, <1>11 DEF Restless
  <2>2. DecisionOK'
    BY <1>1, <1>2, <1>3, <1>8, <1>10, <2>1, DecisionView
  <2>3. Attended'
    BY <1>2, <1>3, <1>9, <2>1 DEF Attended, Settling
  <2>. QED
    BY <1>5, <1>7, <2>2, <2>3, WakeParts
<1>12. CASE ~\E b \in Bindings : cache[b].there /\ cache[b].spec.pool = p
  <2>1. \A b \in Bindings : cache[b].there => pools'[cache[b].spec.pool] = pools[cache[b].spec.pool]
    <3>. TAKE b \in Bindings
    <3>1. cache[b].spec.pool \in Pools
      BY <1>1, WatchAssumption, SMTT(30) DEF StoreOK, BindingStates
    <3>. QED
      BY <1>4, <1>12, <3>1
  <2>2. \A b \in Bindings : Wanted(b)' <=> Wanted(b)
    BY <1>3, <2>1, SMTT(30) DEF Wanted, Renders
  <2>3. \A b \in Bindings : Wanted(b) => cache[b].there
    BY DEF Wanted
  <2>4. ASSUME op.pc # "idle", Decided(op)
        PROVE  Alarmed' \/ pools'[op.own.spec.pool] = pools[op.own.spec.pool]
    <3>1. op.key \in Bindings
      BY <1>1, <2>4, MemoryKeys
    <3>2. op.own.there /\ (Managed(cache[op.key], op.own) \/ Alarmed)
      BY <2>4 DEF Decided
    <3>3. Managed(cache[op.key], op.own) => cache[op.key].there /\ cache[op.key].spec = op.own.spec
      BY <3>2 DEF Managed
    <3>4. CASE Managed(cache[op.key], op.own)
      <4>1. pools'[cache[op.key].spec.pool] = pools[cache[op.key].spec.pool]
        BY <2>1, <3>1, <3>3, <3>4
      <4>2. cache[op.key].spec.pool = op.own.spec.pool
        BY <3>3, <3>4
      <4>. QED
        BY <4>1, <4>2
    <3>. QED
      BY <1>10, <3>2, <3>4
  <2>5. DecisionOK'
    BY <1>1, <1>2, <1>3, <1>8, <1>10, <2>2, <2>4, DecisionView
  <2>6. \A b \in Bindings : Pursued(b) => Pursued(b)'
    BY <1>3 DEF Pursued
  <2>7. \A b \in Bindings : Settling(b) => Settling(b)'
    BY <1>1, <1>2, <1>3, <1>6, <1>10, <2>1, <2>2, <2>3, <2>6, SettlingView
  <2>8. Attended'
    BY <1>2, <1>3, <1>9, <2>7 DEF Attended
  <2>. QED
    BY <1>5, <1>7, <2>5, <2>8, WakeParts
<1>. QED
  BY <1>11, <1>12

\* The event of an output wakes the binding that records it, since the cache shows all
\* records by then.
LEMMA WakeDeliverOutputStep ==
    ASSUME ~Overtaking, WatchInvariant, WakeInvariant, NEW n \in Names, DeliverOutput(n)
    PROVE  WakeInvariant'
<1>1. StoreOK /\ MemoryOK /\ RestOK
  BY Parts
<1>2. /\ SoundStored /\ SoundMemory /\ VisibleEvents /\ Recorded
      /\ LeadingCopies /\ Attended /\ DecisionOK
  BY WakeParts
<1>3. /\ UNCHANGED <<live, cache, stream, pools, poolEvents, outs, timers, op>> /\ CacheFresh(n[1])
      /\ outEvents' = outEvents \ {n} /\ queue' = queue \cup OutputRequests(n)
  BY DEF DeliverOutput
<1>4. /\ n[1] \in Bindings /\ cache[n[1]] = live[n[1]]
      /\ \A i \in DOMAIN stream : stream[i].key # n[1]
  BY <1>1, <1>3, Owner, CachedIsStored DEF CacheFresh
<1>5. SoundStored' /\ VisibleEvents' /\ SoundMemory' /\ Recorded'
  BY <1>2, <1>3, EventsKept DEF SoundMemory, Recorded
<1>6. \A b \in Bindings : live[b].rec # NoRec /\ live[b].rec.name = n => b \in queue'
  <2>1. ASSUME NEW b \in Bindings, live[b].rec # NoRec, live[b].rec.name = n PROVE b = n[1]
    BY <1>2, <2>1 DEF SoundStored, Sound
  <2>. QED
    BY <1>3, <1>4, <2>1 DEF OutputRequests, Records
<1>7. LeadingCopies'
  <2>1. ASSUME NEW b, NEW c, b # n[1], Leads(b, c) PROVE Leads(b, c)'
    BY <1>3, <2>1 DEF Leads
  <2>2. Leads(n[1], cache[n[1]])'
    BY <1>3, <1>4 DEF Leads
  <2>3. \A b \in Bindings : Leads(b, cache[b])'
    BY <1>2, <1>3, <2>1, <2>2 DEF LeadingCopies, Leads
  <2>4. \A i \in DOMAIN stream : Leads(stream[i].key, stream[i].to)'
    BY <1>2, <1>3, <1>4, <2>1 DEF LeadingCopies, Leads
  <2>. QED
    BY <1>3, <2>3, <2>4 DEF LeadingCopies
<1>8. ASSUME NEW c \in Bindings, NEW x, Leads(c, x), c \notin queue' PROVE Leads(c, x)'
  <2>1. \A m \in Names : m[1] = c /\ outs[m].there => m # n
    BY <1>1, <1>2, <1>6, <1>8, HasOutput
  <2>. QED
    BY <1>3, <1>8, <2>1 DEF Leads
<1>9. (Restless' <=> Restless) /\ (Alarmed => Alarmed') /\ \A b \in Bindings : Wanted(b)' <=> Wanted(b)
  BY <1>3, ViewKept
<1>10. \A c \in Bindings : \A x : Leads(c, x) => Leads(c, x)' \/ c \in queue'
  BY <1>8
<1>11. DecisionOK'
  BY <1>1, <1>2, <1>3, <1>9, <1>10, DecisionView
<1>12. ASSUME NEW b \in Bindings, Settling(b) PROVE Settling(b)'
  <2>1. Right(b) => Right(b)'
    BY <1>1, <1>3, <1>9, RightView
  <2>2. Pursued(b) => Pursued(b)'
    BY <1>3 DEF Pursued
  <2>3. live[b].rec # NoRec /\ live[b].rec.name \in outEvents =>
           b \in queue' \/ (live'[b].rec # NoRec /\ live'[b].rec.name \in outEvents')
    BY <1>3, <1>6
  <2>. QED
    BY <1>3, <1>9, <1>12, <2>1, <2>2, <2>3 DEF Settling
<1>13. \A b \in Bindings : Finalized(b) => Finalized(b)'
  BY <1>3 DEF Finalized
<1>14. Attended'
  BY <1>2, <1>3, <1>12, <1>13 DEF Attended
<1>. QED
  BY <1>5, <1>7, <1>11, <1>14, WakeParts

\* The event that is delivered is the first one, and the others stay.
LEMMA Delivered ==
    ASSUME StoreOK, DeliverBinding
    PROVE  /\ 1 \in DOMAIN stream /\ stream[1] \in Events
           /\ \A i \in DOMAIN stream : ~(i < 1)
           /\ \A i \in DOMAIN stream' : \E j \in DOMAIN stream : stream'[i] = stream[j]
           /\ \A j \in DOMAIN stream : j = 1 \/ \E i \in DOMAIN stream' : stream'[i] = stream[j]
           /\ cache' = [cache EXCEPT ![stream[1].key] = stream[1].to]
           /\ queue' = IF Passes(cache[stream[1].key], stream[1].to)
                       THEN queue \cup {stream[1].key} \cup PeerRequests(cache') ELSE queue
<1>1. stream \in Seq(Events) /\ stream # <<>> /\ stream' = Tail(stream)
  BY DEF StoreOK, DeliverBinding
<1>2. PICK e : e = Head(stream)
  OBVIOUS
<1>3. /\ cache' = [cache EXCEPT ![e.key] = e.to]
      /\ queue' = IF Passes(cache[e.key], e.to) THEN queue \cup {e.key} \cup PeerRequests(cache') ELSE queue
  BY <1>2 DEF DeliverBinding
<1>4. /\ Len(stream) \in Nat /\ Len(stream) > 0 /\ DOMAIN stream = 1 .. Len(stream)
      /\ e = stream[1] /\ e \in Events
      /\ DOMAIN stream' = 1 .. (Len(stream) - 1)
      /\ \A i \in 1 .. (Len(stream) - 1) : stream'[i] = stream[i + 1]
  BY <1>1, <1>2, SeqTail, SeqElements, SMTT(30)
<1>5. 1 \in DOMAIN stream /\ \A i \in DOMAIN stream : ~(i < 1)
  BY <1>4, SMTT(30)
<1>6. \A i \in DOMAIN stream' : i + 1 \in DOMAIN stream /\ stream'[i] = stream[i + 1]
  BY <1>4, SMTT(30)
<1>7. \A j \in DOMAIN stream : j = 1 \/ (j - 1 \in DOMAIN stream' /\ stream'[j - 1] = stream[j])
  BY <1>4, SMTT(30)
<1>8. \A i \in DOMAIN stream' : \E j \in DOMAIN stream : stream'[i] = stream[j]
  BY <1>6
<1>9. \A j \in DOMAIN stream : j = 1 \/ \E i \in DOMAIN stream' : stream'[i] = stream[j]
  BY <1>7
<1>. QED
  BY <1>3, <1>4, <1>5, <1>8, <1>9

\* An event of a binding wakes all bindings, or shows nothing that bears on a decision.
LEMMA WakeDeliverBindingStep ==
    ASSUME WatchInvariant, WakeInvariant, DeliverBinding PROVE WakeInvariant'
<1>1. StoreOK /\ MemoryOK /\ RestOK
  BY Parts
<1>2. /\ SoundStored /\ SoundMemory /\ VisibleEvents /\ Recorded
      /\ LeadingCopies /\ Attended /\ DecisionOK
  BY WakeParts
<1>3. UNCHANGED <<live, pools, poolEvents, outs, outEvents, timers, op>>
  BY DEF DeliverBinding
<1>4. PICK e : e = stream[1]
  OBVIOUS
<1>5. /\ 1 \in DOMAIN stream /\ e \in Events
      /\ \A i \in DOMAIN stream : ~(i < 1)
      /\ \A i \in DOMAIN stream' : \E j \in DOMAIN stream : stream'[i] = stream[j]
      /\ \A j \in DOMAIN stream : j = 1 \/ \E i \in DOMAIN stream' : stream'[i] = stream[j]
      /\ cache' = [cache EXCEPT ![e.key] = e.to]
      /\ queue' = IF Passes(cache[e.key], e.to) THEN queue \cup {e.key} \cup PeerRequests(cache') ELSE queue
  BY <1>1, <1>4, Delivered
<1>6. PICK k \in Bindings, new \in BindingStates : k = e.key /\ new = e.to
  BY <1>5 DEF Events
<1>7. cache'[k] = new /\ \A b \in Bindings : b # k => cache'[b] = cache[b]
  BY <1>1, <1>5, <1>6 DEF StoreOK
<1>8. Sound(k, new) /\ Leads(k, new)
  BY <1>2, <1>4, <1>5, <1>6 DEF SoundStored, LeadingCopies
<1>9. SoundStored'
  <2>1. \A b \in Bindings : Sound(b, live'[b]) /\ Sound(b, cache'[b])
    BY <1>2, <1>3, <1>7, <1>8 DEF SoundStored
  <2>2. \A i \in DOMAIN stream' : Sound(stream'[i].key, stream'[i].to)
    BY <1>2, <1>5 DEF SoundStored
  <2>. QED
    BY <2>1, <2>2 DEF SoundStored
<1>10. VisibleEvents' /\ SoundMemory' /\ Recorded'
  BY <1>1, <1>2, <1>3, VisibleDelivery DEF SoundMemory, Recorded
<1>11. \A b, c : Leads(b, c)' <=> Leads(b, c)
  BY <1>3 DEF Leads
<1>12. LeadingCopies'
  <2>1. ASSUME NEW b \in Bindings, NEW c, c = cache'[b] PROVE Leads(b, c)'
    BY <1>2, <1>7, <1>8, <1>11, <2>1 DEF LeadingCopies
  <2>2. ASSUME NEW i \in DOMAIN stream', NEW b, NEW c, b = stream'[i].key, c = stream'[i].to PROVE Leads(b, c)'
    <3>1. PICK j \in DOMAIN stream : stream'[i] = stream[j]
      BY <1>5
    <3>2. Leads(b, c)
      BY <1>2, <2>2, <3>1 DEF LeadingCopies
    <3>. QED
      BY <1>11, <3>2
  <2>3. \A b \in Bindings : Leads(b, cache[b])'
    BY <2>1, SMTT(30) DEF Leads
  <2>4. \A i \in DOMAIN stream' : Leads(stream[i].key, stream[i].to)'
    BY <2>2, SMTT(30) DEF Leads
  <2>. QED
    BY <2>3, <2>4 DEF LeadingCopies
<1>13. \A c \in Bindings : \A x : Leads(c, x) => Leads(c, x)'
  BY <1>11
<1>14. CASE Passes(cache[k], new)
  <2>1. queue' = queue \cup {k} \cup PeerRequests(cache')
    BY <1>5, <1>6, <1>14
  <2>2. \A b \in Bindings : cache'[b].there => b \in queue'
    BY <2>1 DEF PeerRequests
  <2>3. Alarmed' /\ queue \subseteq queue'
    BY <2>1, <2>2 DEF Alarmed
  <2>4. DecisionOK'
    BY <1>1, <1>2, <1>3, <1>13, <2>3, DecisionView
  <2>5. \A b \in Bindings : cache'[b].deleting => cache'[b].there
    BY <1>9 DEF SoundStored, Sound
  <2>6. Attended'
    BY <2>2, <2>5 DEF Attended, Settling, Finalized
  <2>. QED
    BY <1>9, <1>10, <1>12, <2>4, <2>6, WakeParts
<1>15. CASE ~Passes(cache[k], new)
  <2>1. queue' = queue
    BY <1>5, <1>6, <1>15
  <2>2. Visible(cache[k], new)
    <3>1. \A j \in DOMAIN stream : j < 1 => stream[j].key # stream[1].key
      BY <1>5
    <3>2. Visible(cache[stream[1].key], stream[1].to)
      BY <1>2, <1>5, <3>1 DEF VisibleEvents
    <3>. QED
      BY <1>4, <1>6, <3>2
  <2>3. \A b \in Bindings : /\ cache'[b].there = cache[b].there /\ cache'[b].gen = cache[b].gen
                            /\ cache'[b].spec = cache[b].spec /\ cache'[b].deleting = cache[b].deleting
    BY <1>7, <1>15, <2>2 DEF Visible, Passes
  <2>4. Restless' <=> Restless
    BY <1>3, <2>3, SMTT(30) DEF Restless
  <2>5. Alarmed' <=> Alarmed
    BY <2>1, <2>3, SMTT(30) DEF Alarmed
  <2>6. \A b \in Bindings : Wanted(b)' <=> Wanted(b)
    BY <1>3, <2>3, SMTT(30) DEF Wanted, Renders
  <2>7. ASSUME op.pc # "idle", Managed(cache[op.key], op.own) PROVE Managed(cache'[op.key], op.own)
    <3>1. op.key \in Bindings
      BY <1>1, <2>7, MemoryKeys
    <3>. QED
      BY <2>3, <2>7, <3>1, SMTT(30) DEF Managed
  <2>8. DecisionOK'
    BY <1>1, <1>2, <1>3, <1>13, <2>1, <2>4, <2>5, <2>6, <2>7, DecisionView
  <2>9. \A b \in Bindings : SameOutputs(b) /\ (Pursued(b) => Pursued(b)')
    BY <1>3 DEF SameOutputs, Pursued
  <2>10. \A b \in Bindings : Settling(b) => Settling(b)'
    BY <1>1, <1>2, <1>3, <2>1, <2>3, <2>4, <2>6, <2>9, SettlingView
  <2>11. ASSUME NEW b \in Bindings, cache[b].deleting, Finalized(b) PROVE Finalized(b)'
    <3>1. cache[b].there /\ cache'[b].there
      BY <1>2, <2>3, <2>11, SMTT(30) DEF SoundStored, Sound
    <3>2. ASSUME NEW j \in DOMAIN stream, stream[j].key = b, ~stream[j].to.there
          PROVE  \E i \in DOMAIN stream' : stream'[i].key = b /\ ~stream'[i].to.there
      <4>1. j # 1
        BY <1>4, <1>6, <1>7, <3>1, <3>2
      <4>. QED
        BY <1>5, <3>2, <4>1
    <3>. QED
      BY <1>3, <2>1, <2>11, <3>2 DEF Finalized
  <2>12. Attended'
    BY <1>2, <2>3, <2>10, <2>11, SMTT(30) DEF Attended
  <2>. QED
    BY <1>9, <1>10, <1>12, <2>8, <2>12, WakeParts
<1>. QED
  BY <1>14, <1>15

-----------------------------------------------------------------------------
(* Wake-ups: the steps of Reconcile. *)

\* Writing one binding and leaving its record alone.
LEMMA RecordKept ==
    ASSUME StoreOK, SoundStored, VisibleEvents, Recorded, LeadingCopies,
           UNCHANGED <<cache, outs, outEvents>>, NEW b \in Bindings, NEW new \in BindingStates,
           Store([c \in {b} |-> new]), Managed(live[b], new), Sound(b, new), new.rec = live[b].rec
    PROVE  /\ SoundStored' /\ VisibleEvents' /\ LeadingCopies'
           /\ \A c \in Bindings : live'[c].rec = live[c].rec
           /\ \A i \in DOMAIN stream : i \in DOMAIN stream' /\ stream'[i] = stream[i]
<1>1. PICK f : f = [c \in {b} |-> new]
  OBVIOUS
<1>2. DOMAIN f = {b} /\ f[b] = new /\ Store(f)
  BY <1>1, SMTT(30)
<1>3. Visible(live[b], new)
  BY DEF Managed, Visible
<1>4. /\ DOMAIN f \subseteq Bindings
      /\ \A c \in DOMAIN f : f[c] \in BindingStates /\ Visible(live[c], f[c]) /\ Sound(c, f[c])
  BY <1>2, <1>3
<1>5. SoundStored' /\ VisibleEvents'
  BY <1>2, <1>4, SoundStore, VisibleStore
<1>6. \A c \in Bindings : live'[c].rec = live[c].rec
  BY <1>2, StoreValue, SMTT(30)
<1>7. \A c \in Bindings : Tracked(c)
  BY <1>6 DEF Tracked
<1>8. LeadingCopies'
  BY <1>2, <1>4, <1>7, LeadingStore
<1>9. \A i \in DOMAIN stream : i \in DOMAIN stream' /\ stream'[i] = stream[i]
  BY <1>2, <1>4, Appended
<1>. QED
  BY <1>5, <1>6, <1>8, <1>9

\* Neither bindings nor outputs are written.
LEMMA NothingKept ==
    ASSUME StoreOK, SoundStored, VisibleEvents, LeadingCopies, UNCHANGED <<live, cache, stream, outs, outEvents>>
    PROVE  /\ SoundStored' /\ VisibleEvents' /\ LeadingCopies'
           /\ \A c \in Bindings : live'[c].rec = live[c].rec
           /\ \A i \in DOMAIN stream : i \in DOMAIN stream' /\ stream'[i] = stream[i]
<1>1. \A c \in Bindings : Tracked(c)
  BY DEF Tracked
<1>. QED
  BY <1>1, EventsKept, LeadingKept

\* The reconcile of a binding in the cache begins.
LEMMA WakeFetched ==
    ASSUME WatchInvariant, WakeInvariant, NEW b \in Bindings, NEW c \in BindingStates, NEW f, op.pc = "idle",
           op' = [Idle EXCEPT !.pc = "decide", !.key = b, !.own = c, !.fresh = f],
           queue' = queue \ {b}, UNCHANGED <<cache, pools, poolEvents, outs, outEvents, timers>>,
           SoundStored', VisibleEvents', LeadingCopies', \A d \in Bindings : live'[d].rec = live[d].rec,
           \A i \in DOMAIN stream : i \in DOMAIN stream' /\ stream'[i] = stream[i],
           c.there, c.fin, Managed(cache[b], c), c.rec = cache[b].rec, Sound(b, c)
    PROVE  WakeInvariant'
<1>1. StoreOK /\ MemoryOK /\ RestOK
  BY Parts
<1>2. /\ SoundStored /\ SoundMemory /\ VisibleEvents /\ Recorded
      /\ LeadingCopies /\ Attended /\ DecisionOK
  BY WakeParts
<1>3. PICK o : o = op'
  OBVIOUS
<1>4. o.pc = "decide" /\ o.key = b /\ o.own = c /\ o.copies = Idle.copies
  BY <1>3, IdleTyped DEF Memories
<1>5. DOMAIN o.copies = {}
  <2>1. Idle.copies = <<>>
    BY DEF Idle
  <2>. QED
    BY <1>4, <2>1, SMTT(30)
<1>6. SoundMemory'
  BY <1>3, <1>4, <1>5 DEF SoundMemory
<1>7. Recorded'
  BY <1>2, Owner DEF Recorded
<1>8. Leads(b, c)'
  BY DEF LeadingCopies, Leads
<1>9. Decided(o)'
  BY <1>4, <1>8 DEF Decided
<1>10. DecisionOK'
  BY <1>3, <1>9, DecisionNext
<1>11. ASSUME NEW d \in Bindings, Settling(d) PROVE Settling(d)'
  <2>1. CASE d = b
    BY <1>3, <1>4, <2>1 DEF Settling, Pursued
  <2>2. CASE d # b
    <3>1. SameOutputs(d) /\ ~Pursued(d)
      BY DEF SameOutputs, Pursued
    <3>. QED
      BY <1>1, <1>2, <1>11, <2>2, <3>1, SettlingKept
  <2>. QED
    BY <2>1, <2>2
<1>12. ASSUME NEW d \in Bindings, cache[d].deleting, Finalized(d) PROVE Finalized(d)'
  <2>1. CASE d = b
    <3>1. c.deleting
      BY <1>12, <2>1 DEF Managed
    <3>. QED
      BY <1>3, <1>4, <2>1, <3>1 DEF Finalized
  <2>2. CASE d # b
    BY <1>12, <2>2, FinalizedKept
  <2>. QED
    BY <2>1, <2>2
<1>13. Attended'
  BY <1>2, <1>11, <1>12 DEF Attended
<1>. QED
  BY <1>6, <1>7, <1>10, <1>13, WakeParts

\* A request is taken off the queue.
LEMMA WakeFetchStep ==
    ASSUME WatchInvariant, WakeInvariant, NEW b \in Bindings, Fetch(b) PROVE WakeInvariant'
<1>1. StoreOK /\ MemoryOK /\ RestOK
  BY Parts
<1>2. /\ SoundStored /\ SoundMemory /\ VisibleEvents /\ Recorded
      /\ LeadingCopies /\ Attended /\ DecisionOK
  BY WakeParts
<1>3. PICK own : own = cache[b]
  OBVIOUS
<1>4. /\ own \in BindingStates /\ Sound(b, own) /\ (CacheFresh(b) => own = live[b])
  BY <1>1, <1>2, <1>3, CachedIsStored DEF SoundStored
<1>5. PICK withFin : withFin = [own EXCEPT !.fin = TRUE]
  OBVIOUS
<1>6. /\ op.pc = "idle" /\ queue' = queue \ {b}
      /\ UNCHANGED <<cache, pools, poolEvents, outs, outEvents, timers>>
      /\ \/ (~own.there \/ (own.deleting /\ ~own.fin)) /\ UNCHANGED <<live, stream, op>>
         \/ \E f : /\ own.there /\ own.fin
                   /\ op' = [Idle EXCEPT !.pc = "decide", !.key = b, !.own = own, !.fresh = f]
                   /\ UNCHANGED <<live, stream>>
         \/ \E f : /\ own.there /\ ~own.deleting /\ ~own.fin /\ CacheFresh(b)
                   /\ Store([c \in {b} |-> withFin])
                   /\ op' = [Idle EXCEPT !.pc = "decide", !.key = b, !.own = withFin, !.fresh = f]
  BY <1>3, <1>5 DEF Fetch
<1>7. ASSUME ~own.there, UNCHANGED <<live, stream, op>> PROVE WakeInvariant'
  <2>1. /\ SoundStored' /\ VisibleEvents' /\ LeadingCopies'
        /\ \A c \in Bindings : live'[c].rec = live[c].rec
        /\ \A i \in DOMAIN stream : i \in DOMAIN stream' /\ stream'[i] = stream[i]
    BY <1>1, <1>2, <1>6, <1>7, NothingKept
  <2>2. SoundMemory' /\ DecisionOK' /\ Recorded'
    BY <1>2, <1>6, <1>7 DEF SoundMemory, DecisionOK, Recorded
  <2>3. ~cache[b].deleting
    BY <1>3, <1>4, <1>7 DEF Sound
  <2>4. \A c \in Bindings : SameOutputs(c) /\ ~Pursued(c)
    BY <1>6, <1>7 DEF SameOutputs, Pursued
  <2>5. \A c \in Bindings : c # b /\ Settling(c) => Settling(c)'
    BY <1>1, <1>2, <1>6, <2>4, SettlingKept
  <2>6. \A c \in Bindings : c # b /\ Finalized(c) => Finalized(c)'
    BY <1>6, <1>7 DEF Finalized
  <2>7. Attended'
    BY <1>2, <1>3, <1>6, <1>7, <2>3, <2>5, <2>6 DEF Attended
  <2>. QED
    BY <2>1, <2>2, <2>7, WakeParts
<1>8. ASSUME NEW f, own.there, own.fin, UNCHANGED <<live, stream>>,
             op' = [Idle EXCEPT !.pc = "decide", !.key = b, !.own = own, !.fresh = f]
      PROVE  WakeInvariant'
  <2>1. /\ SoundStored' /\ VisibleEvents' /\ LeadingCopies'
        /\ \A c \in Bindings : live'[c].rec = live[c].rec
        /\ \A i \in DOMAIN stream : i \in DOMAIN stream' /\ stream'[i] = stream[i]
    BY <1>1, <1>2, <1>6, <1>8, NothingKept
  <2>2. Managed(cache[b], own)
    BY <1>3, <1>4, WrittenManaged
  <2>. QED
    BY <1>3, <1>4, <1>6, <1>8, <2>1, <2>2, WakeFetched
<1>9. ASSUME NEW f, own.there, ~own.deleting, CacheFresh(b), Store([c \in {b} |-> withFin]),
             op' = [Idle EXCEPT !.pc = "decide", !.key = b, !.own = withFin, !.fresh = f]
      PROVE  WakeInvariant'
  <2>1. withFin \in BindingStates /\ Managed(own, withFin) /\ Sound(b, withFin) /\ withFin.rec = own.rec
    BY <1>4, <1>5, WrittenTyped, WrittenManaged, SoundWritten, WrittenFields
  <2>2. withFin.fin /\ withFin.there
    BY <1>4, <1>5, <1>9 DEF BindingStates
  <2>3. own = live[b]
    BY <1>4, <1>9
  <2>4. /\ SoundStored' /\ VisibleEvents' /\ LeadingCopies'
        /\ \A c \in Bindings : live'[c].rec = live[c].rec
        /\ \A i \in DOMAIN stream : i \in DOMAIN stream' /\ stream'[i] = stream[i]
    BY <1>1, <1>2, <1>6, <1>9, <2>1, <2>3, RecordKept
  <2>. QED
    BY <1>3, <1>6, <1>9, <2>1, <2>2, <2>4, WakeFetched
<1>. QED
  BY <1>4, <1>6, <1>7, <1>8, <1>9 DEF Sound

\* The reconcile is over: it comes back unless it stops.
LEMMA WakeReturned ==
    ASSUME WatchInvariant, WakeInvariant, op.pc = "status", NEW after, after = op.after \/ after = "retry",
           Return(after), UNCHANGED <<cache, pools, poolEvents, outs, outEvents>>,
           SoundStored', VisibleEvents', LeadingCopies', \A c \in Bindings : live'[c].rec = live[c].rec,
           \A i \in DOMAIN stream : i \in DOMAIN stream' /\ stream'[i] = stream[i]
    PROVE  WakeInvariant'
<1>1. StoreOK /\ MemoryOK /\ RestOK
  BY Parts
<1>2. /\ SoundStored /\ SoundMemory /\ VisibleEvents /\ Recorded
      /\ LeadingCopies /\ Attended /\ DecisionOK
  BY WakeParts
<1>3. /\ op' = Idle
      /\ queue' = IF after = "retry" THEN queue \cup {op.key} ELSE queue
      /\ timers' = IF after = "timer" THEN timers \cup {op.key} ELSE timers
  BY DEF Return
<1>4. op'.pc = "idle"
  BY <1>3 DEF Idle
<1>5. SoundMemory' /\ DecisionOK'
  BY <1>4 DEF SoundMemory, DecisionOK
<1>6. Recorded'
  BY <1>2, Owner DEF Recorded
<1>7. /\ \A b \in Bindings : b \in queue \cup timers => b \in queue' \cup timers'
      /\ after # "stop" => op.key \in queue' \cup timers'
  <2>1. op.after \in {"stop", "timer", "retry"}
    BY <1>1, MemoryFields
  <2>. QED
    BY <1>3, <2>1, SMTT(30)
<1>8. \A b \in Bindings : SameOutputs(b)
  BY DEF SameOutputs
<1>9. \A b \in Bindings : Pursued(b) => b \in queue' \cup timers'
  <2>1. op.after # "stop" => after # "stop"
    BY SMTT(30)
  <2>. QED
    BY <1>7, <2>1 DEF Pursued
<1>10. \A b \in Bindings : op.key = b /\ op.pc # "idle" /\ op.own.deleting => Finalized(b)'
  <2>1. op.own.deleting => after = "retry"
    BY <1>2 DEF DecisionOK, Decided
  <2>. QED
    BY <1>3, <2>1, SMTT(30) DEF Finalized
<1>11. Attended'
  BY <1>1, <1>2, <1>7, <1>8, <1>9, <1>10, AttendedKept
<1>. QED
  BY <1>5, <1>6, <1>11, WakeParts

\* Writing the status leaves the record alone and is over.
LEMMA WakePatchStatusStep ==
    ASSUME WatchInvariant, WakeInvariant, PatchStatus PROVE WakeInvariant'
<1>1. StoreOK /\ MemoryOK /\ RestOK
  BY Parts
<1>2. /\ SoundStored /\ SoundMemory /\ VisibleEvents /\ Recorded
      /\ LeadingCopies /\ Attended /\ DecisionOK
  BY WakeParts
<1>3. op.pc = "status" /\ UNCHANGED <<cache, pools, poolEvents, outs, outEvents>>
  BY DEF PatchStatus
<1>4. op.key \in Bindings /\ op.own \in BindingStates /\ op.cond \in Conditions /\ op.ver \in Nat
  BY <1>1, <1>3, MemoryFields
<1>5. PICK new : new = [cond |-> op.cond, gen |-> op.own.gen, ver |-> IF op.cond = "Ready" THEN op.ver ELSE 0]
  OBVIOUS
<1>6. new \in [cond : Conditions, gen : Nat, ver : Nat]
  BY <1>4, <1>5, SMTT(30) DEF BindingStates
<1>7. PICK latest : latest = cache[op.key]
  OBVIOUS
<1>8. PICK after : /\ after = op.after \/ after = "retry"
                   /\ Return(after)
                   /\ \/ UNCHANGED <<live, stream>>
                      \/ CacheFresh(op.key) /\ Store([b \in {op.key} |-> [latest EXCEPT !.status = new]])
  BY <1>5, <1>7 DEF PatchStatus
<1>9. /\ SoundStored' /\ VisibleEvents' /\ LeadingCopies'
      /\ \A c \in Bindings : live'[c].rec = live[c].rec
      /\ \A i \in DOMAIN stream : i \in DOMAIN stream' /\ stream'[i] = stream[i]
  <2>1. CASE UNCHANGED <<live, stream>>
    BY <1>1, <1>2, <1>3, <2>1, NothingKept
  <2>2. CASE CacheFresh(op.key) /\ Store([b \in {op.key} |-> [latest EXCEPT !.status = new]])
    <3>1. latest = live[op.key] /\ latest \in BindingStates /\ Sound(op.key, latest)
      BY <1>1, <1>2, <1>4, <1>7, <2>2, CachedIsStored DEF SoundStored
    <3>2. PICK c : c = [latest EXCEPT !.status = new]
      OBVIOUS
    <3>3. c \in BindingStates /\ Managed(latest, c) /\ Sound(op.key, c) /\ c.rec = latest.rec
      BY <1>6, <3>1, <3>2, WrittenTyped, WrittenManaged, SoundWritten, WrittenFields
    <3>. QED
      BY <1>1, <1>2, <1>3, <1>4, <2>2, <3>1, <3>2, <3>3, RecordKept
  <2>. QED
    BY <1>8, <2>1, <2>2
<1>. QED
  BY <1>3, <1>8, <1>9, WakeReturned

\* A binding that is being deleted, or whose pool is missing, is not entitled to an output.
LEMMA WakeDecideAloneStep ==
    ASSUME WatchInvariant, WakeInvariant, DecideAlone PROVE WakeInvariant'
<1>1. StoreOK /\ MemoryOK /\ RestOK
  BY Parts
<1>2. /\ SoundStored /\ SoundMemory /\ VisibleEvents /\ Recorded
      /\ LeadingCopies /\ Attended /\ DecisionOK
  BY WakeParts
<1>3. /\ op.pc = "decide" /\ (op.own.deleting \/ ~Renders(op.own))
      /\ UNCHANGED <<live, cache, stream, pools, poolEvents, outs, outEvents, queue, timers>>
  BY DEF DecideAlone
<1>4. op \in Memories /\ op.key \in Bindings /\ op.own \in BindingStates
  BY <1>1, <1>3, MemoryFields
<1>5. PICK copies, then :
        /\ copies = [b \in {op.key} |-> op.own]
        /\ then = IF op.own.deleting THEN "finalize" ELSE "clean"
        /\ op' = [op EXCEPT !.pc = "withdraw", !.copies = copies, !.then = then]
  BY DEF DecideAlone
<1>6. DOMAIN copies = {op.key} /\ copies[op.key] = op.own
  BY <1>5, SMTT(30)
<1>7. PICK o : o = op'
  OBVIOUS
<1>8. o.pc = "withdraw" /\ o.key = op.key /\ o.own = op.own /\ o.copies = copies /\ o.then = then
  BY <1>4, <1>5, <1>7 DEF Memories
<1>9. Decided(op)
  BY <1>2, <1>3, SMTT(30) DEF DecisionOK
<1>10. /\ op.own.there /\ op.own.fin
       /\ Managed(cache[op.key], op.own) \/ Alarmed
       /\ Leads(op.key, op.own) \/ op.key \in queue
  BY <1>9 DEF Decided
<1>11. Managed(cache[op.key], op.own) => ~Wanted(op.key)
  BY <1>3, SMTT(30) DEF Managed, Wanted, Renders
<1>12. then # "rename" /\ (op.own.deleting => then = "finalize")
  BY <1>5, SMTT(30)
<1>13. Withdrawing(o)
  BY <1>6, <1>8, <1>10, <1>11, <1>12 DEF Withdrawing
<1>14. Decided(o)
  <2>1. o.pc # "apply" /\ o.then # "rename"
    BY <1>8, <1>12, SMTT(30)
  <2>. QED
    BY <1>8, <1>10, <1>12, <1>13, <2>1 DEF Decided
<1>15. /\ SoundStored' /\ VisibleEvents' /\ LeadingCopies'
       /\ \A c \in Bindings : live'[c].rec = live[c].rec
       /\ \A i \in DOMAIN stream : i \in DOMAIN stream' /\ stream'[i] = stream[i]
  BY <1>1, <1>2, <1>3, NothingKept
<1>16. \A c \in Bindings : Tracked(c) /\ SameOutputs(c)
  BY <1>3 DEF Tracked, SameOutputs
<1>17. Decided(o)'
  <2>1. o.key \in Bindings /\ DOMAIN o.copies \subseteq Bindings
    BY <1>4, <1>6, <1>8
  <2>. QED
    BY <1>3, <1>14, <1>16, <2>1, DecidedKept
<1>18. DecisionOK'
  BY <1>7, <1>17, DecisionNext
<1>19. SoundMemory' /\ Recorded'
  <2>1. Sound(op.key, op.own)
    BY <1>2, <1>3, SMTT(30) DEF SoundMemory
  <2>. QED
    BY <1>2, <1>3, <1>6, <1>7, <1>8, <2>1 DEF SoundMemory, Recorded
<1>20. /\ \A c \in Bindings : Pursued(c) => Pursued(c)'
       /\ \A c \in Bindings : op.key = c /\ op.pc # "idle" /\ op.own.deleting => Finalized(c)'
  BY <1>7, <1>8, SMTT(30) DEF Pursued, Finalized
<1>21. Attended'
  BY <1>1, <1>2, <1>3, <1>15, <1>16, <1>20, AttendedKept
<1>. QED
  BY <1>15, <1>18, <1>19, <1>21, WakeParts

\* A reconcile that has only the status left to write keeps its copy.
LEMMA Finished ==
    ASSUME MemoryOK, DecisionOK, SoundMemory, op.pc # "idle", NEW cond, NEW after, Finish(cond, after),
           UNCHANGED <<cache, pools, poolEvents>>, outEvents \subseteq outEvents',
           \A b \in Bindings : Tracked(b), op.own.deleting => after = "retry"
    PROVE  /\ DecisionOK' /\ SoundMemory'
           /\ op'.pc = "status" /\ op'.key = op.key /\ op'.own = op.own /\ op'.after = after
           /\ queue' = queue /\ timers' = timers
<1>1. /\ op' = [Idle EXCEPT !.pc = "status", !.key = op.key, !.own = op.own, !.ver = op.ver,
                            !.cond = cond, !.after = after]
      /\ queue' = queue /\ timers' = timers
  BY DEF Finish
<1>2. PICK o : o = op'
  OBVIOUS
<1>3. o.pc = "status" /\ o.key = op.key /\ o.own = op.own /\ o.after = after /\ o.copies = Idle.copies
  BY <1>1, <1>2, IdleTyped DEF Memories
<1>4. DOMAIN o.copies = {}
  <2>1. Idle.copies = <<>>
    BY DEF Idle
  <2>. QED
    BY <1>3, <2>1, SMTT(30)
<1>5. PICK p : p = op
  OBVIOUS
<1>6. Decided(p)
  BY <1>5, DecisionNow
<1>7. Decided(o)
  <2>1. /\ o.own.there /\ o.own.fin
        /\ Managed(cache[o.key], o.own) \/ Alarmed
        /\ Leads(o.key, o.own) \/ o.key \in queue
    BY <1>3, <1>5, <1>6, SMTT(30) DEF Decided, Leads, Managed
  <2>2. o.pc # "withdraw" /\ o.pc # "apply" /\ (o.own.deleting => o.pc = "status" /\ o.after = "retry")
    BY <1>3, SMTT(30)
  <2>. QED
    BY <2>1, <2>2 DEF Decided
<1>8. o.key \in Bindings /\ DOMAIN o.copies \subseteq Bindings
  BY <1>3, <1>4, MemoryKeys
<1>9. Decided(o)'
  BY <1>1, <1>7, <1>8, DecidedKept
<1>10. DecisionOK'
  BY <1>2, <1>9, DecisionNext
<1>11. SoundMemory'
  BY <1>2, <1>3, <1>4 DEF SoundMemory
<1>. QED
  BY <1>1, <1>2, <1>3, <1>10, <1>11

\* A reconcile that fails without having written anything is retried.
LEMMA WakeFailed ==
    ASSUME WatchInvariant, WakeInvariant, op.pc # "idle", Fail,
           UNCHANGED <<live, cache, stream, pools, poolEvents, outs, outEvents>>
    PROVE  WakeInvariant'
<1>1. StoreOK /\ MemoryOK /\ RestOK
  BY Parts
<1>2. /\ SoundStored /\ SoundMemory /\ VisibleEvents /\ Recorded
      /\ LeadingCopies /\ Attended /\ DecisionOK
  BY WakeParts
<1>3. /\ SoundStored' /\ VisibleEvents' /\ LeadingCopies'
      /\ \A i \in DOMAIN stream : i \in DOMAIN stream' /\ stream'[i] = stream[i]
  BY <1>1, <1>2, NothingKept
<1>4. \A c \in Bindings : Tracked(c) /\ SameOutputs(c)
  BY DEF Tracked, SameOutputs
<1>5. /\ DecisionOK' /\ SoundMemory'
      /\ op'.pc = "status" /\ op'.key = op.key /\ op'.own = op.own /\ op'.after = "retry"
      /\ queue' = queue /\ timers' = timers
  BY <1>1, <1>2, <1>4, Finished DEF Fail
<1>6. Recorded'
  BY <1>2 DEF Recorded
<1>7. /\ \A c \in Bindings : Pursued(c) => Pursued(c)'
      /\ \A c \in Bindings : op.key = c /\ op.pc # "idle" /\ op.own.deleting => Finalized(c)'
  BY <1>5, SMTT(30) DEF Pursued, Finalized
<1>8. Attended'
  BY <1>1, <1>2, <1>3, <1>4, <1>5, <1>7, AttendedKept
<1>. QED
  BY <1>3, <1>5, <1>6, <1>8, WakeParts

\* Writing bindings that have no output, or no longer have one.
LEMMA EmptyStore ==
    ASSUME StoreOK, SoundStored, VisibleEvents, Recorded, LeadingCopies, cache' = cache,
           outEvents \subseteq outEvents',
           \A n \in Names : outs'[n].there => outs[n].there /\ outs'[n].uid = outs[n].uid,
           NEW new, DOMAIN new \subseteq Bindings,
           \A b \in DOMAIN new : new[b] \in BindingStates /\ Visible(live[b], new[b]) /\ Sound(b, new[b]),
           \A b \in DOMAIN new : \A n \in Names : n[1] = b => ~outs'[n].there, Store(new)
    PROVE  /\ SoundStored' /\ VisibleEvents' /\ Recorded' /\ LeadingCopies'
           /\ \A b \in Bindings : Tracked(b)
           /\ \A b \in Bindings : b \notin DOMAIN new => live'[b] = live[b]
           /\ \A i \in DOMAIN stream : i \in DOMAIN stream' /\ stream'[i] = stream[i]
<1>2. SoundStored' /\ VisibleEvents'
  BY SoundStore, VisibleStore
<1>3. \A b \in Bindings : b \notin DOMAIN new => live'[b] = live[b]
  BY StoreValue
<1>4. Fading
  BY <1>3, Owner DEF Fading
<1>5. Recorded' /\ \A b \in Bindings : Tracked(b)
  BY <1>4, FadingStep
<1>6. LeadingCopies'
  BY <1>5, LeadingStore
<1>7. \A i \in DOMAIN stream : i \in DOMAIN stream' /\ stream'[i] = stream[i]
  BY Appended
<1>. QED
  BY <1>2, <1>3, <1>5, <1>6, <1>7

\* Clearing their records.
LEMMA ClearedStore ==
    ASSUME StoreOK, SoundStored, VisibleEvents, Recorded, LeadingCopies, cache' = cache,
           outEvents \subseteq outEvents',
           \A n \in Names : outs'[n].there => outs[n].there /\ outs'[n].uid = outs[n].uid,
           NEW new, DOMAIN new \subseteq Bindings, \A b \in DOMAIN new : new[b] = Cleared(live[b]),
           \A b \in DOMAIN new : \A n \in Names : n[1] = b => ~outs'[n].there, Store(new)
    PROVE  /\ SoundStored' /\ VisibleEvents' /\ Recorded' /\ LeadingCopies'
           /\ \A b \in Bindings : Tracked(b)
           /\ \A b \in Bindings : b \notin DOMAIN new => live'[b] = live[b]
           /\ \A i \in DOMAIN stream : i \in DOMAIN stream' /\ stream'[i] = stream[i]
<1>1. ASSUME NEW b \in DOMAIN new
      PROVE  new[b] \in BindingStates /\ Visible(live[b], new[b]) /\ Sound(b, new[b])
  <2>1. live[b] \in BindingStates /\ Sound(b, live[b])
    BY DEF StoreOK, SoundStored
  <2>2. Managed(live[b], Cleared(live[b])) /\ Cleared(live[b]) \in BindingStates /\ Sound(b, Cleared(live[b]))
    BY <2>1, WrittenManaged, WrittenTyped, SoundWritten
  <2>. QED
    BY <2>2 DEF Managed, Visible
<1>. QED
  BY <1>1, EmptyStore

\* What the evaluation of the peers finds is what the cache calls for, unless a binding is
\* going or the event of a pool is under way.
LEMMA PeersEvaluated ==
    ASSUME op.key \in Bindings, Decided(op), ~op.own.deleting, Renders(op.own), ~Restless, ~Alarmed
    PROVE  /\ \A c \in Rivals : ~Wanted(c) /\ ~Wanted(op.key)
           /\ \A c \in Blockers : ~Wanted(c)
           /\ Rivals = {} => Wanted(op.key)
<1>1. op.own.there /\ Managed(cache[op.key], op.own)
  BY DEF Decided
<1>2. cache[op.key].there /\ cache[op.key].spec = op.own.spec /\ ~cache[op.key].deleting
  BY <1>1 DEF Managed
<1>3. Renders(cache[op.key])
  BY <1>2, SMTT(30) DEF Renders
<1>4. \A b \in Bindings : ~cache[b].deleting
  BY DEF Restless
<1>5. ASSUME NEW c \in Rivals PROVE ~Wanted(c) /\ ~Wanted(op.key)
  <2>1. /\ c \in Bindings /\ c # op.key /\ cache[c].there /\ Renders(cache[c])
        /\ cache[c].spec.variant = cache[op.key].spec.variant
    BY <1>2, SMTT(30) DEF Rivals, Competing
  <2>. QED
    BY <1>2, <1>3, <2>1 DEF Wanted
<1>6. ASSUME NEW c \in Blockers PROVE ~Wanted(c)
  BY DEF Blockers, Wanted
<1>7. ASSUME Rivals = {} PROVE Wanted(op.key)
  <2>1. ASSUME NEW c \in Bindings \ {op.key}, cache[c].there, Renders(cache[c])
        PROVE  cache[c].spec.variant # cache[op.key].spec.variant
    <3>1. Competing(op.key) /\ Competing(c)
      BY <1>2, <1>4, <2>1 DEF Competing
    <3>2. c \notin Rivals
      BY <1>7
    <3>. QED
      BY <1>2, <2>1, <3>1, <3>2, SMTT(30) DEF Rivals
  <2>. QED
    BY <1>2, <1>3, <2>1 DEF Wanted
<1>. QED
  BY <1>5, <1>6, <1>7

\* Looking up the outputs of peers clears records of outputs that are gone, and leaves every
\* binding attended to while the reconcile goes on.
LEMMA WakeLookedUp ==
    ASSUME WatchInvariant, WakeInvariant, op.pc = "decide", ~op.own.deleting, NEW gone,
           gone = {b \in LookedUp : cache[b].rec # NoRec /\ ~Found(cache[b], outs)},
           \A b \in gone : CacheFresh(b), Store([b \in gone |-> Cleared(cache[b])]),
           UNCHANGED <<cache, pools, poolEvents, outs, outEvents, queue, timers>>,
           op'.key = op.key, op'.pc \in {"withdraw", "apply"}, SoundMemory', NEW o, op' = o, Decided(o),
           DOMAIN o.copies \subseteq Bindings
    PROVE  WakeInvariant'
<1>1. StoreOK /\ MemoryOK /\ RestOK
  BY Parts
<1>2. /\ SoundStored /\ SoundMemory /\ VisibleEvents /\ Recorded
      /\ LeadingCopies /\ Attended /\ DecisionOK
  BY WakeParts
<1>3. PICK new : new = [b \in gone |-> Cleared(cache[b])]
  OBVIOUS
<1>4. gone \subseteq Bindings /\ \A b \in gone : cache[b] = live[b]
  <2>1. gone \subseteq Bindings
    BY DEF LookedUp
  <2>. QED
    BY <1>1, <2>1, CachedIsStored
<1>5. /\ DOMAIN new \subseteq Bindings /\ DOMAIN new = gone /\ Store(new)
      /\ \A b \in DOMAIN new : new[b] = Cleared(live[b])
  BY <1>3, <1>4, SMTT(30)
<1>6. \A b \in gone : \A n \in Names : n[1] = b => ~outs[n].there
  <2>. TAKE b \in gone
  <2>1. ~Found(live[b], outs) /\ b \in Bindings
    BY <1>4
  <2>. QED
    BY <1>1, <1>2, <2>1, NoOutput
<1>7. /\ SoundStored' /\ VisibleEvents' /\ Recorded' /\ LeadingCopies'
      /\ \A b \in Bindings : Tracked(b)
      /\ \A b \in Bindings : b \notin gone => live'[b] = live[b]
      /\ \A i \in DOMAIN stream : i \in DOMAIN stream' /\ stream'[i] = stream[i]
  <2>0. outs' = outs
    OBVIOUS
  <2>1. \A n \in Names : outs'[n].there => outs[n].there /\ outs'[n].uid = outs[n].uid
    BY ONLY <2>0, Zenon
  <2>2. \A b \in DOMAIN new : \A n \in Names : n[1] = b => ~outs'[n].there
    BY ONLY <1>5, <1>6, <2>0, Zenon
  <2>. QED
    BY <1>1, <1>2, <1>5, <2>1, <2>2, ClearedStore
<1>8. DecisionOK'
  <2>1. o.key \in Bindings
    BY <1>1, MemoryKeys, SMTT(30)
  <2>2. Decided(o)'
    BY <1>7, <2>1, DecidedKept
  <2>. QED
    BY <2>2, DecisionNext
<1>9. ASSUME NEW c \in Bindings, cache[c].there, Settling(c) PROVE Settling(c)'
  <2>1. CASE c = op.key
    BY <2>1, SMTT(30) DEF Settling, Pursued
  <2>2. CASE c # op.key /\ c \notin gone
    <3>1. SameOutputs(c) /\ ~Pursued(c)
      BY <1>7, <2>2 DEF SameOutputs, Pursued
    <3>. QED
      BY <1>1, <1>2, <1>9, <3>1, SettlingKept
  <2>3. CASE c # op.key /\ c \in gone
    <3>1. CASE cache[c].deleting
      BY <3>1, SMTT(30) DEF Settling, Restless
    <3>2. CASE ~cache[c].deleting
      <4>1. ~Renders(cache[c])
        BY <2>3, <3>2 DEF LookedUp
      <4>2. ~Wanted(c)'
        BY <4>1, SMTT(30) DEF Wanted, Renders
      <4>3. \A m \in Names : m[1] = c => ~outs'[m].there
        BY <1>6, <2>3, SMTT(30)
      <4>4. Right(c)'
        BY <4>2, <4>3 DEF Right
      <4>. QED
        BY <4>4 DEF Settling
    <3>. QED
      BY <3>1, <3>2
  <2>. QED
    BY <2>1, <2>2, <2>3
<1>10. \A c \in Bindings : Finalized(c) => Finalized(c)'
  BY <1>7, FinalizedKept
<1>11. Attended'
  BY <1>2, <1>9, <1>10 DEF Attended
<1>. QED
  BY <1>7, <1>8, <1>11, WakeParts

\* The evaluation of the peers decides as the cache calls for.
LEMMA WakeDecideAmongPeersStep ==
    ASSUME WatchInvariant, WakeInvariant, DecideAmongPeers PROVE WakeInvariant'
<1>. DEFINE listed(x, b) == IF b \in x THEN [c \in x |-> Cleared(cache[c])][b] ELSE cache[b]
            own(x, b) == IF b = op.key /\ Rivals = {} THEN op.own ELSE listed(x, b)
            members == Rivals \cup Blockers \cup {op.key}
            keeps == op.own.rec = NoRec \/ op.own.rec.name = Output(op.key, op.own.spec)
<1>1. StoreOK /\ MemoryOK /\ RestOK
  BY Parts
<1>2. /\ SoundStored /\ SoundMemory /\ VisibleEvents /\ Recorded
      /\ LeadingCopies /\ Attended /\ DecisionOK
  BY WakeParts
<1>3. /\ op.pc = "decide" /\ ~op.own.deleting /\ Renders(op.own)
      /\ UNCHANGED <<cache, pools, poolEvents, outs, outEvents>>
  BY DEF DecideAmongPeers
<1>4. op \in Memories /\ op.key \in Bindings /\ op.own \in BindingStates /\ op.pc # "idle"
  <2>1. op.pc # "idle"
    BY <1>3, SMTT(30)
  <2>. QED
    BY <1>1, <2>1, MemoryFields
<1>5. PICK gone : gone = {b \in LookedUp : cache[b].rec # NoRec /\ ~Found(cache[b], outs)}
  OBVIOUS
<1>6. \/ Fail /\ UNCHANGED <<live, stream>>
      \/ /\ \A b \in gone : CacheFresh(b)
         /\ Store([b \in gone |-> Cleared(cache[b])]) /\ UNCHANGED <<queue, timers>>
         /\ \E f : \/ /\ Rivals \cup Blockers # {}
                      /\ op' = [op EXCEPT !.pc = "withdraw", !.copies = [b \in members |-> own(gone, b)],
                                          !.fresh = f, !.then = IF Blockers # {} THEN "blocked" ELSE "conflict"]
                   \/ /\ Rivals \cup Blockers = {} /\ keeps
                      /\ op' = [op EXCEPT !.pc = "apply", !.fresh = f, !.ver = pools[op.own.spec.pool]]
                   \/ /\ Rivals \cup Blockers = {} /\ ~keeps
                      /\ op' = [op EXCEPT !.pc = "withdraw", !.copies = [b \in {op.key} |-> op.own],
                                          !.fresh = f, !.ver = pools[op.own.spec.pool], !.then = "rename"]
  <2>. DEFINE fresh == {b \in Bindings : CacheFresh(b)}
              freshOwn == op.fresh \ gone
              withdraws == [op EXCEPT !.pc = "withdraw", !.copies = [b \in members |-> own(gone, b)],
                                      !.fresh = IF Rivals = {} THEN freshOwn \cup (fresh \ {op.key}) ELSE fresh,
                                      !.then = IF Blockers # {} THEN "blocked" ELSE "conflict"]
              applies == [op EXCEPT !.pc = "apply", !.fresh = freshOwn, !.ver = pools[op.own.spec.pool]]
              renames == [op EXCEPT !.pc = "withdraw", !.copies = [b \in {op.key} |-> op.own],
                                    !.fresh = freshOwn, !.ver = pools[op.own.spec.pool], !.then = "rename"]
              opposed == Rivals \cup Blockers # {}
              alone == Rivals \cup Blockers = {} /\ keeps
  <2>1. \/ Fail /\ UNCHANGED <<live, stream>>
        \/ /\ gone \subseteq fresh
           /\ Store([b \in gone |-> Cleared(cache[b])]) /\ UNCHANGED <<queue, timers>>
           /\ op' = CASE opposed -> withdraws [] alone -> applies [] OTHER -> renames
    BY <1>5, SMTT(30) DEF DecideAmongPeers
  <2>2. (alone => ~opposed) /\ (~opposed /\ ~alone => Rivals \cup Blockers = {} /\ ~keeps)
    OBVIOUS
  <2>3. ASSUME op' = CASE opposed -> withdraws [] alone -> applies [] OTHER -> renames
        PROVE  (opposed /\ op' = withdraws) \/ (alone /\ op' = applies) \/ (~opposed /\ ~alone /\ op' = renames)
    <3>. HIDE DEF opposed, alone, withdraws, applies, renames
    <3>. QED
      BY <2>2, <2>3, SMTT(30)
  <2>4. gone \subseteq fresh => \A b \in gone : CacheFresh(b)
    OBVIOUS
  <2>5. CASE Fail /\ UNCHANGED <<live, stream>>
    BY <2>5
  <2>6. CASE /\ gone \subseteq fresh
             /\ Store([b \in gone |-> Cleared(cache[b])]) /\ UNCHANGED <<queue, timers>>
             /\ op' = CASE opposed -> withdraws [] alone -> applies [] OTHER -> renames
    BY <2>2, <2>3, <2>4, <2>6
  <2>. QED
    BY <2>1, <2>5, <2>6
<1>7. CASE Fail /\ UNCHANGED <<live, stream>>
  BY <1>3, <1>4, <1>7, WakeFailed
<1>8. Decided(op) /\ Sound(op.key, op.own)
  BY <1>2, <1>4 DEF DecisionOK, SoundMemory
<1>9. /\ op.own.there /\ op.own.fin
      /\ Managed(cache[op.key], op.own) \/ Alarmed
      /\ Leads(op.key, op.own) \/ op.key \in queue
  BY <1>8 DEF Decided
<1>10. ~Restless /\ ~Alarmed =>
          /\ \A c \in Rivals : ~Wanted(c) /\ ~Wanted(op.key)
          /\ \A c \in Blockers : ~Wanted(c)
          /\ Rivals = {} => Wanted(op.key)
  BY <1>3, <1>4, <1>8, PeersEvaluated
<1>11. PICK o : o = op'
  OBVIOUS
<1>12. ASSUME \A b \in gone : CacheFresh(b), Store([b \in gone |-> Cleared(cache[b])]), UNCHANGED <<queue, timers>>,
              Rivals \cup Blockers # {}, NEW f,
              op' = [op EXCEPT !.pc = "withdraw", !.copies = [b \in members |-> own(gone, b)],
                               !.fresh = f, !.then = IF Blockers # {} THEN "blocked" ELSE "conflict"]
       PROVE  WakeInvariant'
  <2>1. members \subseteq Bindings /\ op.key \in members
    BY <1>4 DEF Rivals, Blockers
  <2>2. PICK copies, then : /\ copies = [b \in members |-> own(gone, b)]
                            /\ then = IF Blockers # {} THEN "blocked" ELSE "conflict"
    OBVIOUS
  <2>3. o.pc = "withdraw" /\ o.key = op.key /\ o.own = op.own /\ o.copies = copies /\ o.then = then
    BY <1>4, <1>11, <1>12, <2>2 DEF Memories
  <2>4. DOMAIN copies = members /\ \A b \in members : copies[b] = own(gone, b)
    BY <2>2
  <2>5. then # "rename" /\ (Blockers # {} => then = "blocked")
    BY <2>2, SMTT(30)
  <2>6. ASSUME NEW b \in members, NEW c, c = own(gone, b)
        PROVE  Sound(b, c) /\ (Leads(b, c) \/ b \in queue)
    <3>0. b \in Bindings
      BY <2>1
    <3>1. CASE b = op.key /\ Rivals = {}
      BY <1>8, <1>9, <2>6, <3>1
    <3>2. CASE ~(b = op.key /\ Rivals = {}) /\ b \notin gone
      <4>1. c = cache[b]
        BY <2>6, <3>2
      <4>. QED
        BY <1>2, <3>0, <4>1 DEF SoundStored, LeadingCopies
    <3>3. CASE ~(b = op.key /\ Rivals = {}) /\ b \in gone
      <4>1. c = Cleared(cache[b])
        BY <2>6, <3>3
      <4>2. cache[b] \in BindingStates /\ cache[b] = live[b] /\ Sound(b, cache[b])
        BY <1>1, <1>2, <1>12, <3>0, <3>3, CachedIsStored DEF SoundStored
      <4>3. Sound(b, c)
        BY <4>1, <4>2, SoundWritten
      <4>4. ~Found(live[b], outs)
        BY <1>5, <3>3, <4>2
      <4>5. Leads(b, c)
        BY <1>1, <1>2, <3>0, <4>4, NoOutput DEF Leads
      <4>. QED
        BY <4>3, <4>5
    <3>. QED
      BY <3>1, <3>2, <3>3
  <2>. HIDE DEF own, listed
  <2>7. \A b \in members : Sound(b, copies[b]) /\ (Leads(b, copies[b]) \/ b \in queue)
    BY <2>4, <2>6
  <2>8. SoundMemory'
    BY <1>8, <1>11, <2>3, <2>4, <2>7 DEF SoundMemory
  <2>9. ~Restless /\ ~Alarmed => \A c \in members : ~Wanted(c) \/ (c = op.key /\ then = "blocked")
    BY <1>10, <1>12, <2>5
  <2>10. Withdrawing(o)
    BY <2>1, <2>3, <2>4, <2>5, <2>7, <2>9 DEF Withdrawing
  <2>11. Decided(o)
    <3>1. o.pc # "apply" /\ o.then # "rename" /\ ~o.own.deleting
      BY <1>3, <2>3, <2>5, SMTT(30)
    <3>. QED
      BY <1>9, <2>3, <2>10, <3>1 DEF Decided
  <2>12. op'.key = op.key /\ op'.pc \in {"withdraw", "apply"} /\ DOMAIN o.copies \subseteq Bindings
    BY <1>11, <2>1, <2>3, <2>4
  <2>. QED
    BY <1>3, <1>5, <1>11, <1>12, <2>8, <2>11, <2>12, WakeLookedUp
<1>13. ASSUME \A b \in gone : CacheFresh(b), Store([b \in gone |-> Cleared(cache[b])]), UNCHANGED <<queue, timers>>,
              Rivals \cup Blockers = {}, keeps, NEW f,
              op' = [op EXCEPT !.pc = "apply", !.fresh = f, !.ver = pools[op.own.spec.pool]]
       PROVE  WakeInvariant'
  <2>1. /\ o.pc = "apply" /\ o.key = op.key /\ o.own = op.own /\ o.copies = op.copies
        /\ o.ver = pools[op.own.spec.pool]
    BY <1>4, <1>11, <1>13 DEF Memories
  <2>2. Applying(o)
    BY <1>10, <1>13, <2>1, SMTT(30) DEF Applying
  <2>3. Decided(o)
    <3>1. o.pc # "withdraw" /\ ~o.own.deleting /\ (o.own.rec = NoRec \/ o.own.rec.name = Output(o.key, o.own.spec))
      BY <1>3, <1>13, <2>1, SMTT(30)
    <3>. QED
      BY <1>9, <2>1, <2>2, <3>1 DEF Decided
  <2>4. SoundMemory'
    BY <1>2, <1>4, <1>11, <2>1 DEF SoundMemory
  <2>5. op'.key = op.key /\ op'.pc \in {"withdraw", "apply"} /\ DOMAIN o.copies \subseteq Bindings
    BY <1>1, <1>4, <1>11, <2>1, MemoryKeys
  <2>. QED
    BY <1>3, <1>5, <1>11, <1>13, <2>3, <2>4, <2>5, WakeLookedUp
<1>14. ASSUME \A b \in gone : CacheFresh(b), Store([b \in gone |-> Cleared(cache[b])]), UNCHANGED <<queue, timers>>,
              Rivals \cup Blockers = {}, ~keeps, NEW f,
              op' = [op EXCEPT !.pc = "withdraw", !.copies = [b \in {op.key} |-> op.own],
                               !.fresh = f, !.ver = pools[op.own.spec.pool], !.then = "rename"]
       PROVE  WakeInvariant'
  <2>1. PICK copies : copies = [b \in {op.key} |-> op.own]
    OBVIOUS
  <2>2. DOMAIN copies = {op.key} /\ copies[op.key] = op.own
    BY <2>1, SMTT(30)
  <2>3. /\ o.pc = "withdraw" /\ o.key = op.key /\ o.own = op.own /\ o.copies = copies /\ o.then = "rename"
        /\ o.ver = pools[op.own.spec.pool]
    BY <1>4, <1>11, <1>14, <2>1 DEF Memories
  <2>4. Applying(o)
    BY <1>10, <1>14, <2>3, SMTT(30) DEF Applying
  <2>5. op.own.rec # NoRec
    BY <1>14
  <2>6. Withdrawing(o)
    BY <1>9, <2>2, <2>3, <2>5 DEF Withdrawing
  <2>7. Decided(o)
    <3>1. o.pc # "apply" /\ ~o.own.deleting
      BY <1>3, <2>3, SMTT(30)
    <3>. QED
      BY <1>9, <2>3, <2>4, <2>6, <3>1 DEF Decided
  <2>8. SoundMemory'
    BY <1>8, <1>11, <2>2, <2>3 DEF SoundMemory
  <2>9. op'.key = op.key /\ op'.pc \in {"withdraw", "apply"} /\ DOMAIN o.copies \subseteq Bindings
    BY <1>4, <1>11, <2>2, <2>3
  <2>. QED
    BY <1>3, <1>5, <1>11, <1>14, <2>7, <2>8, <2>9, WakeLookedUp
<1>. QED
  BY <1>6, <1>7, <1>12, <1>13, <1>14

\* The binding has the one output that was decided on.
LEMMA WakeApplied ==
    ASSUME WatchInvariant, WakeInvariant, op.pc = "apply", Finish("Ready", "stop"),
           UNCHANGED <<cache, pools, poolEvents>>, outEvents \subseteq outEvents',
           SoundStored', VisibleEvents', Recorded', LeadingCopies', \A c \in Bindings : Tracked(c),
           \A i \in DOMAIN stream : i \in DOMAIN stream' /\ stream'[i] = stream[i],
           \A c \in Bindings : c # op.key => live'[c].rec = live[c].rec,
           NEW n, n = Output(op.key, op.own.spec), \A m \in Names : m # n => outs'[m] = outs[m],
           outs'[n].there, outs'[n].ver = op.ver,
           \A m \in Names : m[1] = op.key /\ outs'[m].there => m = n
    PROVE  WakeInvariant'
<1>1. StoreOK /\ MemoryOK /\ RestOK
  BY Parts
<1>2. /\ SoundStored /\ SoundMemory /\ VisibleEvents /\ Recorded
      /\ LeadingCopies /\ Attended /\ DecisionOK
  BY WakeParts
<1>3. op.pc # "idle" /\ op.pc # "decide" /\ op.pc # "withdraw" /\ op.pc # "status"
  OBVIOUS
<1>4. Decided(op)
  BY <1>2, <1>3 DEF DecisionOK
<1>5. /\ ~op.own.deleting /\ op.own.there
      /\ Managed(cache[op.key], op.own) \/ Alarmed
      /\ Applying(op)
  BY <1>3, <1>4 DEF Decided
<1>6. /\ DecisionOK' /\ SoundMemory'
      /\ op'.pc = "status" /\ op'.key = op.key /\ op'.own = op.own
      /\ queue' = queue /\ timers' = timers
  BY <1>1, <1>2, <1>3, <1>5, Finished
<1>7. /\ Restless' <=> Restless
      /\ \A b : Wanted(b)' <=> Wanted(b)
  BY ViewKept
<1>8. op.key \in Bindings /\ n[1] = op.key
  BY <1>1, <1>3, MemoryKeys, Owner
<1>9. ASSUME NEW c \in Bindings, cache[c].there, Settling(c) PROVE Settling(c)'
  <2>1. CASE c # op.key
    <3>1. SameOutputs(c) /\ ~Pursued(c)
      BY <1>8, <2>1 DEF SameOutputs, Pursued
    <3>. QED
      BY <1>1, <1>2, <1>6, <1>9, <3>1, SettlingKept
  <2>2. CASE c = op.key
    <3>1. CASE Restless
      BY <1>7, <3>1 DEF Settling
    <3>2. CASE Alarmed
      <4>1. c \in queue'
        BY <1>6, <1>9, <3>2 DEF Alarmed
      <4>. QED
        BY <4>1 DEF Settling
    <3>3. CASE ~Restless /\ ~Alarmed
      <4>1. /\ Wanted(c) /\ op.ver = pools[op.own.spec.pool]
            /\ cache[c].spec = op.own.spec
        BY <1>5, <2>2, <3>3 DEF Applying, Managed
      <4>2. n = Output(c, cache'[c].spec)
        BY <2>2, <4>1
      <4>3. outs'[n].ver = pools'[cache'[c].spec.pool]
        BY <4>1
      <4>4. Right(c)'
        BY <1>7, <2>2, <4>1, <4>2, <4>3 DEF Right
      <4>. QED
        BY <4>4 DEF Settling
    <3>. QED
      BY <3>1, <3>2, <3>3
  <2>. QED
    BY <2>1, <2>2
<1>10. \A c \in Bindings : Finalized(c) => Finalized(c)'
  BY <1>5, <1>6, FinalizedKept
<1>11. Attended'
  BY <1>2, <1>9, <1>10 DEF Attended
<1>. QED
  BY <1>6, <1>11, WakeParts

\* The output of the binding is brought up to date, or created under a record that is the
\* only one of its binding.
LEMMA WakeApplyStep == ASSUME WatchInvariant, WakeInvariant, Apply PROVE WakeInvariant'
<1>1. StoreOK /\ MemoryOK /\ RestOK
  BY Parts
<1>2. /\ SoundStored /\ SoundMemory /\ VisibleEvents /\ Recorded
      /\ LeadingCopies /\ Attended /\ DecisionOK
  BY WakeParts
<1>3. op.pc = "apply" /\ op.pc # "idle" /\ UNCHANGED <<cache, pools, poolEvents>>
  <2>1. op.pc = "apply" /\ UNCHANGED <<cache, pools, poolEvents>>
    BY DEF Apply
  <2>. QED
    BY <2>1, SMTT(30)
<1>4. op \in Memories /\ op.key \in Bindings /\ op.own \in BindingStates /\ op.ver \in Nat
  BY <1>1, <1>3, MemoryFields
<1>5. PICK n : n = Output(op.key, op.own.spec)
  OBVIOUS
<1>6. n \in Names /\ n[1] = op.key /\ outs \in [Names -> OutputStates] /\ outs[n] \in OutputStates
  <2>1. op.own.spec \in Specs
    BY <1>4 DEF BindingStates
  <2>. QED
    BY <1>1, <1>4, <1>5, <2>1, OutputNamed, Owner DEF RestOK
<1>7. PICK u \in Nat : u = outs[n].uid + 1
  <2>1. outs[n].uid + 1 \in Nat
    BY <1>6, SMTT(30) DEF OutputStates
  <2>. QED
    BY <2>1
<1>8. PICK new, r, waiting, recorded, edited :
        /\ new = [AbsentOutput(u) EXCEPT !.there = TRUE, !.ver = op.ver]
        /\ r = [name |-> n, uid |-> new.uid]
        /\ waiting = [cond |-> "PendingOutput", gen |-> op.own.gen, ver |-> 0]
        /\ recorded = [op.own EXCEPT !.rec = r, !.status = waiting]
        /\ edited = [outs[n] EXCEPT !.ver = op.ver]
  OBVIOUS
<1>9. new \in OutputStates /\ new.there /\ new.ver = op.ver /\ new.uid \in Nat
  <2>1. new \in OutputStates
    BY <1>4, <1>8, NewOutput
  <2>2. new.there /\ new.ver = op.ver
    BY <1>8 DEF AbsentOutput
  <2>3. new.uid \in Nat
    BY <2>1 DEF OutputStates
  <2>. QED
    BY <2>1, <2>2, <2>3
<1>10. edited \in OutputStates /\ edited.there = outs[n].there /\ edited.uid = outs[n].uid /\ edited.ver = op.ver
  BY <1>4, <1>6, <1>8, SMTT(30) DEF OutputStates
<1>11. \/ /\ Found(op.own, outs) /\ SetOuts([outs EXCEPT ![n] = edited])
          /\ Finish("Ready", "stop") /\ UNCHANGED <<live, stream>>
       \/ /\ ~Found(op.own, outs) /\ ~outs[n].there /\ op.key \in op.fresh
          /\ SetOuts([outs EXCEPT ![n] = new])
          /\ Store([c \in {op.key} |-> recorded]) /\ Finish("Ready", "stop")
       \/ Fail /\ UNCHANGED <<live, stream, outs, outEvents>>
  <2>1. [outs EXCEPT ![n].ver = op.ver] = [outs EXCEPT ![n] = edited]
    BY <1>6, <1>8, SMTT(30)
  <2>. QED
    BY <1>5, <1>7, <1>8, <2>1 DEF Apply
<1>12. CASE Fail /\ UNCHANGED <<live, stream, outs, outEvents>>
  BY <1>3, <1>12, WakeFailed
<1>13. Decided(op) /\ Sound(op.key, op.own)
  BY <1>2, <1>3 DEF DecisionOK, SoundMemory
<1>14. op.own.there /\ op.own.fin /\ (op.own.rec = NoRec \/ op.own.rec.name = n)
  BY <1>3, <1>5, <1>13 DEF Decided
<1>15. \A o : SetOuts([outs EXCEPT ![n] = o]) =>
          /\ outs'[n] = o /\ \A m \in Names : m # n => outs'[m] = outs[m]
          /\ outEvents \subseteq outEvents' /\ (o # outs[n] => n \in outEvents')
  <2>. TAKE o
  <2>. HAVE SetOuts([outs EXCEPT ![n] = o])
  <2>1. /\ outs' = [outs EXCEPT ![n] = o]
        /\ outEvents' = outEvents \cup {m \in Names : outs'[m] # outs[m]}
    BY DEF SetOuts
  <2>2. outs'[n] = o /\ \A m \in Names : m # n => outs'[m] = outs[m]
    BY <1>6, <2>1
  <2>. QED
    BY <1>6, <2>1, <2>2
<1>16. ASSUME Found(op.own, outs), SetOuts([outs EXCEPT ![n] = edited]),
              Finish("Ready", "stop"), UNCHANGED <<live, stream>>
       PROVE  WakeInvariant'
  <2>1. /\ outs'[n] = edited /\ \A m \in Names : m # n => outs'[m] = outs[m]
        /\ outEvents \subseteq outEvents'
    BY <1>15, <1>16
  <2>2. outs[n].there
    BY <1>14, <1>16 DEF Found
  <2>3. Fading
    BY <1>10, <1>16, <2>1, SMTT(30) DEF Fading
  <2>4. Recorded' /\ \A b \in Bindings : Tracked(b)
    BY <1>2, <2>3, FadingStep
  <2>5. LeadingCopies' /\ SoundStored' /\ VisibleEvents'
    BY <1>1, <1>2, <1>3, <1>16, <2>1, <2>4, LeadingKept, EventsKept
  <2>6. \A m \in Names : m[1] = op.key /\ outs'[m].there => m = n
    <3>. TAKE m \in Names
    <3>. HAVE m[1] = op.key /\ outs'[m].there
    <3>1. outs[m].there
      BY <2>3 DEF Fading
    <3>2. live[op.key].rec.name = m
      BY <1>1, <1>2, <3>1, HasOutput
    <3>3. live[op.key].rec.name = n
      BY <1>1, <1>2, <1>6, <2>2, HasOutput
    <3>. QED
      BY <3>2, <3>3
  <2>7. outs'[n].there /\ outs'[n].ver = op.ver
    BY <1>10, <2>1, <2>2
  <2>8. \A i \in DOMAIN stream : i \in DOMAIN stream' /\ stream'[i] = stream[i]
    BY <1>16
  <2>9. \A c \in Bindings : c # op.key => live'[c].rec = live[c].rec
    BY <1>16
  <2>. QED
    BY <1>3, <1>5, <1>16, <2>1, <2>4, <2>5, <2>6, <2>7, <2>8, <2>9, WakeApplied
<1>17. ASSUME ~Found(op.own, outs), ~outs[n].there, op.key \in op.fresh, SetOuts([outs EXCEPT ![n] = new]),
              Store([c \in {op.key} |-> recorded]), Finish("Ready", "stop")
       PROVE  WakeInvariant'
  <2>1. /\ outs'[n] = new /\ \A m \in Names : m # n => outs'[m] = outs[m]
        /\ outEvents \subseteq outEvents' /\ n \in outEvents'
    BY <1>9, <1>15, <1>17
  <2>2. op.own = live[op.key]
    BY <1>1, <1>3, <1>17, SMTT(30) DEF MemoryOK, Remembered
  <2>3. \A m \in Names : m[1] = op.key => ~outs[m].there
    BY <1>1, <1>2, <1>4, <1>17, <2>2, NoOutput
  <2>4. r \in [name : Names, uid : Nat] /\ r.name = n
    BY <1>6, <1>8, <1>9, SMTT(30)
  <2>5. waiting \in [cond : Conditions, gen : Nat, ver : Nat]
    BY <1>4, <1>8, SMTT(30) DEF Conditions, BindingStates
  <2>6. /\ recorded \in BindingStates /\ Managed(live[op.key], recorded)
        /\ Sound(op.key, recorded) /\ recorded.rec = r
    <3>1. recorded \in BindingStates
      BY <1>4, <1>8, <2>4, <2>5, WrittenTyped
    <3>2. Managed(live[op.key], recorded) /\ recorded.rec = r
      <4>1. recorded = [op.own EXCEPT !.rec = r, !.status = waiting]
        BY <1>8
      <4>2. Managed(op.own, recorded)
        BY <1>4, <4>1, WrittenManaged
      <4>3. recorded.rec = r
        BY <1>4, <4>1, SMTT(30) DEF BindingStates
      <4>. QED
        BY <2>2, <4>2, <4>3
    <3>3. r.name[1] = op.key
      BY <1>6, <2>4
    <3>4. Sound(op.key, recorded)
      BY <1>4, <1>8, <1>13, <1>14, <3>3, SoundWritten
    <3>. QED
      BY <3>1, <3>2, <3>4
  <2>7. PICK f : f = [c \in {op.key} |-> recorded]
    OBVIOUS
  <2>8. DOMAIN f = {op.key} /\ f[op.key] = recorded /\ Store(f)
    BY <1>17, <2>7, SMTT(30)
  <2>9. /\ DOMAIN f \subseteq Bindings
        /\ \A c \in DOMAIN f : f[c] \in BindingStates /\ Visible(live[c], f[c]) /\ Sound(c, f[c])
    BY <1>4, <2>6, <2>8 DEF Managed, Visible
  <2>10. SoundStored' /\ VisibleEvents'
    BY <1>1, <1>2, <1>3, <2>8, <2>9, SoundStore, VisibleStore
  <2>11. live'[op.key] = recorded /\ \A c \in Bindings : c # op.key => live'[c] = live[c]
    BY <1>4, <2>8, StoreValue
  <2>12. \A c \in Bindings : Tracked(c)
    BY <2>1, <2>3, <2>11 DEF Tracked
  <2>13. LeadingCopies'
    BY <1>1, <1>2, <1>3, <2>1, <2>8, <2>9, <2>12, LeadingStore
  <2>14. Recorded'
    <3>1. outs'[n].uid = new.uid /\ live'[n[1]].rec = [name |-> n, uid |-> outs'[n].uid]
      BY <1>6, <1>8, <2>1, <2>6, <2>11
    <3>2. \A m \in Names : m # n /\ outs'[m].there =>
             live'[m[1]].rec = [name |-> m, uid |-> outs'[m].uid]
      BY <1>2, <2>1, <2>3, <2>11, Owner DEF Recorded
    <3>. QED
      BY <3>1, <3>2 DEF Recorded
  <2>15. \A i \in DOMAIN stream : i \in DOMAIN stream' /\ stream'[i] = stream[i]
    BY <1>1, <2>8, <2>9, Appended
  <2>16. \A m \in Names : m[1] = op.key /\ outs'[m].there => m = n
    BY <2>1, <2>3
  <2>17. outs'[n].there /\ outs'[n].ver = op.ver
    BY <1>9, <2>1
  <2>. QED
    BY <1>3, <1>5, <1>17, <2>1, <2>10, <2>11, <2>12, <2>13, <2>14, <2>15, <2>16, <2>17, WakeApplied
<1>. QED
  BY <1>11, <1>12, <1>16, <1>17

\* What becomes of the outputs when the recorded ones of some copies are deleted.
LEMMA DeletedOutputs ==
    ASSUME RestOK, \A b \in DOMAIN op.copies : Sound(b, op.copies[b]), NEW held,
           NEW done \in SUBSET DOMAIN op.copies, NEW some, some = [b \in done |-> op.copies[b]],
           SetOuts(Deleted(some, held))
    PROVE  /\ outEvents \subseteq outEvents'
           /\ \A n \in Names : outs'[n].there => outs[n].there /\ outs'[n].uid = outs[n].uid
           /\ \A n \in Names : n[1] \notin done => outs'[n] = outs[n]
           /\ \A b \in done, n \in Names :
                 Found(op.copies[b], outs) /\ op.copies[b].rec.name = n /\ outs'[n].there => outs'[n].dying
<1>1. outs' = Deleted(some, held) /\ outEvents \subseteq outEvents'
  BY DEF SetOuts
<1>2. DOMAIN some = done /\ \A b \in done : some[b] = op.copies[b]
  OBVIOUS
<1>3. ASSUME NEW n \in Names
      PROVE  /\ outs[n] \in OutputStates
             /\ [outs[n] EXCEPT !.dying = TRUE].there = outs[n].there
             /\ [outs[n] EXCEPT !.dying = TRUE].uid = outs[n].uid
             /\ [outs[n] EXCEPT !.dying = TRUE].dying
             /\ ~AbsentOutput(outs[n].uid).there
  <2>1. outs[n] \in OutputStates
    BY DEF RestOK
  <2>. QED
    BY <2>1, SMTT(30) DEF OutputStates, AbsentOutput
<1>4. ASSUME NEW n \in Names, \E b \in done : Found(op.copies[b], outs) /\ op.copies[b].rec.name = n
      PROVE  outs'[n] = [outs[n] EXCEPT !.dying = TRUE] \/ outs'[n] = AbsentOutput(outs[n].uid)
  BY <1>1, <1>2, <1>4, SMTT(30) DEF Deleted
<1>5. ASSUME NEW n \in Names, ~\E b \in done : Found(op.copies[b], outs) /\ op.copies[b].rec.name = n
      PROVE  outs'[n] = outs[n]
  BY <1>1, <1>2, <1>5, SMTT(30) DEF Deleted
<1>6. ASSUME NEW n \in Names, outs'[n].there PROVE outs[n].there /\ outs'[n].uid = outs[n].uid
  BY <1>3, <1>4, <1>5, <1>6
<1>7. ASSUME NEW n \in Names, n[1] \notin done PROVE outs'[n] = outs[n]
  <2>1. ~\E b \in done : Found(op.copies[b], outs) /\ op.copies[b].rec.name = n
    BY <1>7 DEF Found, Sound
  <2>. QED
    BY <1>5, <2>1
<1>8. ASSUME NEW b \in done, NEW n \in Names, Found(op.copies[b], outs), op.copies[b].rec.name = n, outs'[n].there
      PROVE  outs'[n].dying
  BY <1>3, <1>4, <1>8
<1>. QED
  BY <1>1, <1>6, <1>7, <1>8

\* An output that is withdrawn and not wanted is gone or going, or its event is under way.
LEMMA WithdrawnSettles ==
    ASSUME RestOK, Recorded, Recorded', UNCHANGED <<cache, pools, poolEvents>>, outEvents \subseteq outEvents',
           queue \subseteq queue', NEW c \in Bindings, NEW copy, cache[c].there,
           \A n \in Names : outs'[n].there => outs[n].there /\ outs'[n].uid = outs[n].uid,
           \A n \in Names : Found(copy, outs) /\ copy.rec.name = n /\ outs'[n].there => outs'[n].dying,
           Leads(c, copy) \/ c \in queue, Restless \/ Alarmed \/ ~Wanted(c)
    PROVE  Settling(c)'
<1>1. /\ Restless' <=> Restless
      /\ Wanted(c)' <=> Wanted(c)
      /\ Alarmed => Alarmed'
  BY ViewKept
<1>2. CASE Restless
  BY <1>1, <1>2 DEF Settling
<1>3. CASE Alarmed \/ c \in queue
  <2>1. c \in queue'
    BY <1>3 DEF Alarmed
  <2>. QED
    BY <2>1 DEF Settling
<1>4. CASE ~Wanted(c) /\ Leads(c, copy) /\ \E n \in Names : n[1] = c /\ outs'[n].there
  <2>1. PICK n \in Names : n[1] = c /\ outs'[n].there
    BY <1>4
  <2>2. outs[n].there /\ outs'[n].uid = outs[n].uid
    BY <2>1
  <2>3. live'[c].rec = live[c].rec
    BY <2>1, <2>2 DEF Recorded
  <2>4. live[c].rec # NoRec /\ live[c].rec.name = n /\ live[c].rec.uid = outs[n].uid
    BY <2>1, <2>2, HasOutput
  <2>5. copy.rec = live[c].rec \/ n \in outEvents
    BY <1>4, <2>1, <2>2 DEF Leads
  <2>6. copy.rec = live[c].rec => outs'[n].dying
    BY <2>1, <2>2, <2>4 DEF Found
  <2>. QED
    BY <2>3, <2>4, <2>5, <2>6 DEF Settling
<1>5. CASE ~Wanted(c) /\ ~\E n \in Names : n[1] = c /\ outs'[n].there
  <2>1. Right(c)'
    BY <1>1, <1>5 DEF Right
  <2>. QED
    BY <2>1 DEF Settling
<1>. QED
  BY <1>2, <1>3, <1>4, <1>5

\* The write of a binding is announced.
LEMMA Announced ==
    ASSUME StoreOK, NEW b \in Bindings, NEW x \in BindingStates, Store([c \in {b} |-> x])
    PROVE  \E i \in DOMAIN stream' : stream'[i].key = b /\ stream'[i].to = x
<1>1. PICK new, D : new = [c \in {b} |-> x] /\ D = DOMAIN new
  OBVIOUS
<1>2. D = {b} /\ new[b] = x /\ D \subseteq Bindings /\ \A c \in D : new[c] \in BindingStates
  BY <1>1, SMTT(30)
<1>4. PICK events : stream' = stream \o events /\ Announces(events, D, new)
  BY <1>1, <1>2, EventsStored
<1>5. Announces(events, D, new)
  BY <1>4, SMTT(30)
<1>6. events \in Seq(Events) /\ \E i \in DOMAIN events : events[i].key = b /\ events[i].to = x
  BY <1>2, <1>5 DEF Announces
<1>7. PICK i \in DOMAIN events : events[i].key = b /\ events[i].to = x
  BY <1>6
<1>8. stream \in Seq(Events)
  BY SMTT(30) DEF StoreOK
<1>9. Len(stream) + i \in DOMAIN stream' /\ stream'[Len(stream) + i] = events[i]
  BY <1>4, <1>6, <1>7, <1>8, SeqConcat, SeqElements, SMTT(30)
<1>. QED
  BY <1>7, <1>9

\* Once outputs are withdrawn, every binding is settling if the one under reconcile is
\* pursued or is not entitled to its output.
LEMMA WakeWithdrawn ==
    ASSUME WatchInvariant, WakeInvariant, op.pc = "withdraw", UNCHANGED <<cache, pools, poolEvents>>,
           NEW done \in SUBSET DOMAIN op.copies, NEW k, k = op.key,
           outEvents \subseteq outEvents', queue \subseteq queue', timers \subseteq timers',
           \A n \in Names : outs'[n].there => outs[n].there /\ outs'[n].uid = outs[n].uid,
           \A n \in Names : n[1] \notin done => outs'[n] = outs[n],
           \A b \in done, n \in Names :
              Found(op.copies[b], outs) /\ op.copies[b].rec.name = n /\ outs'[n].there => outs'[n].dying,
           SoundStored', VisibleEvents', Recorded', LeadingCopies', SoundMemory', DecisionOK',
           \A i \in DOMAIN stream : i \in DOMAIN stream' /\ stream'[i] = stream[i],
           \A c \in Bindings : c \notin done => live'[c].rec = live[c].rec,
           Pursued(k)' \/ k \in queue' \cup timers' \/ (k \in done /\ op.then \notin {"rename", "blocked"}),
           op.own.deleting => Finalized(k)'
    PROVE  WakeInvariant'
<1>1. StoreOK /\ MemoryOK /\ RestOK
  BY Parts
<1>2. /\ SoundStored /\ SoundMemory /\ VisibleEvents /\ Recorded
      /\ LeadingCopies /\ Attended /\ DecisionOK
  BY WakeParts
<1>3. op.pc # "idle" /\ Withdrawing(op)
  <2>1. op.pc # "idle"
    BY SMTT(30)
  <2>. QED
    BY <1>2, <2>1 DEF DecisionOK, Decided
<1>4. op.key \in Bindings /\ DOMAIN op.copies \subseteq Bindings
  BY <1>1, <1>3, MemoryKeys
<1>5. ASSUME NEW c \in done, cache[c].there, c # k \/ op.then \notin {"rename", "blocked"} PROVE Settling(c)'
  <2>1. Restless \/ Alarmed \/ ~Wanted(c)
    BY <1>3, <1>5 DEF Withdrawing
  <2>2. Leads(c, op.copies[c]) \/ c \in queue
    BY <1>3, <1>5 DEF Withdrawing
  <2>3. PICK copy : copy = op.copies[c]
    OBVIOUS
  <2>4. \A n \in Names : Found(copy, outs) /\ copy.rec.name = n /\ outs'[n].there => outs'[n].dying
    BY <2>3
  <2>. QED
    BY <1>1, <1>2, <1>4, <1>5, <2>1, <2>2, <2>3, <2>4, WithdrawnSettles
<1>6. ASSUME NEW c \in Bindings, cache[c].there PROVE Settling(c)'
  <2>1. CASE c = k /\ (Pursued(k)' \/ k \in queue' \cup timers')
    BY <2>1 DEF Settling
  <2>2. CASE c = k /\ k \in done /\ op.then \notin {"rename", "blocked"}
    BY <1>5, <1>6, <2>2
  <2>3. CASE c # k /\ c \in done
    BY <1>5, <1>6, <2>3
  <2>4. CASE c # k /\ c \notin done
    <3>1. SameOutputs(c) /\ ~Pursued(c)
      BY <2>4 DEF SameOutputs, Pursued
    <3>2. Settling(c)
      BY <1>2, <1>6 DEF Attended
    <3>3. c \in queue \cup timers => c \in queue' \cup timers'
      OBVIOUS
    <3>. QED
      BY <1>1, <1>2, <3>1, <3>2, <3>3, SettlingKept
  <2>. QED
    BY <2>1, <2>2, <2>3, <2>4
<1>7. ASSUME NEW c \in Bindings, cache[c].deleting PROVE Finalized(c)'
  <2>1. Finalized(c)
    BY <1>2, <1>7 DEF Attended
  <2>2. c \in queue \cup timers => c \in queue' \cup timers'
    OBVIOUS
  <2>. QED
    BY <2>1, <2>2, FinalizedKept
<1>8. Attended'
  BY <1>6, <1>7 DEF Attended
<1>. QED
  BY <1>8, WakeParts

\* Outputs are withdrawn: what is left of them is dying, and a reconcile that stops has
\* withdrawn what its binding is not entitled to.
LEMMA WakeWithdrawStep ==
    ASSUME WatchInvariant, WakeInvariant, NEW held \in BOOLEAN, NEW done \in SUBSET DOMAIN op.copies,
           NEW clear \in SUBSET DOMAIN op.copies, Withdraw(held, done, clear)
    PROVE  WakeInvariant'
<1>. DEFINE all == op.copies
            some == [b \in done |-> all[b]]
            gone(copies) == {b \in DOMAIN copies :
                                copies[b].rec # NoRec /\ ~Found(copies[b], Deleted(copies, held))}
            left == \E b \in DOMAIN all : Found(all[b], Deleted(all, held))
            cleared == [b \in clear |-> Cleared(all[b])]
            renamed == [op EXCEPT !.pc = "apply", !.copies = <<>>,
                                  !.own = IF op.key \in gone(all) THEN Cleared(@) ELSE @]
<1>1. StoreOK /\ MemoryOK /\ RestOK
  BY Parts
<1>2. /\ SoundStored /\ SoundMemory /\ VisibleEvents /\ Recorded
      /\ LeadingCopies /\ Attended /\ DecisionOK
  BY WakeParts
<1>3. /\ op.pc = "withdraw" /\ UNCHANGED <<cache, pools, poolEvents>>
      /\ clear \subseteq done /\ clear \subseteq gone(some) /\ clear \subseteq op.fresh
      /\ SetOuts(Deleted(some, held))
  BY DEF Withdraw
<1>4. op.pc # "idle" /\ op.pc # "decide" /\ op.pc # "status"
  BY <1>3, SMTT(30)
<1>5. PICK k \in Bindings : k = op.key
  BY <1>1, <1>4, MemoryKeys
<1>6. op \in Memories /\ op.own \in BindingStates
  BY <1>1, <1>4, MemoryFields
<1>7. PICK S \in SUBSET Bindings : all \in [S -> BindingStates]
  BY <1>6, CopiesMapped
<1>8. /\ op.own.there /\ op.own.fin /\ (Managed(cache[k], op.own) \/ Alarmed)
      /\ op.own.deleting => op.then = "finalize"
      /\ Withdrawing(op) /\ (op.then = "rename" => Applying(op))
  BY <1>2, <1>3, <1>4, <1>5 DEF DecisionOK, Decided
<1>9. Sound(k, op.own) /\ \A b \in DOMAIN all : Sound(b, all[b])
  BY <1>2, <1>4, <1>5 DEF SoundMemory
<1>10. /\ outEvents \subseteq outEvents'
       /\ \A n \in Names : outs'[n].there => outs[n].there /\ outs'[n].uid = outs[n].uid
       /\ \A n \in Names : n[1] \notin done => outs'[n] = outs[n]
       /\ \A b \in done, n \in Names :
             Found(op.copies[b], outs) /\ op.copies[b].rec.name = n /\ outs'[n].there => outs'[n].dying
  <2>1. PICK s : s = some
    OBVIOUS
  <2>. QED
    BY <1>1, <1>3, <1>9, <2>1, DeletedOutputs
<1>11. outs' = Deleted(some, held) /\ (done = DOMAIN all => some = all)
  <2>1. outs' = Deleted(some, held)
    BY <1>3 DEF SetOuts
  <2>2. done = DOMAIN all => some = all
    BY <1>7
  <2>. QED
    BY <2>1, <2>2
<1>12. ASSUME NEW b \in Bindings, ~Found(live[b], outs') PROVE \A n \in Names : n[1] = b => ~outs'[n].there
  <2>. SUFFICES ASSUME NEW n \in Names, n[1] = b, outs'[n].there PROVE FALSE
    OBVIOUS
  <2>1. outs[n].there /\ outs'[n].uid = outs[n].uid
    BY <1>10
  <2>2. live[b].rec # NoRec /\ live[b].rec.name = n /\ live[b].rec.uid = outs[n].uid
    BY <1>1, <1>2, <2>1, HasOutput
  <2>. QED
    BY <1>12, <2>1, <2>2 DEF Found
<1>13. ASSUME NEW b \in clear
       PROVE  /\ b \in Bindings /\ all[b] = live[b]
              /\ \A n \in Names : n[1] = b => ~outs'[n].there
  <2>1. b \in Bindings /\ b \in DOMAIN op.copies \cap op.fresh
    BY <1>3, <1>7
  <2>2. all[b] = live[b]
    BY <1>1, <1>3, <2>1 DEF MemoryOK, Remembered
  <2>3. b \in done /\ ~Found(some[b], Deleted(some, held))
    BY <1>3
  <2>4. ~Found(live[b], outs')
    BY <1>11, <2>2, <2>3
  <2>. QED
    BY <1>12, <2>1, <2>2, <2>4
<1>14. ASSUME Store(cleared)
       PROVE  /\ SoundStored' /\ VisibleEvents' /\ Recorded' /\ LeadingCopies'
              /\ \A b \in Bindings : Tracked(b)
              /\ \A c \in Bindings : c \notin done => live'[c].rec = live[c].rec
              /\ \A i \in DOMAIN stream : i \in DOMAIN stream' /\ stream'[i] = stream[i]
  <2>1. PICK new : new = cleared
    OBVIOUS
  <2>2. DOMAIN new = clear /\ Store(new) /\ \A b \in clear : new[b] = Cleared(live[b])
    BY <1>13, <1>14, <2>1
  <2>3. DOMAIN new \subseteq Bindings
    BY <1>13, <2>2
  <2>4. \A b \in DOMAIN new : \A n \in Names : n[1] = b => ~outs'[n].there
    BY <1>13, <2>2
  <2>5. /\ SoundStored' /\ VisibleEvents' /\ Recorded' /\ LeadingCopies'
        /\ \A b \in Bindings : Tracked(b)
        /\ \A b \in Bindings : b \notin DOMAIN new => live'[b] = live[b]
        /\ \A i \in DOMAIN stream : i \in DOMAIN stream' /\ stream'[i] = stream[i]
    BY <1>1, <1>2, <1>3, <1>10, <2>2, <2>3, <2>4, ClearedStore
  <2>. QED
    BY <1>3, <2>2, <2>5
<1>15. \/ Store(cleared) /\ Fail
       \/ /\ op.then = "finalize" /\ ~left /\ done = DOMAIN all /\ op.key \in op.fresh
          /\ Store([b \in {op.key} |-> AbsentBinding]) /\ Return("stop")
       \/ Store(cleared) /\ \E after \in {"timer", "retry"} : Return(after)
       \/ /\ op.then = "rename" /\ ~left /\ done = DOMAIN all /\ clear = gone(all)
          /\ Store(cleared) /\ op' = renamed /\ UNCHANGED <<queue, timers>>
       \/ /\ Store(cleared) /\ op.then # "finalize"
          /\ \E cond, after : /\ Finish(cond, after)
                              /\ \/ after # "stop"
                                 \/ done = DOMAIN all /\ op.then \notin {"rename", "blocked"}
  <2>1. PICK l : l = left
    OBVIOUS
  <2>2. /\ After("blocked", l) # "stop"
        /\ l => After("rename", l) # "stop" /\ After("finalize", l) = "timer"
    BY SMTT(30) DEF After
  <2>3. /\ "rename" # "finalize" /\ "clean" # "finalize" /\ "blocked" # "finalize" /\ "conflict" # "finalize"
        /\ "clean" \notin {"rename", "blocked"} /\ "conflict" \notin {"rename", "blocked"}
    BY SMTT(30)
  <2>. QED
    BY <2>1, <2>2, <2>3 DEF Withdraw
<1>16. ASSUME Store(cleared), NEW cond, NEW after, Finish(cond, after), op.own.deleting => after = "retry",
              after # "stop" \/ (done = DOMAIN all /\ op.then \notin {"rename", "blocked"})
       PROVE  WakeInvariant'
  <2>1. /\ DecisionOK' /\ SoundMemory'
        /\ op'.pc = "status" /\ op'.key = op.key /\ op'.own = op.own /\ op'.after = after
        /\ queue' = queue /\ timers' = timers
    BY <1>1, <1>2, <1>3, <1>4, <1>10, <1>14, <1>16, Finished
  <2>2. k \in DOMAIN all
    BY <1>5, <1>8 DEF Withdrawing
  <2>3. Pursued(k)' \/ (k \in done /\ op.then \notin {"rename", "blocked"})
    BY <1>5, <1>16, <2>1, <2>2 DEF Pursued
  <2>4. op.own.deleting => Finalized(k)'
    <3>1. op'.pc # "idle"
      BY <2>1, SMTT(30)
    <3>. QED
      BY <1>5, <2>1, <3>1 DEF Finalized
  <2>5. queue \subseteq queue' /\ timers \subseteq timers'
    BY <2>1
  <2>. QED
    BY <1>3, <1>5, <1>10, <1>14, <1>16, <2>1, <2>3, <2>4, <2>5, WakeWithdrawn
<1>17. CASE Store(cleared) /\ Fail
  BY <1>16, <1>17, SMTT(30) DEF Fail
<1>18. CASE /\ Store(cleared) /\ op.then # "finalize"
            /\ \E cond, after : /\ Finish(cond, after)
                                /\ \/ after # "stop"
                                   \/ done = DOMAIN all /\ op.then \notin {"rename", "blocked"}
  BY <1>8, <1>16, <1>18
<1>19. ASSUME NEW after, Return(after)
       PROVE  /\ SoundMemory' /\ DecisionOK' /\ queue \subseteq queue' /\ timers \subseteq timers'
              /\ after \in {"timer", "retry"} => k \in queue' \cup timers'
  <2>1. /\ op' = Idle
        /\ queue' = IF after = "retry" THEN queue \cup {op.key} ELSE queue
        /\ timers' = IF after = "timer" THEN timers \cup {op.key} ELSE timers
    BY <1>19 DEF Return
  <2>2. op'.pc = "idle"
    BY <2>1 DEF Idle
  <2>3. SoundMemory' /\ DecisionOK'
    BY <2>2 DEF SoundMemory, DecisionOK
  <2>. QED
    BY <1>5, <2>1, <2>3
<1>20. CASE Store(cleared) /\ \E after \in {"timer", "retry"} : Return(after)
  <2>1. /\ SoundMemory' /\ DecisionOK' /\ queue \subseteq queue' /\ timers \subseteq timers'
        /\ k \in queue' \cup timers'
    BY <1>19, <1>20
  <2>2. Finalized(k)'
    BY <2>1 DEF Finalized
  <2>. QED
    BY <1>3, <1>5, <1>10, <1>14, <1>20, <2>1, <2>2, WakeWithdrawn
<1>21. ASSUME done = DOMAIN all, ~left, op.then \in {"finalize", "rename"}
       PROVE  DOMAIN all = {k} /\ all[k] = op.own /\ ~Found(op.own, outs')
  <2>1. DOMAIN all = {k} /\ all[k] = op.own
    BY <1>1, <1>3, <1>5, <1>21 DEF MemoryOK, Remembered
  <2>2. outs' = Deleted(all, held)
    BY <1>11, <1>21
  <2>3. ~Found(all[k], Deleted(all, held))
    BY <1>21, <2>1
  <2>. QED
    BY <2>1, <2>2, <2>3
<1>22. CASE /\ op.then = "finalize" /\ ~left /\ done = DOMAIN all /\ op.key \in op.fresh
            /\ Store([b \in {op.key} |-> AbsentBinding]) /\ Return("stop")
  <2>1. DOMAIN all = {k} /\ all[k] = op.own /\ ~Found(op.own, outs')
    BY <1>21, <1>22
  <2>2. all[k] = live[k]
    <3>1. k \in DOMAIN all \cap op.fresh
      BY <1>5, <1>22, <2>1
    <3>. QED
      BY <1>1, <1>3, <3>1 DEF MemoryOK, Remembered
  <2>3. \A n \in Names : n[1] = k => ~outs'[n].there
    BY <1>12, <2>1, <2>2
  <2>4. AbsentBinding \in BindingStates /\ Sound(k, AbsentBinding) /\ ~AbsentBinding.there
    <3>1. AbsentBinding \in BindingStates /\ ~AbsentBinding.there
      BY AbsentTyped DEF AbsentBinding
    <3>2. PICK s \in Specs : TRUE
      BY <1>6 DEF BindingStates
    <3>. QED
      BY <3>1, <3>2, SoundNew
  <2>5. Visible(live[k], AbsentBinding)
    <3>1. live[k] = op.own
      BY <2>1, <2>2
    <3>2. live[k].there
      BY <1>8, <3>1
    <3>3. live[k].there # AbsentBinding.there
      BY <2>4, <3>2
    <3>. QED
      BY <3>3 DEF Visible, Passes
  <2>6. PICK new : new = [b \in {k} |-> AbsentBinding] /\ Store(new)
    BY <1>5, <1>22
  <2>7. DOMAIN new = {k} /\ new[k] = AbsentBinding
    BY <2>6
  <2>8. /\ SoundStored' /\ VisibleEvents' /\ Recorded' /\ LeadingCopies'
        /\ \A b \in Bindings : b \notin DOMAIN new => live'[b] = live[b]
        /\ \A i \in DOMAIN stream : i \in DOMAIN stream' /\ stream'[i] = stream[i]
    <3>1. DOMAIN new \subseteq Bindings
      BY <2>7
    <3>2. /\ \A b \in DOMAIN new : new[b] \in BindingStates /\ Visible(live[b], new[b]) /\ Sound(b, new[b])
          /\ \A b \in DOMAIN new : \A n \in Names : n[1] = b => ~outs'[n].there
      BY <2>3, <2>4, <2>5, <2>7
    <3>. QED
      BY <1>1, <1>2, <1>3, <1>10, <2>6, <3>1, <3>2, EmptyStore
  <2>9. /\ SoundMemory' /\ DecisionOK' /\ queue \subseteq queue' /\ timers \subseteq timers'
    BY <1>19, <1>22
  <2>10. Finalized(k)'
    <3>1. \E i \in DOMAIN stream' : stream'[i].key = k /\ stream'[i].to = AbsentBinding
      BY <1>1, <1>5, <1>22, <2>4, Announced
    <3>. QED
      BY <2>4, <3>1 DEF Finalized
  <2>11. \A c \in Bindings : c \notin done => live'[c].rec = live[c].rec
    BY <1>22, <2>1, <2>7, <2>8
  <2>12. k \in done /\ op.then \notin {"rename", "blocked"}
    BY <1>22, <2>1, SMTT(30)
  <2>. QED
    BY <1>3, <1>5, <1>10, <2>8, <2>9, <2>10, <2>11, <2>12, WakeWithdrawn
<1>23. CASE /\ op.then = "rename" /\ ~left /\ done = DOMAIN all /\ clear = gone(all)
            /\ Store(cleared) /\ op' = renamed /\ UNCHANGED <<queue, timers>>
  <2>1. DOMAIN all = {k} /\ all[k] = op.own /\ ~Found(op.own, outs')
    BY <1>21, <1>23
  <2>2. op.own.rec # NoRec
    BY <1>8, <1>23 DEF Withdrawing
  <2>3. k \in gone(all)
    <3>1. outs' = Deleted(all, held)
      BY <1>11, <1>23
    <3>. QED
      BY <2>1, <2>2, <3>1
  <2>4. PICK own : own = Cleared(op.own)
    OBVIOUS
  <2>5. PICK o : o = op'
    OBVIOUS
  <2>6. o = [op EXCEPT !.pc = "apply", !.copies = <<>>, !.own = own]
    <3>1. op' = [op EXCEPT !.pc = "apply", !.copies = <<>>,
                           !.own = IF op.key \in gone(all) THEN Cleared(@) ELSE @]
      BY <1>23
    <3>. HIDE DEF gone
    <3>. QED
      BY <1>5, <2>3, <2>4, <2>5, <3>1, SMTT(30)
  <2>7. o.pc = "apply" /\ o.key = k /\ o.own = own /\ o.copies = <<>> /\ o.ver = op.ver
    BY <1>5, <1>6, <2>6 DEF Memories
  <2>8. /\ own.rec = NoRec /\ own.there /\ own.fin /\ own.spec = op.own.spec /\ own.deleting = op.own.deleting
        /\ Sound(k, own) /\ Managed(op.own, own)
    <3>1. /\ own.rec = NoRec /\ own.there = op.own.there /\ own.fin = op.own.fin
          /\ own.spec = op.own.spec /\ own.deleting = op.own.deleting
      BY <1>6, <2>4, WrittenFields
    <3>2. Sound(k, own)
      BY <1>6, <1>9, <2>4, SoundWritten
    <3>3. Managed(op.own, own)
      BY <1>6, <2>4, WrittenManaged
    <3>. QED
      BY <1>8, <3>1, <3>2, <3>3
  <2>9. ~op.own.deleting
    BY <1>8, <1>23, SMTT(30)
  <2>10. \A n \in Names : n[1] = k => ~outs'[n].there
    BY <1>13, <1>23, <2>3
  <2>11. Leads(k, own)'
    BY <2>10 DEF Leads
  <2>12. /\ Restless' <=> Restless
         /\ \A b : Wanted(b)' <=> Wanted(b)
         /\ Alarmed => Alarmed'
    BY <1>3, <1>23, ViewKept
  <2>13. Managed(cache'[k], own) \/ Alarmed'
    BY <1>3, <1>8, <2>8, <2>12 DEF Managed
  <2>14. Applying(o)'
    <3>1. Restless' \/ Alarmed' \/ (Wanted(k)' /\ op.ver = pools'[own.spec.pool])
      BY <1>3, <1>5, <1>8, <1>23, <2>8, <2>12 DEF Applying
    <3>. QED
      BY <2>7, <3>1 DEF Applying
  <2>15. Decided(o)'
    <3>1. o.pc # "withdraw"
      BY <2>7, SMTT(30)
    <3>2. Managed(cache'[o.key], o.own) \/ Alarmed'
      BY <2>7, <2>13
    <3>3. Leads(o.key, o.own)'
      BY <2>7, <2>11, SMTT(30) DEF Leads
    <3>4. o.own.there /\ o.own.fin /\ ~o.own.deleting /\ o.own.rec = NoRec
      BY <2>7, <2>8, <2>9
    <3>. QED
      BY <2>14, <3>1, <3>2, <3>3, <3>4 DEF Decided, Managed
  <2>16. DecisionOK'
    BY <2>5, <2>15, DecisionNext
  <2>17. SoundMemory'
    <3>1. DOMAIN o.copies = {}
      BY <2>7, SMTT(30)
    <3>. QED
      BY <2>5, <2>7, <2>8, <3>1 DEF SoundMemory
  <2>18. Pursued(k)'
    BY <2>5, <2>7 DEF Pursued
  <2>19. queue \subseteq queue' /\ timers \subseteq timers'
    BY <1>23
  <2>. QED
    BY <1>3, <1>5, <1>10, <1>14, <1>23, <2>9, <2>16, <2>17, <2>18, <2>19, WakeWithdrawn
<1>. QED
  BY <1>15, <1>17, <1>18, <1>20, <1>22, <1>23

-----------------------------------------------------------------------------
(* No wake-up is lost. *)

\* At the start all bindings are queued and there are no outputs.
LEMMA WakeInit == ASSUME Init PROVE WakeInvariant
<1>1. /\ cache = live /\ stream = <<>> /\ op = Idle /\ queue = {b \in Bindings : live[b].there}
      /\ outs = [n \in Names |-> AbsentOutput(0)]
  BY DEF Init, PeerRequests
<1>2. DOMAIN stream = {}
  BY <1>1, SMTT(30)
<1>3. \A n \in Names : ~outs[n].there
  BY <1>1, SMTT(30) DEF AbsentOutput
<1>4. op.pc = "idle"
  BY <1>1 DEF Idle
<1>5. ASSUME NEW b \in Bindings PROVE Sound(b, live[b]) /\ ~live[b].deleting
  <2>1. live[b] = AbsentBinding \/ \E s \in Specs : live[b] = NewBinding(s)
    BY SMTT(30) DEF Init
  <2>2. ~AbsentBinding.deleting /\ \A s : ~NewBinding(s).deleting
    BY SMTT(30) DEF AbsentBinding, NewBinding
  <2>3. \A s \in Specs : Sound(b, AbsentBinding) /\ Sound(b, NewBinding(s))
    BY SoundNew
  <2>4. Specs # {}
    BY NewTyped, AbsentTyped DEF BindingStates
  <2>. QED
    BY <2>1, <2>2, <2>3, <2>4
<1>6. SoundStored
  BY <1>1, <1>2, <1>5 DEF SoundStored
<1>7. SoundMemory /\ DecisionOK
  BY <1>4 DEF SoundMemory, DecisionOK
<1>8. VisibleEvents
  BY <1>2 DEF VisibleEvents
<1>9. Recorded /\ LeadingCopies
  BY <1>2, <1>3 DEF Recorded, LeadingCopies, Leads
<1>10. Attended
  <2>1. \A b \in Bindings : cache[b].there => Settling(b)
    BY <1>1 DEF Settling
  <2>2. \A b \in Bindings : ~cache[b].deleting
    BY <1>1, <1>5
  <2>. QED
    BY <2>1, <2>2 DEF Attended
<1>. QED
  BY <1>6, <1>7, <1>8, <1>9, <1>10, WakeParts

\* Every step keeps it, unless an event of an output overtakes that of its record.
LEMMA WakeNext == ASSUME ~Overtaking, WatchInvariant, WakeInvariant, [Next]_vars PROVE WakeInvariant'
<1>1. ASSUME Work PROVE WakeInvariant'
  <2>1. CASE DecideAlone \/ DecideAmongPeers \/ Apply \/ PatchStatus
    BY <2>1, WakeDecideAloneStep, WakeDecideAmongPeersStep, WakeApplyStep, WakePatchStatusStep
  <2>2. CASE \E held \in BOOLEAN, done, clear \in SUBSET DOMAIN op.copies : Withdraw(held, done, clear)
    BY <2>2, WakeWithdrawStep
  <2>. QED
    BY <1>1, <2>1, <2>2 DEF Work, Decide
<1>2. ASSUME Deliver PROVE WakeInvariant'
  BY <1>2, WakeDeliverBindingStep, WakePoolStep, WakeDeliverOutputStep, WakeExpireStep DEF Deliver
<1>3. ASSUME Changes PROVE WakeInvariant'
  BY <1>3, WakeBindingStep, WakeChangePoolStep, WakeTouchStep, WakeRestartStep DEF Changes
<1>4. ASSUME UNCHANGED vars PROVE WakeInvariant'
  <2>1. UNCHANGED <<live, cache, stream, pools, poolEvents, outs, outEvents, queue, timers, op>>
    BY <1>4 DEF vars
  <2>2. /\ SoundStored /\ SoundMemory /\ VisibleEvents /\ Recorded
        /\ LeadingCopies /\ Attended /\ DecisionOK
    BY WakeParts
  <2>3. StoreOK /\ MemoryOK
    BY Parts
  <2>4. SoundStored' /\ VisibleEvents'
    BY <2>1, <2>2, EventsKept
  <2>5. SoundMemory' /\ Recorded' /\ LeadingCopies'
    BY <2>1, <2>2 DEF SoundMemory, Recorded, LeadingCopies, Leads
  <2>6. \A b \in Bindings : Tracked(b) /\ SameOutputs(b)
    BY <2>1 DEF Tracked, SameOutputs
  <2>7. DecisionOK'
    BY <2>1, <2>2, <2>3, <2>6, DecisionKept
  <2>8. Attended'
    <3>1. \A b \in Bindings : Pursued(b) => Pursued(b)'
      BY <2>1 DEF Pursued
    <3>2. \A b \in Bindings : op.key = b /\ op.pc # "idle" /\ op.own.deleting => Finalized(b)'
      BY <2>1 DEF Finalized
    <3>. QED
      BY <2>1, <2>2, <2>3, <2>6, <3>1, <3>2, AttendedKept
  <2>. QED
    BY <2>4, <2>5, <2>7, <2>8, WakeParts
<1>. QED
  BY <1>1, <1>2, <1>3, <1>4, WakeFetchStep, WakeTouchStep DEF Next

\* With nothing left to wake the reconciler, the cache shows what is stored and no binding
\* is merely on its way to what it is entitled to.
LEMMA WakeQuiet == ASSUME WatchInvariant, WakeInvariant PROVE NoLostWakeup
<1>. SUFFICES ASSUME Quiescent, NEW b \in Bindings PROVE Converged(b)
  BY DEF NoLostWakeup
<1>1. StoreOK /\ MemoryOK /\ RestOK
  BY Parts
<1>2. SoundStored /\ Recorded /\ Attended
  BY WakeParts
<1>3. /\ stream = <<>> /\ poolEvents = {} /\ outEvents = {}
      /\ queue = {} /\ timers = {} /\ op.pc = "idle"
      /\ \A n \in Names : ~outs[n].dying
  BY DEF Quiescent
<1>4. DOMAIN stream = {} /\ ~(op.pc \in {"decide", "withdraw", "apply"}) /\ op.pc # "status"
  BY <1>3, SMTT(30)
<1>5. \A c \in Bindings : cache[c] = live[c]
  BY <1>1, <1>4 DEF StoreOK, Streamed, CacheFresh
<1>6. \A c \in Bindings : ~cache[c].deleting
  <2>1. \A c \in Bindings : ~Finalized(c)
    BY <1>3, <1>4 DEF Finalized
  <2>. QED
    BY <1>2, <2>1 DEF Attended
<1>7. ~Restless
  BY <1>3, <1>6 DEF Restless
<1>8. Wanted(b) <=> Entitled(b)
  <2>1. \A c \in Bindings : Renders(cache[c]) <=> Renders(live[c])
    BY <1>5
  <2>. QED
    BY <1>5, <2>1 DEF Wanted, Entitled
<1>9. CASE cache[b].there
  <2>1. Settling(b)
    BY <1>2, <1>9 DEF Attended
  <2>2. live[b].rec # NoRec => live[b].rec.name \in Names
    BY <1>1, <1>2, RecordNamed
  <2>3. Right(b)
    BY <1>3, <1>4, <1>7, <2>1, <2>2 DEF Settling, Pursued
  <2>. QED
    BY <1>5, <1>6, <1>8, <2>3 DEF Right, Converged
<1>10. CASE ~cache[b].there
  <2>1. ~live[b].there /\ live[b].rec = NoRec /\ ~live[b].deleting
    BY <1>2, <1>5, <1>6, <1>10 DEF SoundStored, Sound
  <2>2. \A n \in Names : n[1] = b => ~outs[n].there
    BY <1>1, <1>2, <2>1, HasOutput
  <2>3. ~Entitled(b)
    BY <2>1 DEF Entitled
  <2>. QED
    BY <2>1, <2>2, <2>3 DEF Converged
<1>. QED
  BY <1>9, <1>10

\* As long as no event of an output overtakes that of the record of it, every binding in
\* the cache has the output that the cache calls for, or an event, a timer or a reconcile
\* leads to it, for any bindings, pools, lag, changes and restarts.
THEOREM WakeInductive == ~Overtaking => (Spec => []WakeInvariant)
<1>. SUFFICES ASSUME ~Overtaking PROVE Spec => []WakeInvariant
  OBVIOUS
<1>1. Init => WakeInvariant
  BY WakeInit, SMTT(30)
<1>2. WatchInvariant /\ WakeInvariant /\ [Next]_vars => WakeInvariant'
  BY WakeNext
<1>. QED
  BY <1>1, <1>2, WatchInductive, PTL DEF Spec

\* No wake-up is lost: when there are no events, timers or requests left, every binding has
\* the output it is entitled to and no other.
THEOREM WakeUps == ~Overtaking => (Spec => []NoLostWakeup)
<1>. SUFFICES ASSUME ~Overtaking PROVE Spec => []NoLostWakeup
  BY SMTT(30)
<1>1. WatchInvariant /\ WakeInvariant => NoLostWakeup
  BY WakeQuiet, SMTT(30)
<1>. QED
  BY <1>1, WatchInductive, WakeInductive, PTL

=============================================================================
