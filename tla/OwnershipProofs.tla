-------------------------- MODULE OwnershipProofs --------------------------
(***************************************************************************)
(* That the reconciler implements OutputOwnership, for every value of the  *)
(* constants.                                                              *)
(***************************************************************************)
EXTENDS OwnershipRefinement, BindingReconcilerProofs

-----------------------------------------------------------------------------
(* Every step of the reconciler is one of OutputOwnership, or changes nothing there. *)

\* The abstract record of one binding is set.
LEMMA RecordSet ==
    ASSUME NEW b \in Bindings, OnlyRecord(b) PROVE Ownership!SetRecord(b)
BY ZenonT(60) DEF OnlyRecord, Ownership!SetRecord

\* Replacing the claim by the UID that was observed (Confirm).
LEMMA ConfirmImplements ==
    ASSUME RefinementInvariant, NEW r, Confirm(r), live' # live
    PROVE  \E b \in Bindings : Ownership!Confirm(b)
<1>1. PICK b \in Bindings, n \in Names, u \in Nat :
         /\ b = Target(op.who) /\ Copy(op, op.who) = live[b] /\ OnlyRecord(b)
         /\ live[b].rec.kind = "pending" /\ live[b].rec.name = n
         /\ live'[b].rec = Confirmed(n, u) /\ u = op.seen.uid /\ u < nextUid
         /\ object[n].there /\ object[n].uid = u => object[n].claim = live[b].rec.claim
  BY ConfirmWrites, ZenonT(60)
<1>2. ReconcilerInvariant /\ op.pc = "confirm" /\ UNCHANGED <<object, nextUid, nextClaim>>
  BY DEF RefinementInvariant, Confirm
<1>3. live'[b].rec.kind = "confirmed" /\ live'[b].rec.name = n /\ live'[b].rec.uid = u
  BY <1>1, ConfirmedFields, SMTT(30)
<1>4. ~LateCreates /\ object[n].own /\ object[n].there /\ object[n].claim = live[b].rec.claim
      => object[n].uid = u
  BY <1>1, <1>2, ZenonT(60) DEF ReconcilerInvariant, Pursued, Matches
<1>5. Ownership!SetRecord(b)
  BY <1>1, RecordSet, ZenonT(60)
<1>6. Ownership!Confirm(b)
  BY <1>1, <1>2, <1>3, <1>4, <1>5, ZenonT(60) DEF Ownership!Confirm, Ownership!Claimed
<1>. QED
  BY <1>6, SMTT(30)

\* Dropping a record of what is gone (Clear).
LEMMA ClearImplements ==
    ASSUME RefinementInvariant, NEW r, Clear(r), live' # live
    PROVE  \E b \in Bindings : Ownership!Release(b)
<1>1. ReconcilerInvariant /\ op.pc = "clear" /\ UNCHANGED <<object, nextUid, nextClaim>>
  BY DEF RefinementInvariant, Clear
<1>2. PICK b \in Bindings :
         /\ b = Target(op.who) /\ Copy(op, op.who) = live[b] /\ OnlyRecord(b)
         /\ live[b].rec.kind # "unclaimed" /\ live'[b].rec = Unclaimed
  BY <1>1, ClearWrites, ZenonT(60)
<1>3. PICK n \in {live[b].rec.name} : n = live[b].rec.name
  BY ZenonT(60)
<1>4. live'[b].rec.kind = "unclaimed"
  BY <1>2, UnclaimedFields, ZenonT(60)
<1>5. ~(object[n].there /\ live[b].rec.kind = "confirmed" /\ object[n].uid = live[b].rec.uid)
  BY <1>1, <1>2, <1>3, ZenonT(60) DEF ReconcilerInvariant, Pursued, Matches
<1>6. ~LateCreates => ~(/\ object[n].own /\ object[n].there /\ live[b].rec.kind = "pending"
                        /\ object[n].claim = live[b].rec.claim)
  BY <1>1, <1>2, <1>3, ZenonT(60) DEF ReconcilerInvariant, Pursued, Matches
<1>7. Ownership!SetRecord(b)
  BY <1>2, RecordSet, ZenonT(60)
<1>8. Ownership!Release(b)
  BY <1>1, <1>2, <1>3, <1>4, <1>5, <1>6, <1>7, ZenonT(60)
     DEF Ownership!Release, Ownership!Claimed, Ownership!Recorded
<1>. QED
  BY <1>8

\* Storing a fresh claim (Reserve).
LEMMA ReserveImplements ==
    ASSUME RefinementInvariant, NEW r, Reserve(r), live' # live
    PROVE  \E b \in Bindings : Ownership!Reserve(b)
<1>1. ReconcilerInvariant
  BY DEF RefinementInvariant
<1>2. PICK b \in Bindings, n \in Names :
         /\ b = op.key /\ op.main = live[b] /\ OnlyRecord(b)
         /\ live[b].rec = Unclaimed
         /\ live'[b].rec = Pending(n, [by |-> b, no |-> nextClaim])
  BY <1>1, ReserveWrites, ZenonT(60)
<1>3. PICK claim : claim = [by |-> b, no |-> nextClaim]
  OBVIOUS
<1>4. live'[b].rec.kind = "pending" /\ live'[b].rec.name = n /\ live'[b].rec.claim = claim
  BY <1>2, <1>3, PendingFields, SMTT(30)
<1>5. live[b].rec.kind = "unclaimed"
  BY <1>2, UnclaimedFields, ZenonT(60)
<1>6. UNCHANGED <<object, nextUid>> /\ nextClaim' = nextClaim + 1
  BY Zenon DEF Reserve
<1>7. Ownership!SetRecord(b)
  BY <1>2, RecordSet, SMTT(30)
<1>8. Ownership!Reserve(b)
  BY <1>3, <1>4, <1>5, <1>6, <1>7, ZenonT(60) DEF Ownership!Reserve
<1>. QED
  BY <1>8

\* A write to one object that is there, under a record that confirms it.
LEMMA ChangeImplements ==
    ASSUME ReconcilerInvariant, NEW b \in Bindings, NEW n \in Names, NEW new,
           object[n].there, live[b].rec = Confirmed(n, object[n].uid),
           object' = [object EXCEPT ![n] = new],
           ~new.there \/ (/\ new.there /\ new.uid = object[n].uid /\ new.claim = object[n].claim
                          /\ new.own = object[n].own),
           UNCHANGED <<live, nextUid, nextClaim>>
    PROVE  Ownership!Change(b, n)
<1>1. object'[n] = new
  BY ObjectFacts, SMTT(30)
<1>2. live[b].rec.kind = "confirmed" /\ live[b].rec.name = n /\ live[b].rec.uid = object[n].uid
  BY ConfirmedFields
<1>3. Ownership!SetOutput(n)
  BY <1>1, ZenonT(60) DEF Ownership!SetOutput
<1>. QED
  BY <1>1, <1>2, <1>3, ZenonT(60) DEF Ownership!Change, Ownership!Recorded, Ownership!SameIncarnation

\* cleanupManagedClusterSPIFFEIDs is Change.
LEMMA DeleteImplements ==
    ASSUME ReconcilerInvariant, NEW r, Delete(r), object' # object
    PROVE  \E b \in Bindings, n \in Names : Ownership!Change(b, n)
<1>. DEFINE c == Copy(op, op.who)
<1>1. op.key \in Bindings /\ c.rec = Confirmed(c.rec.name, op.seen.uid)
  BY OpFacts, ZenonT(60) DEF Delete, Shape
<1>2. Target(op.who) \in Bindings /\ IsCopy(c, Target(op.who))
  BY <1>1, PursuedCopy, Zenon
<1>3. c.rec.kind = "confirmed" /\ c.rec \in Records
  <2>1. Confirmed(c.rec.name, op.seen.uid).kind = "confirmed"
    BY ConfirmedFields
  <2>. QED
    BY <1>1, <2>1, PursuedCopy, ZenonT(60)
<1>4. PICK b \in Bindings, n \in Names : b = Target(op.who) /\ n = c.rec.name
  BY <1>2, <1>3, ZenonT(60) DEF Records, WellFormed
<1>5. /\ object[n].there /\ object[n].uid = op.seen.uid
      /\ \/ object' = [object EXCEPT ![n].dying = TRUE]
         \/ object' = [object EXCEPT ![n] = AbsentObject]
  BY <1>4, Zenon DEF Delete
<1>6. c.rec = Confirmed(n, object[n].uid)
  BY <1>1, <1>4, <1>5, ZenonT(60)
<1>7. live[b].rec = Confirmed(n, object[n].uid)
  BY <1>2, <1>4, <1>5, <1>6, ZenonT(60) DEF IsCopy
<1>8. UNCHANGED <<live, nextUid, nextClaim>>
  BY DEF Delete
<1>9. CASE object' = [object EXCEPT ![n].dying = TRUE]
  <2>1. PICK new : new = [object[n] EXCEPT !.dying = TRUE]
    BY ZenonT(60)
  <2>2. /\ new.there /\ new.uid = object[n].uid /\ new.claim = object[n].claim
        /\ new.own = object[n].own
    BY <1>5, <2>1, ObjectFacts, SMTT(30) DEF ObjectStates
  <2>3. object' = [object EXCEPT ![n] = new]
    BY <1>9, <2>1, Zenon
  <2>. QED
    BY <1>5, <1>7, <1>8, <2>2, <2>3, ChangeImplements, ZenonT(60)
<1>10. CASE object' = [object EXCEPT ![n] = AbsentObject]
  <2>1. PICK new : new = AbsentObject
    OBVIOUS
  <2>. QED
    BY <1>5, <1>7, <1>8, <1>10, <2>1, AbsentObjectType, ChangeImplements, ZenonT(60)
<1>. QED
  BY <1>5, <1>9, <1>10, ZenonT(60)

\* updateManagedClusterSPIFFEID is Change.
LEMMA UpdateImplements ==
    ASSUME ReconcilerInvariant, NEW r, UpdateOutput(r), object' # object
    PROVE  \E b \in Bindings, n \in Names : Ownership!Change(b, n)
<1>1. /\ op.key \in Bindings /\ op.plan.name \in Names
      /\ op.main.rec = Confirmed(op.plan.name, op.seen.uid)
  BY ApplyFacts DEF UpdateOutput
<1>2. PICK b \in Bindings, n \in Names : b = op.key /\ n = op.plan.name
  BY <1>1, Zenon
<1>. DEFINE body == op.plan
<1>3. object[n].there /\ object[n] = op.seen /\ object' = [object EXCEPT ![n].body = body]
  BY <1>2, Zenon DEF UpdateOutput
<1>4. op.main.rec = Confirmed(n, object[n].uid) /\ IsCopy(op.main, b)
  BY <1>1, <1>2, <1>3, ZenonT(60) DEF ReconcilerInvariant, Copies
<1>5. PICK new : new = [object[n] EXCEPT !.body = body]
  BY ZenonT(60)
<1>6. /\ new.there /\ new.uid = object[n].uid /\ new.claim = object[n].claim
      /\ new.own = object[n].own
  BY <1>3, <1>5, ObjectFacts, SMTT(30) DEF ObjectStates
<1>7. object' = [object EXCEPT ![n] = new]
  BY <1>3, <1>5, Zenon
<1>8. live[b].rec = Confirmed(n, object[n].uid)
  BY <1>3, <1>4, ZenonT(60) DEF IsCopy
<1>9. UNCHANGED <<live, nextUid, nextClaim>>
  BY DEF UpdateOutput
<1>10. Ownership!Change(b, n)
  <2>1. object[n].there
    BY <1>3, Zenon
  <2>. QED
    BY <1>6, <1>7, <1>8, <1>9, <2>1, ChangeImplements, ZenonT(60)
<1>. QED
  BY <1>10, Zenon

\* Creating an object is Create: at once (createManagedClusterSPIFFEID), or after the
\* call was given up.
LEMMA CreateImplements ==
    ASSUME RefinementInvariant, UNCHANGED <<live, nextClaim>>, object' # object,
           (\E r : Create(r)) \/ (\E c \in inflight : LandCreate(c))
    PROVE  \E n \in Names : Ownership!Create(n)
<1>1. ReconcilerInvariant
  BY DEF RefinementInvariant
<1>2. ASSUME NEW n \in Names, NEW new, ~object[n].there, object' = [object EXCEPT ![n] = new],
             new.there, new.own, new.uid = nextUid, nextUid' = nextUid + 1
      PROVE  Ownership!Create(n)
  <2>1. object'[n] = new
    BY <1>1, <1>2, ObjectFacts, SMTT(30)
  <2>2. Ownership!SetOutput(n)
    BY <1>2, <2>1, ZenonT(60) DEF Ownership!SetOutput
  <2>. QED
    BY <1>2, <2>1, <2>2, SMTT(30) DEF Ownership!Create
<1>3. ASSUME NEW r, Create(r) PROVE \E n \in Names : Ownership!Create(n)
  <2>1. PICK n \in Names : n = op.plan.name
    BY <1>1, <1>3, ApplyFacts, ZenonT(60) DEF Create
  <2>2. PICK new : new = Desired(nextUid)
    OBVIOUS
  <2>3. new.there /\ new.own /\ new.uid = nextUid
    BY <2>2 DEF Desired, AbsentObject
  <2>4. ~object[n].there /\ object' = [object EXCEPT ![n] = new] /\ nextUid' = nextUid + 1
    BY <1>3, <2>1, <2>2, ZenonT(60) DEF Create
  <2>. QED
    BY <1>2, <2>3, <2>4, ZenonT(60)
<1>4. ASSUME NEW c \in inflight, LandCreate(c) PROVE \E n \in Names : Ownership!Create(n)
  <2>1. c.name \in Names /\ c.body \in ObjectStates /\ c.body.there /\ c.body.own
    BY <1>1, SMTT(30) DEF RefinementInvariant, Traced, ReconcilerInvariant, TypeOK
  <2>2. PICK new : new = [c.body EXCEPT !.uid = nextUid]
    BY ZenonT(60)
  <2>3. new.there /\ new.own /\ new.uid = nextUid
    BY <2>1, <2>2, SMTT(30) DEF ObjectStates
  <2>4. ~object[c.name].there /\ object' = [object EXCEPT ![c.name] = new] /\ nextUid' = nextUid + 1
    BY <1>4, <2>2, ZenonT(60) DEF LandCreate
  <2>. QED
    BY <1>2, <2>1, <2>3, <2>4, ZenonT(60)
<1>. QED
  BY <1>3, <1>4, SMTT(30)

\* What others do to an object is OthersChange or OthersCreate.
LEMMA OthersImplement ==
    ASSUME ReconcilerInvariant, NEW n \in Names,
           \/ OthersCreate(n) \/ OthersReplace(n) \/ OthersDelete(n) \/ OthersEdit(n)
           \/ OthersHold(n) \/ OthersRelease(n)
    PROVE  Ownership!OthersChange(n) \/ Ownership!OthersCreate(n)
<1>1. object[n] \in ObjectStates /\ object \in [Names -> ObjectStates]
  BY ObjectFacts
<1>2. UNCHANGED <<live, nextClaim, op>>
  BY Zenon DEF OthersCreate, OthersReplace, OthersDelete, OthersEdit, OthersHold, OthersRelease
<1>3. ASSUME NEW new, object' = [object EXCEPT ![n] = new], nextUid' = nextUid,
             \/ ~new.there
             \/ /\ new.there <=> object[n].there
                /\ new.uid = object[n].uid /\ new.claim = object[n].claim /\ new.own = object[n].own
      PROVE  Ownership!OthersChange(n)
  <2>1. object'[n] = new
    BY <1>1, <1>3, SMTT(30)
  <2>2. Ownership!SetOutput(n)
    BY <1>3, <2>1, ZenonT(60) DEF Ownership!SetOutput
  <2>. QED
    BY <1>2, <1>3, <2>1, <2>2, ZenonT(60) DEF Ownership!OthersChange, Ownership!SameIncarnation
<1>4. ASSUME NEW new, object' = [object EXCEPT ![n] = new], new.there, ~new.own, new.uid = nextUid,
             nextUid' = nextUid + 1
      PROVE  Ownership!OthersCreate(n)
  <2>1. object'[n] = new
    BY <1>1, <1>4, SMTT(30)
  <2>2. Ownership!SetOutput(n)
    BY <1>4, <2>1, ZenonT(60) DEF Ownership!SetOutput
  <2>. QED
    BY <1>2, <1>4, <2>1, <2>2, ZenonT(60) DEF Ownership!OthersCreate
<1>. DEFINE o == object[n]
<1>5. CASE OthersCreate(n)
  <2>1. PICK new : new = [AbsentObject EXCEPT !.there = TRUE, !.uid = nextUid]
    OBVIOUS
  <2>2. new.there /\ ~new.own /\ new.uid = nextUid
    BY <2>1 DEF AbsentObject
  <2>. QED
    BY <1>4, <1>5, <2>1, <2>2, ZenonT(60) DEF OthersCreate
<1>6. CASE OthersReplace(n)
  <2>1. PICK new : new = [o EXCEPT !.uid = nextUid, !.own = FALSE]
    OBVIOUS
  <2>2. o.there => new.there /\ ~new.own /\ new.uid = nextUid
    BY <1>1, <2>1, SMTT(30) DEF ObjectStates
  <2>3. object' = [object EXCEPT ![n] = new] /\ o.there /\ nextUid' = nextUid + 1
    BY <1>1, <1>6, <2>1, ZenonT(60) DEF OthersReplace, ObjectStates
  <2>. QED
    BY <1>4, <2>2, <2>3, ZenonT(60)
<1>7. ASSUME NEW new, object' = [object EXCEPT ![n] = new], nextUid' = nextUid,
             \/ new = AbsentObject \/ new = [o EXCEPT !.dying = TRUE] \/ new = [o EXCEPT !.body = NoPlan]
             \/ new = [o EXCEPT !.held = TRUE] \/ new = [o EXCEPT !.held = FALSE]
      PROVE  Ownership!OthersChange(n)
  <2>1. \/ ~new.there
        \/ (new.there <=> o.there) /\ new.uid = o.uid /\ new.claim = o.claim /\ new.own = o.own
    BY <1>1, <1>7, AbsentObjectType, SMTT(30) DEF ObjectStates
  <2>. QED
    BY <1>3, <1>7, <2>1, ZenonT(60)
<1>8. CASE OthersDelete(n) \/ OthersEdit(n) \/ OthersHold(n) \/ OthersRelease(n)
  <2>1. PICK new :
           /\ object' = [object EXCEPT ![n] = new]
           /\ \/ new = AbsentObject \/ new = [o EXCEPT !.dying = TRUE] \/ new = [o EXCEPT !.body = NoPlan]
              \/ new = [o EXCEPT !.held = TRUE] \/ new = [o EXCEPT !.held = FALSE]
    BY <1>8, ZenonT(60) DEF OthersDelete, OthersEdit, OthersHold, OthersRelease
  <2>2. nextUid' = nextUid
    BY <1>8, Zenon DEF OthersDelete, OthersEdit, OthersHold, OthersRelease
  <2>. QED
    BY <1>7, <2>1, <2>2, ZenonT(60)
<1>. QED
  BY <1>5, <1>6, <1>8, ZenonT(60)

\* Every step implements a step of OutputOwnership, or changes nothing there.
LEMMA StepImplements ==
    ASSUME RefinementInvariant, [Next]_vars
    PROVE  [Ownership!Next]_(Ownership!owned)
<1>1. ReconcilerInvariant
  BY DEF RefinementInvariant
<1>. DEFINE Quiet == (\A b \in Bindings : live'[b].rec = live[b].rec) /\ UNCHANGED <<object, nextUid, nextClaim>>
            Own == \/ \E b \in Bindings : Ownership!Reserve(b) \/ Ownership!Confirm(b) \/ Ownership!Release(b)
                   \/ \E n \in Names : Ownership!Create(n) \/ Ownership!OthersChange(n) \/ Ownership!OthersCreate(n)
                   \/ \E b \in Bindings, n \in Names : Ownership!Change(b, n)
<1>2. ASSUME Quiet PROVE UNCHANGED Ownership!owned
  BY <1>2, SMTT(30) DEF Ownership!owned
<1>3. ASSUME NEW r \in Replies, Confirm(r) \/ Clear(r) \/ Reserve(r) PROVE Quiet \/ Own
  <2>1. CASE live' = live
    <3>1. UNCHANGED <<object, nextUid, nextClaim>>
      BY <1>3, <2>1, Zenon DEF Confirm, Clear, Reserve
    <3>. QED
      BY <2>1, <3>1, Zenon
  <2>2. CASE live' # live
    BY <1>3, <2>2, ConfirmImplements, ClearImplements, ReserveImplements, ZenonT(60)
  <2>. QED
    BY <2>1, <2>2, SMTT(30)
<1>4. ASSUME NEW r \in Replies, Delete(r) \/ UpdateOutput(r) PROVE Quiet \/ Own
  <2>1. CASE object' = object
    BY <1>4, <2>1, Zenon DEF Delete, UpdateOutput
  <2>2. CASE object' # object
    BY <1>1, <1>4, <2>2, DeleteImplements, UpdateImplements, ZenonT(60)
  <2>. QED
    BY <2>1, <2>2, SMTT(30)
<1>5. ASSUME (\E r \in Replies : Create(r)) \/ (\E c \in inflight : LandCreate(c))
      PROVE  Quiet \/ Own
  <2>1. UNCHANGED <<live, nextClaim>>
    BY <1>5, Zenon DEF Create, LandCreate
  <2>2. CASE object' # object
    BY <1>5, <2>1, <2>2, CreateImplements, ZenonT(60)
  <2>3. CASE object' = object
    <3>1. ASSUME NEW r, Create(r) PROVE nextUid' = nextUid
      <4>1. op.plan.name \in Names
        BY <1>1, <3>1, ApplyFacts, SMTT(30) DEF Create
      <4>2. PICK n \in Names : n = op.plan.name
        BY <4>1, SMTT(30)
      <4>3. ~object[n].there => object # [object EXCEPT ![n] = Desired(nextUid)]
        <5>1. Desired(nextUid).there
          BY DEF Desired, AbsentObject
        <5>. QED
          BY <1>1, <5>1, ObjectFacts, SMTT(30)
      <4>. QED
        BY <2>3, <3>1, <4>2, <4>3, ZenonT(60) DEF Create
    <3>2. ASSUME NEW c \in inflight, LandCreate(c) PROVE nextUid' = nextUid
      <4>1. c.name \in Names /\ c.body \in ObjectStates /\ c.body.there
        BY <1>1, SMTT(30) DEF RefinementInvariant, Traced, ReconcilerInvariant, TypeOK
      <4>2. ~object[c.name].there => object # [object EXCEPT ![c.name] = [c.body EXCEPT !.uid = nextUid]]
        <5>1. [c.body EXCEPT !.uid = nextUid].there
          BY <4>1, SMTT(30) DEF ObjectStates
        <5>. QED
          BY <1>1, <4>1, <5>1, ObjectFacts, ZenonT(60)
      <4>. QED
        BY <2>3, <3>2, <4>2, ZenonT(60) DEF LandCreate
    <3>. QED
      BY <1>5, <2>1, <2>3, <3>1, <3>2, ZenonT(60)
  <2>. QED
    BY <2>2, <2>3, SMTT(30)
<1>6. ASSUME Others PROVE Own
  BY <1>1, <1>6, OthersImplement, ConstantsAssumption, ZenonT(60) DEF Others
<1>7. ASSUME Users \/ (\E r \in Replies : AddFinalizer(r) \/ RemoveFinalizer(r) \/ PatchStatus(r))
      PROVE  Quiet
  <2>1. UNCHANGED <<object, nextUid, nextClaim>>
    BY <1>7, ZenonT(60) DEF Users, CreateBinding, EditBinding, DeleteBinding, ChangePool, AddFinalizer,
                       RemoveFinalizer, PatchStatus
  <2>. QED
    BY <1>1, <1>7, <2>1, RecordsStay, ZenonT(60)
<1>8. \/ Quiet
      \/ \E r \in Replies : Confirm(r) \/ Clear(r) \/ Reserve(r)
      \/ \E r \in Replies : Delete(r) \/ UpdateOutput(r)
      \/ (\E r \in Replies : Create(r)) \/ (\E c \in inflight : LandCreate(c))
      \/ Others
      \/ Users \/ (\E r \in Replies : AddFinalizer(r) \/ RemoveFinalizer(r) \/ PatchStatus(r))
  BY ZenonT(60) DEF Next, Crash, SyncCache, vars, Reconcile, StartReconcile, LookUpDeleting, RenderPeer,
         RenderOwn, Observe, ObserveDesired, ListBindings, DecideConflict, WithdrawnAll,
         SettleConflict, WithdrawMember, ConfirmAbsent, DelayCreate, CRDMissing
<1>. QED
  BY <1>2, <1>3, <1>4, <1>5, <1>6, <1>7, <1>8, ZenonT(60) DEF Ownership!Next

-----------------------------------------------------------------------------
(* Theorems. *)

\* The reconciler implements OutputOwnership, for any number of bindings, names and
\* failures: stored records and outputs change only as the ownership protocol promises
\* (internal/controller: ownership.go and spiffe.go).
THEOREM Implementation == Spec => ImplementsOwnership
<1>1. ASSUME Init PROVE Ownership!Init
  <2>1. \A rv : AbsentBinding(rv).rec.kind = "unclaimed"
    BY ZenonT(60) DEF AbsentBinding, Unclaimed
  <2>2. ASSUME NEW b \in Bindings PROVE live[b].rec.kind = "unclaimed"
    <3>1. \A s \in Specs : NewBinding(s, 1).rec.kind = "unclaimed"
      BY ZenonT(60) DEF NewBinding, AbsentBinding, Unclaimed
    <3>. QED
      BY <1>1, <2>1, <3>1, SMTT(30) DEF Init
  <2>3. ASSUME NEW n \in Names PROVE ~object[n].there
    BY <1>1, AbsentObjectType, SMTT(30) DEF Init
  <2>. QED
    BY <1>1, <2>2, <2>3, SMTT(30) DEF Init, Ownership!Init
<1>2. RefinementInvariant /\ [Next]_vars => [Ownership!Next]_(Ownership!owned)
  BY StepImplements
<1>. QED
  BY <1>1, <1>2, RefinementInvariance, PTL DEF Spec, ImplementsOwnership, Ownership!Spec

=============================================================================
