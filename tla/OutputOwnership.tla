-------------------------- MODULE OutputOwnership --------------------------
(***************************************************************************)
(* What the operator promises about ClusterSPIFFEIDs, whatever copies,     *)
(* caches, retries and restarts it goes through: each binding has a        *)
(* durable record, first of a claim it made, then of the one incarnation   *)
(* that was found to carry the claim; the operator changes an incarnation  *)
(* only while a record confirms it, and forgets it only when it is gone.   *)
(* BindingReconciler implements this (OwnershipRefinement).                *)
(*                                                                         *)
(* A record has a kind, a name, a claim and a uid; an output says whether  *)
(* it is there, its uid, the claim it carries and whether the operator     *)
(* made it (own).  What else an output holds is left open.                 *)
(***************************************************************************)
EXTENDS Naturals, TLAPS

CONSTANTS
    Bindings,
    Names,      \* names of outputs
    Late        \* whether a Create that was given up may take effect later

VARIABLES
    record,     \* the ownership record of every binding
    output,     \* the output under every name
    uids,       \* the next UID
    claims,     \* the next claim
    memory      \* the operator's memory, which nobody else changes

owned == <<record, output, uids, claims>>

-----------------------------------------------------------------------------

Claimed(rec, o) == o.there /\ rec.kind = "pending" /\ o.claim = rec.claim

Recorded(rec, o) == o.there /\ rec.kind = "confirmed" /\ o.uid = rec.uid

\* Binding b owns the output under name n: by its claim, or by its UID.
Owns(b, n) ==
    record[b].name = n /\ (Claimed(record[b], output[n]) \/ Recorded(record[b], output[n]))

SetRecord(b) == record' = [record EXCEPT ![b] = record'[b]]

SetOutput(n) == output' = [output EXCEPT ![n] = output'[n]]

SameIncarnation(o, p) == o.there /\ p.there /\ p.uid = o.uid /\ p.claim = o.claim /\ p.own = o.own

-----------------------------------------------------------------------------
(* The operator. *)

\* A fresh claim is stored before anything is created.
Reserve(b) ==
    /\ record[b].kind = "unclaimed"
    /\ SetRecord(b)
    /\ record'[b].kind = "pending"
    /\ record'[b].name \in Names
    /\ record'[b].claim = [by |-> b, no |-> claims]
    /\ claims' = claims + 1
    /\ UNCHANGED <<output, uids>>

\* Outputs are created where there is none.
Create(n) ==
    /\ ~output[n].there
    /\ SetOutput(n)
    /\ output'[n].there /\ output'[n].own
    /\ output'[n].uid = uids
    /\ uids' = uids + 1
    /\ UNCHANGED <<record, claims>>

\* The UID of an incarnation that carries the claim replaces the claim.  That
\* incarnation may be gone by now, but then no other one of the operator has the claim.
Confirm(b) ==
    LET o == output[record[b].name]
        uid == record'[b].uid
    IN  /\ record[b].kind = "pending"
        /\ SetRecord(b)
        /\ record'[b].kind = "confirmed"
        /\ record'[b].name = record[b].name
        /\ uid \in Nat /\ uid < uids
        /\ o.there /\ o.uid = uid => o.claim = record[b].claim
        /\ ~Late /\ o.own /\ Claimed(record[b], o) => o.uid = uid
        /\ UNCHANGED <<output, uids, claims>>

\* A record is dropped when what it stands for is gone.
Release(b) ==
    LET o == output[record[b].name]
    IN  /\ record[b].kind # "unclaimed"
        /\ ~Recorded(record[b], o)
        /\ ~Late => ~(o.own /\ Claimed(record[b], o))
        /\ SetRecord(b)
        /\ record'[b].kind = "unclaimed"
        /\ UNCHANGED <<output, uids, claims>>

\* An output is changed or deleted while a record confirms it.
Change(b, n) ==
    /\ record[b].name = n
    /\ Recorded(record[b], output[n])
    /\ SetOutput(n)
    /\ ~output'[n].there \/ SameIncarnation(output[n], output'[n])
    /\ UNCHANGED <<record, uids, claims>>

-----------------------------------------------------------------------------
(* Everyone else. *)

\* Others edit and delete any output.
OthersChange(n) ==
    /\ SetOutput(n)
    /\ ~output'[n].there \/ SameIncarnation(output[n], output'[n])
    /\ UNCHANGED <<record, uids, claims, memory>>

\* They create outputs of their own, which may copy the claim of an earlier one.
OthersCreate(n) ==
    /\ SetOutput(n)
    /\ output'[n].there /\ ~output'[n].own
    /\ output'[n].uid = uids
    /\ uids' = uids + 1
    /\ UNCHANGED <<record, claims, memory>>

-----------------------------------------------------------------------------

Init ==
    /\ DOMAIN record = Bindings
    /\ DOMAIN output = Names
    /\ \A b \in Bindings : record[b].kind = "unclaimed"
    /\ \A n \in Names : ~output[n].there
    /\ uids = 1
    /\ claims = 1

Next ==
    /\ owned' # owned
    /\ \/ \E b \in Bindings : Reserve(b) \/ Confirm(b) \/ Release(b)
       \/ \E n \in Names : Create(n) \/ OthersChange(n) \/ OthersCreate(n)
       \/ \E b \in Bindings, n \in Names : Change(b, n)

Spec == Init /\ [][Next]_owned

-----------------------------------------------------------------------------
(* What follows from the promise alone. *)

\* The owner of an output is the binding whose claim it carries, so there is one at most:
\* nothing else is ever adopted (classifyManagedClusterSPIFFEID).
OwnerMadeClaim == \A b \in Bindings, n \in Names : Owns(b, n) => output[n].claim.by = b

\* The inductive invariant behind it: claims are made by the binding that records them,
\* and no UID is recorded or in use before it is handed out.
Accounted ==
    /\ DOMAIN record = Bindings
    /\ DOMAIN output = Names
    /\ uids \in Nat
    /\ \A b \in Bindings :
          /\ record[b].kind = "pending" => record[b].claim.by = b
          /\ record[b].kind = "confirmed" => record[b].uid \in Nat /\ record[b].uid < uids
    /\ OwnerMadeClaim

\* What OwnerMadeClaim says of one binding and one output is kept by a step that leaves
\* the record alone and gives the output a fresh UID if it is another incarnation.
LEMMA OutputStep ==
    ASSUME Accounted,
           NEW n \in Names, SetOutput(n), UNCHANGED record,
           uids' \in Nat, uids <= uids',
           \/ ~output'[n].there
           \/ SameIncarnation(output[n], output'[n])
           \/ output'[n].uid = uids
    PROVE  Accounted'
<1>1. DOMAIN output' = Names
  BY DEF SetOutput, Accounted
<1>2. ASSUME NEW b \in Bindings, record[b].kind = "confirmed"
      PROVE  record[b].uid \in Nat /\ record[b].uid < uids'
  BY <1>2 DEF Accounted
<1>3. ASSUME NEW b \in Bindings, NEW m \in Names, Owns(b, m)' PROVE output'[m].claim.by = b
  <2>1. CASE record[b].kind = "pending"
    BY <2>1, <1>3 DEF Accounted, Owns, Claimed, Recorded
  <2>2. CASE record[b].kind # "pending" /\ m # n
    <3>1. output'[m] = output[m]
      BY <2>2 DEF SetOutput, Accounted
    <3>. QED
      BY <3>1, <1>3 DEF Accounted, OwnerMadeClaim, Owns, Claimed, Recorded
  <2>3. CASE record[b].kind # "pending" /\ m = n
    <3>1. record[b].kind = "confirmed" /\ record[b].uid < uids /\ record[b].uid \in Nat
      BY <2>3, <1>3 DEF Owns, Claimed, Recorded, Accounted
    <3>2. output'[n].there /\ output'[n].uid = record[b].uid /\ record[b].name = n
      BY <2>3, <1>3 DEF Owns, Claimed, Recorded
    <3>3. output'[n].uid # uids
      BY <3>1, <3>2 DEF Accounted
    <3>4. SameIncarnation(output[n], output'[n])
      BY <3>2, <3>3
    <3>5. Owns(b, n)
      BY <3>1, <3>2, <3>4 DEF Owns, Recorded, SameIncarnation
    <3>. QED
      BY <3>4, <3>5, <2>3 DEF Accounted, OwnerMadeClaim, SameIncarnation
  <2>. QED
    BY <2>1, <2>2, <2>3
<1>. QED
  BY <1>1, <1>2, <1>3 DEF Accounted, OwnerMadeClaim

\* The same for a step that changes one record, and no output.
LEMMA RecordStep ==
    ASSUME Accounted,
           NEW b \in Bindings, SetRecord(b), UNCHANGED <<output, uids>>,
           record'[b].kind = "pending" => record'[b].claim.by = b,
           record'[b].kind = "confirmed" =>
              /\ record'[b].uid \in Nat /\ record'[b].uid < uids
              /\ \A n \in Names : Recorded(record'[b], output[n]) /\ record'[b].name = n
                                  => output[n].claim.by = b
    PROVE  Accounted'
<1>1. DOMAIN record' = Bindings /\ \A c \in Bindings \ {b} : record'[c] = record[c]
  BY DEF SetRecord, Accounted
<1>2. ASSUME NEW c \in Bindings
      PROVE  /\ record'[c].kind = "pending" => record'[c].claim.by = c
             /\ record'[c].kind = "confirmed" => record'[c].uid \in Nat /\ record'[c].uid < uids
  BY <1>1 DEF Accounted
<1>3. ASSUME NEW c \in Bindings, NEW n \in Names, Owns(c, n)' PROVE output[n].claim.by = c
  <2>1. CASE c = b
    BY <2>1, <1>2, <1>3 DEF Owns, Claimed, Recorded
  <2>2. CASE c # b
    BY <2>2, <1>1, <1>3 DEF Owns, Accounted, OwnerMadeClaim, Claimed, Recorded
  <2>. QED
    BY <2>1, <2>2
<1>. QED
  BY <1>1, <1>2, <1>3 DEF Accounted, OwnerMadeClaim

\* The promise alone keeps ownership with the binding whose claim the output carries.
THEOREM OwnersMadeClaims == Spec => []OwnerMadeClaim
<1>1. Init => Accounted
  BY DEF Init, Accounted, OwnerMadeClaim, Owns, Claimed, Recorded
<1>2. ASSUME Accounted, [Next]_owned PROVE Accounted'
  <2>1. CASE UNCHANGED owned
    BY <1>2, <2>1 DEF owned, Accounted, OwnerMadeClaim, Owns, Claimed, Recorded
  <2>2. ASSUME NEW b \in Bindings, Reserve(b) PROVE Accounted'
    BY <1>2, <2>2, RecordStep DEF Reserve
  <2>3. ASSUME NEW b \in Bindings, Confirm(b) PROVE Accounted'
    <3>1. ASSUME NEW n \in Names, Recorded(record'[b], output[n]), record'[b].name = n
          PROVE  output[n].claim.by = b
      BY <1>2, <2>3, <3>1 DEF Confirm, Recorded, Accounted
    <3>. QED
      BY <1>2, <2>3, <3>1, RecordStep DEF Confirm
  <2>4. ASSUME NEW b \in Bindings, Release(b) PROVE Accounted'
    BY <1>2, <2>4, RecordStep DEF Release
  <2>5. ASSUME NEW n \in Names, Create(n) PROVE Accounted'
    BY <1>2, <2>5, OutputStep DEF Create, Accounted
  <2>6. ASSUME NEW n \in Names, OthersChange(n) PROVE Accounted'
    BY <1>2, <2>6, OutputStep DEF OthersChange, Accounted
  <2>7. ASSUME NEW n \in Names, OthersCreate(n) PROVE Accounted'
    BY <1>2, <2>7, OutputStep DEF OthersCreate, Accounted
  <2>8. ASSUME NEW b \in Bindings, NEW n \in Names, Change(b, n) PROVE Accounted'
    BY <1>2, <2>8, OutputStep DEF Change, Recorded, Accounted
  <2>. QED
    BY <1>2, <2>1, <2>2, <2>3, <2>4, <2>5, <2>6, <2>7, <2>8 DEF Next
<1>3. Accounted => OwnerMadeClaim
  BY DEF Accounted
<1>. QED
  BY <1>1, <1>2, <1>3, PTL DEF Spec

=============================================================================
