---------------------------- MODULE StatusProofs ----------------------------
(***************************************************************************)
(* What holds of every status that BindingStatus stores, and of what the   *)
(* commands of StatusInspection make of it, for any specs, configurations, *)
(* errors, causes, changes and failures.                                   *)
(***************************************************************************)
EXTENDS StatusInspection, FiniteSetTheorems, TLAPS

-----------------------------------------------------------------------------
(* The writers of a status. *)

\* The conditions that setCondition may be called with.
Raisable(raised) ==
    /\ DOMAIN raised \subseteq ConditionTypes
    /\ \A t \in DOMAIN raised :
          raised[t] \in [is : {"True", "False", "Unknown"}, reason : Reasons, note : Notes, gen : Nat]

\* What setCondition leaves: the raised conditions, and the others as Resolved.
LEMMA EvaluatedFields ==
    ASSUME NEW s \in Statuses, NEW g \in Nat, NEW raised, Raisable(raised)
    PROVE  LET e == Evaluated(s, g, raised)
           IN  /\ e \in Statuses
               /\ e.id = None /\ e.conflicts = {} /\ e.config = s.config /\ e.rec = s.rec
               /\ \A t \in ConditionTypes : e.conds[t].gen = g
               /\ \A t \in DOMAIN raised : /\ e.conds[t].is = raised[t].is
                                           /\ e.conds[t].reason = raised[t].reason
                                           /\ e.conds[t].note = raised[t].note
               /\ \A t \in ConditionTypes \ DOMAIN raised : e.conds[t].is = "False"
<1>. DEFINE cond(t) == [(IF t \in DOMAIN raised THEN raised[t]
                         ELSE Condition("False", "Resolved", "resolved")) EXCEPT !.gen = g]
            conds == [t \in ConditionTypes |-> cond(t)]
<1>1. ASSUME NEW t \in ConditionTypes PROVE cond(t) \in Conditions
  BY ZenonT(60) DEF Raisable, Condition, Conditions, Reasons, Notes
<1>2. conds \in [ConditionTypes -> Conditions]
  BY <1>1
<1>3. Evaluated(s, g, raised) = [s EXCEPT !.conds = conds, !.id = None, !.conflicts = {}]
  BY DEF Evaluated
<1>4. \A t \in ConditionTypes \ DOMAIN raised : conds[t].is = "False" /\ conds[t].gen = g
  BY DEF Condition
<1>5. \A t \in DOMAIN raised : /\ conds[t].is = raised[t].is /\ conds[t].reason = raised[t].reason
                               /\ conds[t].note = raised[t].note /\ conds[t].gen = g
  BY DEF Raisable
<1>. HIDE DEF conds
<1>6. \A t \in ConditionTypes : conds[t].gen = g
  BY <1>4, <1>5
<1>. QED
  BY <1>2, <1>3, <1>4, <1>5, <1>6, ZenonT(60) DEF Statuses, Identities

\* The types of conditions, one by one.
LEMMA FiveTypes ==
    /\ ConditionTypes = {"Ready", "InvalidRef", "UnsafeSelector", "Conflict", "RenderFailure"}
    /\ FailureTypes = {"InvalidRef", "UnsafeSelector", "Conflict", "RenderFailure"}
    /\ "Ready" \notin FailureTypes
    /\ ConditionTypes = {"Ready"} \cup FailureTypes
BY DEF ConditionTypes, FailureTypes

\* The reasons and notes that the writers use.
LEMMA KnownReasons ==
    /\ \A r \in {"Initializing", "Reconciled", "DuplicateSPIFFEID", "VariantConflict"} : r \in Reasons
    /\ \A n \in {"unevaluated", "reconciled", "conflict", "creating", "absence", "replacing"} : n \in Notes
BY DEF Reasons, Notes

\* The errors a failure is reported for.
LEMMA ErrorFields ==
    ASSUME NEW e \in StateErrors \cup {ApplyFailed, CRDMissing}
    PROVE  /\ e.type \in FailureTypes /\ e.type # "Conflict"
           /\ e.reason \in Reasons /\ e.reason \in Notes
           /\ e.reason \notin {"Initializing", "UnclassifiedFailure"}
<1>1. CASE e \in StateErrors
  <2>1. e.type \in FailureTypes /\ e.type # "Conflict" /\ e.reason \notin {"Initializing", "UnclassifiedFailure"}
    BY <1>1, StatusConstants, Zenon
  <2>2. e.reason \in Reasons /\ e.reason \in Notes
    BY <1>1, Zenon DEF Reasons, Notes
  <2>. QED
    BY <2>1, <2>2
<1>2. CASE e = ApplyFailed
  BY <1>2 DEF ApplyFailed, FailureTypes, Reasons, Notes
<1>3. CASE e = CRDMissing
  BY <1>3 DEF CRDMissing, FailureTypes, Reasons, Notes
<1>. QED
  BY <1>1, <1>2, <1>3

\* A status without a True failure condition, and so without conflicts, is coherent.
LEMMA WrittenWithoutFailure ==
    ASSUME NEW w, NEW g,
           \A t \in ConditionTypes : w.conds[t].gen = g /\ w.conds[t].is # "Missing",
           \A t \in FailureTypes : w.conds[t].is # "True",
           w.conflicts = {},
           \/ /\ w.conds["Ready"].is = "Unknown" /\ w.conds["Ready"].reason = "Initializing"
              /\ w.id = None
           \/ /\ w.conds["Ready"].is = "True" /\ w.conds["Ready"].reason = "Reconciled"
              /\ w.id # None /\ w.config \in Configs
    PROVE  Written(w)
<1>1. OneFailure(w)
  BY DEF OneFailure, Ready
<1>2. Shown(w)
  BY FiveTypes DEF Shown, Ready
<1>. QED
  BY <1>1, <1>2 DEF Written, Ready

\* A status with one True failure condition of Ready's reason and note is coherent.
LEMMA WrittenWithFailure ==
    ASSUME NEW w, NEW g, NEW f \in FailureTypes,
           \A t \in ConditionTypes : w.conds[t].gen = g /\ w.conds[t].is # "Missing",
           \A t \in FailureTypes \ {f} : w.conds[t].is # "True",
           w.conds["Ready"].is = "False", w.conds[f].is = "True",
           w.conds[f].reason = w.conds["Ready"].reason, w.conds[f].note = w.conds["Ready"].note,
           w.conds[f].reason \notin {"Initializing", "UnclassifiedFailure"},
           w.id = None,
           w.conflicts # {} <=> f = "Conflict"
    PROVE  Written(w)
<1>1. OneFailure(w)
  <2>1. {t \in FailureTypes : w.conds[t].is = "True"} = {f}
    OBVIOUS
  <2>. QED
    BY <2>1 DEF OneFailure, Ready
<1>2. Shown(w)
  BY FiveTypes DEF Shown, Ready
<1>. QED
  BY <1>1, <1>2 DEF Written, Ready

\* applySuccessStatus writes a coherent status.
LEMMA SuccessWritten ==
    ASSUME NEW s \in Statuses, s.config \in Configs, NEW g \in Nat, NEW id \in Identities \ {None},
           NEW w, w = ApplySuccess(s, g, id)
    PROVE  /\ w \in Statuses /\ Written(w)
           /\ Ready(w).is = "True" /\ Ready(w).gen = g
           /\ w.id = id /\ w.config = s.config
<1>. DEFINE raised == [Ready |-> Condition("True", "Reconciled", "reconciled")]
            e == Evaluated(s, g, raised)
<1>1. /\ DOMAIN raised = {"Ready"}
      /\ raised["Ready"] = [is |-> "True", reason |-> "Reconciled", note |-> "reconciled", gen |-> 0]
  BY DEF Condition
<1>2. e = Evaluated(s, g, raised) /\ w = [e EXCEPT !.id = id]
  BY DEF ApplySuccess
<1>. HIDE DEF raised, e
<1>3. Raisable(raised)
  BY <1>1, FiveTypes, KnownReasons, SMTT(30) DEF Raisable
<1>4. /\ e \in Statuses /\ e.conflicts = {} /\ e.config = s.config
      /\ \A t \in ConditionTypes : e.conds[t].gen = g
      /\ e.conds["Ready"].is = "True" /\ e.conds["Ready"].reason = "Reconciled"
      /\ \A t \in FailureTypes : e.conds[t].is = "False"
  BY <1>1, <1>2, <1>3, EvaluatedFields, FiveTypes
<1>5. /\ w \in Statuses /\ w.conds = e.conds /\ w.id = id
      /\ w.conflicts = {} /\ w.config = s.config
  BY <1>2, <1>4 DEF Statuses
<1>6. \A t \in ConditionTypes : w.conds[t].gen = g /\ w.conds[t].is # "Missing"
  BY <1>4, <1>5, FiveTypes
<1>7. Written(w)
  BY <1>4, <1>5, <1>6, WrittenWithoutFailure
<1>. QED
  BY <1>4, <1>5, <1>7, FiveTypes DEF Ready

\* applyConflictStatus writes a coherent status.
LEMMA ConflictWritten ==
    ASSUME NEW s \in Statuses, NEW g \in Nat, NEW causes \in ConflictCauses
    PROVE  LET w == ApplyConflict(s, g, causes)
           IN  w \in Statuses /\ Written(w) /\ Ready(w).is = "False"
<1>. DEFINE reason == IF "DuplicateSPIFFEID" \in causes THEN "DuplicateSPIFFEID" ELSE "VariantConflict"
            raised == [t \in {"Ready", "Conflict"} |->
                          Condition(IF t = "Ready" THEN "False" ELSE "True", reason, "conflict")]
            e == Evaluated(s, g, raised)
            w == ApplyConflict(s, g, causes)
<1>1. reason \in {"DuplicateSPIFFEID", "VariantConflict"}
  OBVIOUS
<1>2. e = Evaluated(s, g, raised) /\ w = [e EXCEPT !.conflicts = causes]
  BY DEF ApplyConflict
<1>. HIDE DEF reason
<1>3. /\ DOMAIN raised = {"Ready", "Conflict"}
      /\ raised["Ready"] = [is |-> "False", reason |-> reason, note |-> "conflict", gen |-> 0]
      /\ raised["Conflict"] = [is |-> "True", reason |-> reason, note |-> "conflict", gen |-> 0]
  BY DEF Condition
<1>. HIDE DEF raised, e, w
<1>4. Raisable(raised)
  BY <1>1, <1>3, FiveTypes, KnownReasons, SMTT(30) DEF Raisable
<1>5. /\ e \in Statuses /\ e.id = None
      /\ \A t \in ConditionTypes : e.conds[t].gen = g
      /\ e.conds["Ready"].is = "False" /\ e.conds["Conflict"].is = "True"
      /\ e.conds["Ready"].reason = reason /\ e.conds["Conflict"].reason = reason
      /\ e.conds["Ready"].note = "conflict" /\ e.conds["Conflict"].note = "conflict"
      /\ \A t \in FailureTypes \ {"Conflict"} : e.conds[t].is = "False"
  BY <1>2, <1>3, <1>4, EvaluatedFields, FiveTypes
<1>6. /\ w \in Statuses /\ w.conds = e.conds /\ w.id = None /\ w.conflicts = causes
  BY <1>2, <1>5 DEF Statuses
<1>7. causes # {}
  BY StatusConstants, ZenonT(60)
<1>8. \A t \in ConditionTypes : w.conds[t].gen = g /\ w.conds[t].is # "Missing"
  BY <1>5, <1>6, FiveTypes
<1>9. Written(w)
  <2>1. "Conflict" \in FailureTypes /\ reason \notin {"Initializing", "UnclassifiedFailure"}
    BY <1>1, FiveTypes
  <2>2. /\ \A t \in FailureTypes \ {"Conflict"} : w.conds[t].is # "True"
        /\ w.conds["Ready"].is = "False" /\ w.conds["Conflict"].is = "True"
        /\ w.conds["Conflict"].reason = w.conds["Ready"].reason
        /\ w.conds["Conflict"].note = w.conds["Ready"].note
        /\ w.conds["Conflict"].reason \notin {"Initializing", "UnclassifiedFailure"}
        /\ w.id = None /\ w.conflicts # {}
    BY <1>5, <1>6, <1>7, <2>1, Zenon
  <2>. QED
    BY <1>8, <2>1, <2>2, WrittenWithFailure
<1>. QED
  BY <1>5, <1>6, <1>9 DEF w, Ready

\* applyFailureStatus writes a coherent status, for every error it is called with.
LEMMA FailureWritten ==
    ASSUME NEW s \in Statuses, NEW g \in Nat, NEW e \in StateErrors \cup {ApplyFailed, CRDMissing}
    PROVE  LET w == ApplyFailure(s, g, e)
           IN  w \in Statuses /\ Written(w) /\ Ready(w).is = "False"
<1>. DEFINE raised == [t \in {"Ready", e.type} |->
                          Condition(IF t = "Ready" THEN "False" ELSE "True", e.reason, e.reason)]
            w == ApplyFailure(s, g, e)
<1>1. w = Evaluated(s, g, raised)
  BY DEF ApplyFailure
<1>2. /\ e.type \in FailureTypes /\ e.type # "Conflict" /\ e.type # "Ready"
      /\ e.reason \in Reasons /\ e.reason \in Notes
      /\ e.reason \notin {"Initializing", "UnclassifiedFailure"}
  BY ErrorFields, FiveTypes
<1>3. /\ DOMAIN raised = {"Ready", e.type}
      /\ raised["Ready"] = [is |-> "False", reason |-> e.reason, note |-> e.reason, gen |-> 0]
      /\ raised[e.type] = [is |-> "True", reason |-> e.reason, note |-> e.reason, gen |-> 0]
  BY <1>2 DEF Condition
<1>. HIDE DEF raised, w
<1>4. Raisable(raised)
  BY <1>2, <1>3, FiveTypes, SMTT(30) DEF Raisable
<1>5. /\ w \in Statuses /\ w.id = None /\ w.conflicts = {}
      /\ \A t \in ConditionTypes : w.conds[t].gen = g
      /\ w.conds["Ready"].is = "False" /\ w.conds[e.type].is = "True"
      /\ w.conds["Ready"].reason = e.reason /\ w.conds[e.type].reason = e.reason
      /\ w.conds["Ready"].note = e.reason /\ w.conds[e.type].note = e.reason
      /\ \A t \in FailureTypes \ {e.type} : w.conds[t].is = "False"
  <2>1. /\ w \in Statuses /\ w.id = None /\ w.conflicts = {}
        /\ \A t \in ConditionTypes : w.conds[t].gen = g
        /\ \A t \in DOMAIN raised : /\ w.conds[t].is = raised[t].is
                                    /\ w.conds[t].reason = raised[t].reason
                                    /\ w.conds[t].note = raised[t].note
        /\ \A t \in ConditionTypes \ DOMAIN raised : w.conds[t].is = "False"
    BY <1>1, <1>4, EvaluatedFields
  <2>. QED
    BY <1>3, <2>1, FiveTypes
<1>6. \A t \in ConditionTypes : w.conds[t].gen = g /\ w.conds[t].is # "Missing"
  BY <1>2, <1>5, FiveTypes, SMTT(30)
<1>7. Written(w)
  BY <1>2, <1>5, <1>6, WrittenWithFailure, SMTT(30)
<1>. QED
  BY <1>5, <1>7 DEF w, Ready

\* A status whose conditions are all reset but those that are unknown is coherent.
LEMMA PendingWritten ==
    ASSUME NEW s \in Statuses, NEW g \in Nat, NEW note \in Notes, NEW raised,
           DOMAIN raised \subseteq ConditionTypes, "Ready" \in DOMAIN raised,
           \A t \in DOMAIN raised : raised[t] = Condition("Unknown", "Initializing", note),
           NEW w, w = Evaluated(s, g, raised)
    PROVE  /\ w \in Statuses /\ Written(w) /\ Ready(w).is = "Unknown"
           /\ w.id = None /\ w.conflicts = {} /\ w.config = s.config /\ w.rec = s.rec
<1>1. \A t \in DOMAIN raised :
          raised[t] = [is |-> "Unknown", reason |-> "Initializing", note |-> note, gen |-> 0]
  BY DEF Condition
<1>2. Raisable(raised)
  BY <1>1, KnownReasons DEF Raisable
<1>3. /\ w \in Statuses /\ w.id = None /\ w.conflicts = {} /\ w.config = s.config /\ w.rec = s.rec
      /\ \A t \in ConditionTypes : w.conds[t].gen = g
      /\ \A t \in DOMAIN raised : w.conds[t].is = raised[t].is /\ w.conds[t].reason = raised[t].reason
      /\ \A t \in ConditionTypes \ DOMAIN raised : w.conds[t].is = "False"
  BY <1>2, EvaluatedFields
<1>4. /\ w.conds["Ready"].is = "Unknown" /\ w.conds["Ready"].reason = "Initializing"
      /\ \A t \in ConditionTypes : w.conds[t].is \in {"Unknown", "False"}
  BY <1>1, <1>3, SMTT(30)
<1>5. Written(w)
  BY <1>3, <1>4, FiveTypes, WrittenWithoutFailure, SMTT(30)
<1>. QED
  BY <1>3, <1>4, <1>5 DEF Ready

\* applyPendingOutputStatus, applyPendingConflictStatus and applyPendingReplacementStatus.
LEMMA PendingWriters ==
    ASSUME NEW s \in Statuses, NEW g \in Nat,
           NEW w \in {ApplyPendingOutput(s, g), ApplyPendingConflict(s, g), ApplyPendingReplacement(s, g)}
    PROVE  /\ w \in Statuses /\ Written(w) /\ Ready(w).is = "Unknown"
           /\ w.id = None /\ w.conflicts = {} /\ w.config = s.config /\ w.rec = s.rec
<1>. DEFINE waits(n) == Condition("Unknown", "Initializing", n)
            both == [t \in {"Ready", "Conflict"} |-> waits("absence")]
            one(n) == [Ready |-> waits(n)]
<1>1. \/ w = Evaluated(s, g, one("creating"))
      \/ w = Evaluated(s, g, both)
      \/ w = Evaluated(s, g, one("replacing"))
  BY Zenon DEF ApplyPendingOutput, ApplyPendingConflict, ApplyPendingReplacement
<1>2. /\ DOMAIN one("creating") = {"Ready"} /\ one("creating")["Ready"] = waits("creating")
      /\ DOMAIN one("replacing") = {"Ready"} /\ one("replacing")["Ready"] = waits("replacing")
      /\ DOMAIN both = {"Ready", "Conflict"} /\ \A t \in {"Ready", "Conflict"} : both[t] = waits("absence")
  OBVIOUS
<1>3. "creating" \in Notes /\ "absence" \in Notes /\ "replacing" \in Notes
  BY KnownReasons
<1>. HIDE DEF both, one
<1>4. CASE w = Evaluated(s, g, one("creating"))
  BY <1>2, <1>3, <1>4, PendingWritten, FiveTypes, SMTT(30)
<1>5. CASE w = Evaluated(s, g, both)
  BY <1>2, <1>3, <1>5, PendingWritten, FiveTypes, SMTT(30)
<1>6. CASE w = Evaluated(s, g, one("replacing"))
  BY <1>2, <1>3, <1>6, PendingWritten, FiveTypes
<1>. QED
  BY <1>1, <1>4, <1>5, <1>6

\* A condition that is missing says so.
LEMMA MissingIs == Missing.is = "Missing" /\ Missing.gen = 0
BY SMTT(30) DEF Missing, Condition

\* A status w with initialized conditions and the configuration c says what s said.
Initialized(w, s, c) ==
    /\ w.id = s.id /\ w.conflicts = s.conflicts /\ w.config = c /\ w.rec = s.rec
    /\ \A t \in ConditionTypes : \/ w.conds[t].is = s.conds[t].is
                                 \/ s.conds[t] = Missing /\ w.conds[t].is = "Unknown"

\* initializeConditions and applyOperatorConfig: a coherent status stays one, with the
\* same outcome under a new stamp.
LEMMA InitializeWritten ==
    ASSUME NEW s \in Statuses, Written(s), NEW g \in Nat, NEW c \in Configs,
           NEW w, w = ApplyOperatorConfig(InitializeConditions(s, g), c)
    PROVE  w \in Statuses /\ Written(w) /\ Initialized(w, s, c)
<1>. DEFINE cond(t) == IF s.conds[t] = Missing
                       THEN [Condition("Unknown", "Initializing", "unevaluated") EXCEPT !.gen = g]
                       ELSE [s.conds[t] EXCEPT !.gen = g]
            conds == [t \in ConditionTypes |-> cond(t)]
<1>1. w = [[s EXCEPT !.conds = conds] EXCEPT !.config = c]
  BY DEF ApplyOperatorConfig, InitializeConditions
<1>2. ASSUME NEW t \in ConditionTypes
      PROVE  /\ conds[t] \in Conditions /\ conds[t].gen = g
             /\ s.conds[t] = Missing => conds[t].is = "Unknown" /\ conds[t].reason = "Initializing"
             /\ s.conds[t] # Missing => /\ conds[t].is = s.conds[t].is
                                        /\ conds[t].reason = s.conds[t].reason
                                        /\ conds[t].note = s.conds[t].note
  <2>1. s.conds[t] \in Conditions
    BY DEF Statuses
  <2>2. conds[t] = cond(t)
    OBVIOUS
  <2>. QED
    BY <2>1, <2>2, KnownReasons DEF Conditions, Condition
<1>. HIDE DEF conds
<1>3. conds \in [ConditionTypes -> Conditions]
  BY <1>2 DEF conds
<1>4. /\ w \in Statuses /\ w.conds = conds
      /\ w.id = s.id /\ w.conflicts = s.conflicts /\ w.config = c /\ w.rec = s.rec
  BY <1>1, <1>3, ZenonT(60) DEF Statuses
<1>5. /\ s.id # None <=> s.conds["Ready"].is = "True"
      /\ s.conflicts # {} <=> s.conds["Conflict"].is = "True"
  BY DEF Written, Shown, Ready
<1>6. CASE \A t \in ConditionTypes : s.conds[t] = Missing
  <2>1. s.id = None /\ s.conflicts = {}
    BY <1>5, <1>6, FiveTypes, MissingIs
  <2>2. Written(w)
    BY <1>2, <1>4, <1>6, <2>1, WrittenWithoutFailure, FiveTypes, SMTT(30)
  <2>. QED
    BY <1>2, <1>4, <1>6, <2>2 DEF Initialized
<1>7. CASE \A t \in ConditionTypes : s.conds[t].is # "Missing"
  <2>1. \A t \in ConditionTypes : s.conds[t] # Missing
    BY <1>7, MissingIs
  <2>2. \A t \in ConditionTypes : /\ w.conds[t].is = s.conds[t].is
                                  /\ w.conds[t].reason = s.conds[t].reason
                                  /\ w.conds[t].note = s.conds[t].note
                                  /\ w.conds[t].gen = g
    BY <1>2, <1>4, <2>1
  <2>3. {t \in FailureTypes : w.conds[t].is = "True"} = {t \in FailureTypes : s.conds[t].is = "True"}
    <3>1. FailureTypes \subseteq ConditionTypes
      BY FiveTypes, Zenon
    <3>. QED
      BY <2>2, <3>1, Zenon
  <2>4. OneFailure(w)
    <3>1. Ready(w).is = Ready(s).is /\ Ready(w).reason = Ready(s).reason /\ Ready(w).note = Ready(s).note
      BY <2>2, FiveTypes, Zenon DEF Ready
    <3>2. \A t \in FailureTypes : w.conds[t].reason = s.conds[t].reason /\ w.conds[t].note = s.conds[t].note
      BY <2>2, FiveTypes, Zenon
    <3>3. OneFailure(s)
      BY Zenon DEF Written
    <3>. QED
      BY <2>3, <3>1, <3>2, <3>3, Zenon DEF OneFailure
  <2>5. Shown(w)
    BY <1>4, <1>5, <2>2, FiveTypes DEF Shown, Ready
  <2>6. Written(w)
    <3>1. Ready(w).is = Ready(s).is /\ Ready(w).reason = Ready(s).reason
      BY <2>2, FiveTypes, Zenon DEF Ready
    <3>2. \A t \in ConditionTypes : w.conds[t].is # "Missing"
      BY <1>7, <2>2, Zenon
    <3>3. \A t \in FailureTypes : w.conds[t].is = s.conds[t].is /\ w.conds[t].reason = s.conds[t].reason
      BY <2>2, FiveTypes, Zenon
    <3>4. w.config \in Configs
      BY <1>4, Zenon
    <3>. QED
      BY <2>4, <2>5, <3>1, <3>2, <3>3, <3>4, ZenonT(60) DEF Written
  <2>. QED
    BY <1>4, <2>2, <2>6 DEF Initialized
<1>. QED
  BY <1>6, <1>7, ZenonT(60) DEF Written

-----------------------------------------------------------------------------
(* Patches and metrics. *)

\* The fields of a merged status.
LEMMA MergeFields ==
    ASSUME NEW base \in Statuses, NEW target \in Statuses, NEW stored \in Statuses,
           NEW m, m = Merge(base, target, stored)
    PROVE  /\ m \in Statuses
           /\ m.conds = IF base.conds # target.conds THEN target.conds ELSE stored.conds
           /\ m.id = IF base.id # target.id THEN target.id ELSE stored.id
           /\ m.conflicts = IF base.conflicts # target.conflicts THEN target.conflicts ELSE stored.conflicts
           /\ m.config = IF base.config # target.config THEN target.config ELSE stored.config
           /\ m.rec = IF base.rec # target.rec THEN target.rec ELSE stored.rec
<1>1. DOMAIN stored = {"conds", "id", "conflicts", "config", "rec"}
  BY DEF Statuses
<1>2. m = [f \in {"conds", "id", "conflicts", "config", "rec"} |->
              IF base[f] # target[f] THEN target[f] ELSE stored[f]]
  BY <1>1 DEF Merge
<1>3. /\ m.conds = IF base.conds # target.conds THEN target.conds ELSE stored.conds
      /\ m.id = IF base.id # target.id THEN target.id ELSE stored.id
      /\ m.conflicts = IF base.conflicts # target.conflicts THEN target.conflicts ELSE stored.conflicts
      /\ m.config = IF base.config # target.config THEN target.config ELSE stored.config
      /\ m.rec = IF base.rec # target.rec THEN target.rec ELSE stored.rec
  BY <1>2
<1>4. m = [conds |-> m.conds, id |-> m.id, conflicts |-> m.conflicts, config |-> m.config, rec |-> m.rec]
  BY <1>2
<1>5. /\ m.conds \in [ConditionTypes -> Conditions] /\ m.id \in Identities
      /\ m.conflicts \in ConflictCauses \cup {{}} /\ m.config \in Configs \cup {NoConfig}
      /\ m.rec \in {"unclaimed", "pending", "confirmed"}
  BY <1>3 DEF Statuses
<1>6. m \in Statuses
  BY <1>4, <1>5 DEF Statuses
<1>. QED
  BY <1>3, <1>6

\* failureOutcomeConditionOrder names every failure condition.
LEMMA OrderNamesAll ==
    /\ DOMAIN FailureOrder = 1..4
    /\ \A i \in 1..4 : FailureOrder[i] \in FailureTypes
    /\ \A t \in FailureTypes : \E i \in 1..4 : FailureOrder[i] = t
    /\ \A i, j \in 1..4 : FailureOrder[i] = FailureOrder[j] => i = j
<1>1. /\ FailureOrder[1] = "InvalidRef" /\ FailureOrder[2] = "UnsafeSelector"
      /\ FailureOrder[3] = "Conflict" /\ FailureOrder[4] = "RenderFailure"
      /\ DOMAIN FailureOrder = 1..4
  BY DEF FailureOrder
<1>2. \A i \in 1..4 : i = 1 \/ i = 2 \/ i = 3 \/ i = 4
  OBVIOUS
<1>. QED
  BY <1>1, <1>2, FiveTypes

\* Labels with a condition are not NoLabels.
LEMMA LabelFields ==
    ASSUME NEW c \in ConditionTypes, NEW r \in Reasons, NEW l, l = [condition |-> c, reason |-> r]
    PROVE  /\ l \in [condition : ConditionTypes \cup {""}, reason : Reasons]
           /\ l.reason = r /\ l # NoLabels
<1>1. l.condition = c /\ l.reason = r /\ c # ""
  BY FiveTypes, ZenonT(60)
<1>2. NoLabels.condition = ""
  BY DEF NoLabels
<1>3. l # NoLabels
  BY <1>1, <1>2, ZenonT(60)
<1>. QED
  BY <1>1, <1>3, ZenonT(60)

\* NoLabels are labels.
LEMMA NoLabelFields ==
    NoLabels \in [condition : ConditionTypes \cup {""}, reason : Reasons] /\ NoLabels.reason = ""
BY DEF NoLabels, Reasons

\* deriveBindingOutcomeLabels on a coherent status.
LEMMA LabelsOfWritten ==
    ASSUME NEW s \in Statuses, Written(s), NEW allow \in BOOLEAN
    PROVE  LET l == OutcomeLabels(s, allow)
           IN  /\ l \in [condition : ConditionTypes \cup {""}, reason : Reasons]
               /\ l.reason # "UnclassifiedFailure"
               /\ ~allow => l.reason # "Initializing"
               /\ allow /\ Ready(s) # Missing => l # NoLabels
<1>. DEFINE l == OutcomeLabels(s, allow)
            r == s.conds["Ready"]
<1>1. r \in Conditions /\ \A t \in FailureTypes : s.conds[t].reason \in Reasons
  BY FiveTypes DEF Statuses, Conditions
<1>2. r.is \in {"Missing", "True", "False", "Unknown"} /\ r.reason \in Reasons
  BY <1>1 DEF Conditions
<1>3. "" \in Reasons /\ "Ready" \in ConditionTypes
  BY FiveTypes DEF Reasons
<1>4. CASE r.is = "True"
  <2>1. r.reason = "Reconciled"
    BY <1>4 DEF Written, Ready
  <2>2. l = [condition |-> "Ready", reason |-> "Reconciled"]
    BY <1>4, <2>1 DEF OutcomeLabels
  <2>. QED
    <3>1. "Reconciled" \in Reasons
      BY KnownReasons
    <3>. HIDE DEF l, r
    <3>. QED
      BY <1>3, <2>2, <3>1, LabelFields, ZenonT(60) DEF l
<1>5. CASE r.is = "False"
  <2>1. PICK t \in FailureTypes : {u \in FailureTypes : s.conds[u].is = "True"} = {t}
    BY <1>5 DEF Written, OneFailure, Ready
  <2>2. PICK i \in 1..4 : FailureOrder[i] = t
    BY OrderNamesAll
  <2>3. FirstFailure(s) = {i}
    <3>1. i \in FirstFailure(s)
      <4>1. \A j \in 1..(i - 1) : j \in 1..4 /\ j # i
        OBVIOUS
      <4>2. \A j \in 1..(i - 1) : s.conds[FailureOrder[j]].is # "True"
        BY <4>1, <2>1, <2>2, OrderNamesAll
      <4>3. s.conds[FailureOrder[i]].is = "True"
        BY <2>1, <2>2
      <4>. QED
        BY <4>2, <4>3, OrderNamesAll DEF FirstFailure
    <3>2. ASSUME NEW j \in FirstFailure(s) PROVE j = i
      <4>1. j \in 1..4 /\ s.conds[FailureOrder[j]].is = "True"
        BY OrderNamesAll, SMTT(30) DEF FirstFailure
      <4>. QED
        BY <4>1, <2>1, <2>2, OrderNamesAll
    <3>. QED
      BY <3>1, <3>2, ZenonT(60)
  <2>4. l = [condition |-> t, reason |-> s.conds[t].reason]
    BY <1>5, <2>2, <2>3, SMTT(30) DEF OutcomeLabels
  <2>5. s.conds[t].is = "True"
    BY <2>1
  <2>6. s.conds[t].reason \notin {"Initializing", "UnclassifiedFailure"}
    BY <2>5 DEF Written
  <2>7. t \in ConditionTypes /\ t # ""
    BY FiveTypes, ZenonT(60)
  <2>. QED
    <3>. DEFINE why == s.conds[t].reason
    <3>1. why \in Reasons /\ why # "Initializing" /\ why # "UnclassifiedFailure"
      BY <1>1, <2>6
    <3>2. l = [condition |-> t, reason |-> why]
      BY <2>4
    <3>. HIDE DEF l, why
    <3>3. l \in [condition : ConditionTypes \cup {""}, reason : Reasons] /\ l.reason = why /\ l # NoLabels
      BY <2>7, <3>1, <3>2, LabelFields, ZenonT(60)
    <3>. QED
      BY <3>1, <3>3, ZenonT(60) DEF l
<1>6. CASE r.is \in {"Missing", "Unknown"}
  <2>1. \A t \in FailureTypes : s.conds[t].is # "True"
    BY <1>6 DEF Written, OneFailure, Ready
  <2>2. FirstFailure(s) = {}
    BY <2>1, OrderNamesAll DEF FirstFailure
  <2>3. r.is = "Unknown" => r.reason = "Initializing"
    BY DEF Written, Ready
  <2>4. l = IF allow /\ r.is = "Unknown" THEN [condition |-> "Ready", reason |-> "Initializing"] ELSE NoLabels
    BY <1>6, <2>2, <2>3, SMTT(30) DEF OutcomeLabels
  <2>5. r.is = "Missing" => r = Missing
    BY FiveTypes DEF Written
  <2>. QED
    <3>. HIDE DEF l
    <3>1. CASE allow /\ r.is = "Unknown"
      <4>1. "Initializing" \in Reasons /\ l = [condition |-> "Ready", reason |-> "Initializing"]
        BY <2>4, <3>1, KnownReasons
      <4>2. /\ l \in [condition : ConditionTypes \cup {""}, reason : Reasons]
            /\ l.reason = "Initializing" /\ l # NoLabels
        BY <1>3, <4>1, LabelFields, ZenonT(60)
      <4>. QED
        BY <3>1, <4>2, ZenonT(60) DEF l
    <3>2. CASE ~(allow /\ r.is = "Unknown")
      <4>1. l = NoLabels /\ (allow => Ready(s) = Missing)
        BY <1>6, <2>4, <2>5, <3>2, SMTT(30) DEF Ready
      <4>. QED
        BY <4>1, NoLabelFields, ZenonT(60) DEF l
    <3>. QED
      BY <3>1, <3>2, ZenonT(60)
<1>. QED
  BY <1>2, <1>4, <1>5, <1>6, ZenonT(60)

-----------------------------------------------------------------------------
(* The parts of the invariant. *)

\* What is stored and cached.
StoredOK ==
    /\ live \in Copies /\ cache \in Copies
    /\ Written(live.status) /\ Written(cache.status)
    /\ live.fresh /\ Follows(live) /\ ShowsStored(live.status)
    /\ cache.fresh => cache = live
    /\ Follows(cache)

\* What the operator holds in memory.
MemoryOK ==
    /\ op \in Memories
    /\ Written(St)
    /\ op.pc \in {"conflicts", "cleanup", "apply"} => Working
    /\ op.pc = "status" => ShowsStored(St)

\* The configuration, the counted outcome and the bounds.
RestOK ==
    /\ config \in Configs
    /\ outcome \in [condition : ConditionTypes \cup {""}, reason : Reasons \cup {"UnclassifiedFailure"}]
    /\ outcome.reason \notin {"UnclassifiedFailure", "Initializing"}
    /\ moves \in 0 .. MaxMoves
    /\ faults \in 0 .. MaxFaults

\* The invariant is the conjunction of the three parts.
LEMMA Parts == StatusInvariant <=> StoredOK /\ MemoryOK /\ RestOK
BY Zenon DEF StatusInvariant, StatusTypeOK, StoredOK, MemoryOK, RestOK

\* The same of the next state.
LEMMA PartsNext == StatusInvariant' <=> StoredOK' /\ MemoryOK' /\ RestOK'
BY Zenon DEF StatusInvariant, StatusTypeOK, StoredOK, MemoryOK, RestOK

\* The status of a new binding, and a binding that is not there.
LEMMA AbsentOK ==
    /\ NewStatus \in Statuses /\ Written(NewStatus)
    /\ Absent \in Copies /\ Absent.fresh /\ ~Absent.there /\ Absent.status = NewStatus
    /\ Ready(NewStatus) = Missing
<1>1. Missing \in Conditions
  BY DEF Missing, Condition, Conditions, Reasons, Notes
<1>2. /\ NewStatus.conds = [t \in ConditionTypes |-> Missing]
      /\ NewStatus.id = None /\ NewStatus.conflicts = {}
      /\ NewStatus \in Statuses
  BY <1>1 DEF NewStatus, Statuses, Identities
<1>3. \A t \in ConditionTypes : NewStatus.conds[t] = Missing
  BY <1>2
<1>4. OneFailure(NewStatus)
  BY <1>3, MissingIs, FiveTypes DEF OneFailure, Ready
<1>5. Shown(NewStatus)
  BY <1>2, <1>3, MissingIs, FiveTypes, SMTT(30) DEF Shown, Ready
<1>6. Written(NewStatus)
  BY <1>3, <1>4, <1>5, MissingIs, FiveTypes, SMTT(30) DEF Written, Ready
<1>7. Absent \in Copies /\ Absent.fresh /\ ~Absent.there /\ Absent.status = NewStatus
  BY <1>2 DEF Absent, Copies
<1>. QED
  BY <1>2, <1>3, <1>6, <1>7, FiveTypes, SMTT(30) DEF Ready

\* The memory between two reconciles.
LEMMA IdleOK ==
    /\ IdleOp \in Memories /\ IdleOp.pc = "idle" /\ IdleOp.copy = Absent
    /\ DOMAIN IdleOp = {"pc", "copy", "id", "goal", "moved", "ends"}
BY AbsentOK DEF IdleOp, Memories, Identities

\* A reconcile that returns leaves nothing to remember.
LEMMA IdleStep == ASSUME op' = IdleOp PROVE MemoryOK'
<1>1. op' \in Memories /\ op'.pc = "idle" /\ St' = NewStatus
  BY IdleOK, AbsentOK DEF St
<1>. QED
  BY <1>1, AbsentOK DEF MemoryOK

\* The memory of a reconcile that only has to patch status s.
LEMMA FinishFields ==
    ASSUME op \in Memories, NEW s \in Statuses, NEW ends \in BOOLEAN
    PROVE  LET o == Finish(s, ends)
           IN  o \in Memories /\ o.pc = "status" /\ o.copy.status = s /\ o.ends = ends
<1>. DEFINE o == Finish(s, ends)
            copy == [Absent EXCEPT !.status = s]
            moved == WithStatus(op, s).moved
<1>1. moved = (op.moved \/ \E t \in ConditionTypes : s.conds[t].is # op.copy.status.conds[t].is)
  BY DEF WithStatus, Memories
<1>2. moved \in BOOLEAN
  BY <1>1 DEF Memories
<1>3. copy \in Copies /\ copy.status = s
  BY AbsentOK DEF Copies
<1>4. o = [IdleOp EXCEPT !.pc = "status", !.copy = copy, !.moved = moved, !.ends = ends]
  BY DEF Finish
<1>. HIDE DEF o, copy, moved
<1>. QED
  BY <1>2, <1>3, <1>4, IdleOK, ZenonT(60) DEF Memories, o

\* The reconcile ends with a status other than success.
LEMMA FinishStep ==
    ASSUME op \in Memories, NEW s \in Statuses, Written(s), Ready(s).is # "True",
           NEW ends \in BOOLEAN, op' = Finish(s, ends)
    PROVE  MemoryOK'
<1>1. op' \in Memories /\ op'.pc = "status" /\ op'.copy.status = s
  BY FinishFields
<1>2. St' = s
  BY <1>1 DEF St
<1>3. Ready(St') = Ready(s) /\ Written(St')
  BY <1>2
<1>. QED
  BY <1>1, <1>3, ZenonT(60) DEF MemoryOK, ShowsStored, Written, Ready, OneFailure, Shown

-----------------------------------------------------------------------------
(* What changes the stored binding. *)

\* The stored binding becomes `new', which is a later state of the same binding if there
\* was one, and shows no success that is not its own.
Later(new) ==
    /\ new \in Copies /\ new.fresh /\ Written(new.status)
    /\ new.there => new.spec \in Specs
    /\ live.there => /\ new.there /\ live.gen <= new.gen
                     /\ live.gen = new.gen => live.spec = new.spec
    /\ Ready(new.status).is = "True" =>
          /\ new.there
          /\ Ready(new.status).gen <= new.gen
          /\ Ready(new.status).gen = new.gen =>
                new.status.id = [spec |-> new.spec, td |-> new.status.config.td]

\* Orders of generations.
LEMMA GenerationOrder ==
    \A g, l, n \in Nat : g <= l /\ l <= n => g <= n /\ (g = n => g = l /\ l = n)
OBVIOUS

\* A later binding is one that every earlier copy follows.
LEMMA FollowsLater ==
    ASSUME NEW c \in Copies, live \in Copies, live' \in Copies, Follows(c),
           live.there => /\ live'.there /\ live.gen <= live'.gen
                         /\ live.gen = live'.gen => live.spec = live'.spec
    PROVE  c.there => /\ c.spec \in Specs
                      /\ ~c.deleting => /\ live'.there /\ c.gen <= live'.gen
                                        /\ c.gen = live'.gen => c.spec = live'.spec
<1>1. c.gen \in Nat /\ live.gen \in Nat /\ live'.gen \in Nat
  BY DEF Copies
<1>. QED
  BY <1>1, GenerationOrder, SMTT(30) DEF Follows

\* Storing a later binding keeps what is stored and cached coherent.
LEMMA StoreStep ==
    ASSUME StoredOK, NEW new, Later(new), Store(new)
    PROVE  StoredOK'
<1>1. live' = new /\ live' \in Copies /\ live'.fresh
  BY DEF Store, Later
<1>2. live.there => /\ live'.there /\ live.gen <= live'.gen
                    /\ live.gen = live'.gen => live.spec = live'.spec
  BY <1>1 DEF Later
<1>3. live.gen \in Nat /\ live'.gen \in Nat
  BY <1>1 DEF StoredOK, Copies
<1>4. Follows(live)'
  BY <1>1, <1>3 DEF Follows, Later
<1>5. ShowsStored(live.status)'
  BY <1>1, ZenonT(60) DEF ShowsStored, Later, Ready
<1>6. Written(live.status)'
  <2>1. Written(live'.status)
    BY <1>1 DEF Later
  <2>. QED
    BY <2>1, ZenonT(60) DEF Written, OneFailure, Shown, Ready
<1>7. \/ cache' = live'
      \/ cache' = [cache EXCEPT !.fresh = FALSE]
  BY ZenonT(60) DEF Store
<1>8. CASE cache' = live'
  BY <1>1, <1>4, <1>5, <1>6, <1>8, ZenonT(60) DEF StoredOK, Follows, Written, OneFailure, Shown, Ready
<1>9. CASE cache' = [cache EXCEPT !.fresh = FALSE]
  <2>1. /\ cache' \in Copies /\ ~cache'.fresh
        /\ cache'.status = cache.status /\ cache'.there = cache.there /\ cache'.deleting = cache.deleting
        /\ cache'.gen = cache.gen /\ cache'.spec = cache.spec
    BY <1>9, ZenonT(60) DEF StoredOK, Copies
  <2>2. cache.there => /\ cache.spec \in Specs
                       /\ ~cache.deleting => /\ live'.there /\ cache.gen <= live'.gen
                                             /\ cache.gen = live'.gen => cache.spec = live'.spec
    BY <1>1, <1>2, FollowsLater DEF StoredOK
  <2>3. Follows(cache)'
    BY <2>1, <2>2 DEF Follows
  <2>4. Written(cache.status)'
    <3>1. Written(cache'.status)
      BY <2>1 DEF StoredOK
    <3>. QED
      BY <3>1, ZenonT(60) DEF Written, OneFailure, Shown, Ready
  <2>. QED
    BY <1>1, <1>4, <1>5, <1>6, <2>1, <2>3, <2>4 DEF StoredOK
<1>. QED
  BY <1>7, <1>8, <1>9

\* A success shown before is one shown of a later binding.
LEMMA ShownLater ==
    ASSUME NEW s \in Statuses, live \in Copies, live' \in Copies, ShowsStored(s),
           live.there => /\ live'.there /\ live.gen <= live'.gen
                         /\ live.gen = live'.gen => live.spec = live'.spec
    PROVE  Ready(s).is = "True" =>
               /\ live'.there
               /\ Ready(s).gen <= live'.gen
               /\ Ready(s).gen = live'.gen => s.id = [spec |-> live'.spec, td |-> s.config.td]
<1>1. Ready(s).gen \in Nat /\ live.gen \in Nat /\ live'.gen \in Nat
  BY FiveTypes DEF Copies, Statuses, Conditions, Ready
<1>. QED
  BY <1>1, GenerationOrder, SMTT(30) DEF ShowsStored

\* What somebody else stores leaves the operator's memory coherent.
LEMMA OutdatedStep ==
    ASSUME StoredOK, MemoryOK, live' \in Copies, config' = config, OutdateCopy,
           live.there => /\ live'.there /\ live.gen <= live'.gen
                         /\ live.gen = live'.gen => live.spec = live'.spec
    PROVE  MemoryOK'
<1>1. live \in Copies
  BY DEF StoredOK
<1>2. CASE op.pc = "idle"
  <2>1. op' = op /\ St' = St
    BY <1>2, SMTT(30) DEF OutdateCopy, St
  <2>. QED
    BY <1>2, <2>1, ZenonT(60) DEF MemoryOK, Written, OneFailure, Shown, Ready
<1>3. CASE op.pc = "status"
  <2>1. op' = op /\ St' = St
    BY <1>3, SMTT(30) DEF OutdateCopy, St
  <2>2. St \in Statuses /\ ShowsStored(St)
    BY <1>3 DEF MemoryOK, Memories, Copies, St
  <2>3. Ready(St).is = "True" =>
           /\ live'.there
           /\ Ready(St).gen <= live'.gen
           /\ Ready(St).gen = live'.gen => St.id = [spec |-> live'.spec, td |-> St.config.td]
    BY <1>1, <2>2, ShownLater, ZenonT(60)
  <2>4. ShowsStored(St)'
    BY <2>1, <2>3, SMTT(30) DEF ShowsStored, Ready
  <2>. QED
    BY <1>3, <2>1, <2>4, ZenonT(60) DEF MemoryOK, Written, OneFailure, Shown, Ready
<1>4. CASE op.pc \in {"conflicts", "cleanup", "apply"}
  <2>1. op' = [op EXCEPT !.copy = [@ EXCEPT !.fresh = FALSE]]
    BY <1>4 DEF OutdateCopy
  <2>2. op.copy \in Copies /\ op \in Memories
    BY DEF MemoryOK, Memories
  <2>3. /\ op' \in Memories /\ ~op'.copy.fresh
        /\ op'.pc = op.pc /\ op'.id = op.id /\ op'.goal = op.goal
        /\ op'.copy.there = op.copy.there /\ op'.copy.deleting = op.copy.deleting
        /\ op'.copy.gen = op.copy.gen /\ op'.copy.spec = op.copy.spec
        /\ op'.copy.status = op.copy.status
    BY <2>1, <2>2, ZenonT(60) DEF Memories, Copies
  <2>4. St' = St
    BY <2>3 DEF St
  <2>5. Working
    BY <1>4 DEF MemoryOK
  <2>6. Follows(op.copy)
    BY <2>5, ZenonT(60) DEF Working
  <2>7. op.copy.there => /\ op.copy.spec \in Specs
                         /\ ~op.copy.deleting => /\ live'.there /\ op.copy.gen <= live'.gen
                                                 /\ op.copy.gen = live'.gen => op.copy.spec = live'.spec
    BY <1>1, <2>2, <2>6, FollowsLater
  <2>8. Follows(op.copy)'
    BY <2>3, <2>7, SMTT(30) DEF Follows
  <2>9. Working'
    BY <2>3, <2>4, <2>5, <2>8, ZenonT(60) DEF Working
  <2>. QED
    BY <1>4, <2>3, <2>4, <2>9, ZenonT(60) DEF MemoryOK, Written, OneFailure, Shown, Ready
<1>. QED
  BY <1>2, <1>3, <1>4, ZenonT(60) DEF MemoryOK, Memories

\* The bounds stay bounds.
LEMMA Counting ==
    \A m \in Nat : \A n \in 0 .. m : n < m => n + 1 \in 0 .. m
OBVIOUS

\* The bounds are numbers.
LEMMA Bounds == MaxMoves \in Nat /\ MaxFaults \in Nat
BY StatusConstants, ZenonT(60)

\* A user's step.
LEMMA MoveStep ==
    ASSUME StatusInvariant, NEW new, Later(new), Move(new)
    PROVE  StatusInvariant'
<1>1. StoredOK /\ MemoryOK /\ RestOK
  BY Parts
<1>2. Store(new) /\ OutdateCopy /\ config' = config /\ outcome' = outcome /\ faults' = faults
  BY DEF Move
<1>3. StoredOK'
  BY <1>1, <1>2, StoreStep
<1>4. /\ live' \in Copies
      /\ live.there => /\ live'.there /\ live.gen <= live'.gen
                       /\ live.gen = live'.gen => live.spec = live'.spec
  BY <1>2, SMTT(30) DEF Store, Later
<1>5. MemoryOK'
  BY <1>1, <1>2, <1>4, OutdatedStep
<1>6. moves' \in 0 .. MaxMoves
  <2>1. moves \in 0 .. MaxMoves /\ moves < MaxMoves /\ moves' = moves + 1
    BY <1>1, ZenonT(60) DEF Move, RestOK
  <2>. QED
    BY <2>1, Bounds, Counting
<1>. QED
  BY <1>1, <1>2, <1>3, <1>5, <1>6, PartsNext, ZenonT(60) DEF RestOK

\* CreateBinding.
LEMMA CreateStep ==
    ASSUME StatusInvariant, NEW s \in Specs, CreateBinding(s)
    PROVE  StatusInvariant'
<1>. DEFINE new == Created(s)
<1>1. /\ new \in Copies /\ new.fresh /\ new.there /\ new.spec = s /\ new.status = NewStatus
  BY AbsentOK, ZenonT(60) DEF Created, Absent, Copies
<1>2. Move(new) /\ ~live.there
  BY DEF CreateBinding
<1>. HIDE DEF new
<1>3. Later(new)
  BY <1>1, <1>2, AbsentOK, MissingIs, ZenonT(60) DEF Later
<1>. QED
  BY <1>2, <1>3, MoveStep

\* EditSpec.
LEMMA EditStep ==
    ASSUME StatusInvariant, NEW s \in Specs, EditSpec(s)
    PROVE  StatusInvariant'
<1>1. StoredOK /\ live \in Copies /\ live.gen \in Nat
  BY Parts DEF StoredOK, Copies
<1>. PICK g \in Nat : g = live.gen + 1
  BY <1>1
<1>. DEFINE new == [live EXCEPT !.spec = s, !.gen = g]
<1>2. /\ new \in Copies /\ new.fresh = live.fresh /\ new.there = live.there /\ new.spec = s
      /\ new.status = live.status /\ new.gen = g
  BY <1>1, ZenonT(60) DEF Copies
<1>3. Move(new) /\ live.there
  BY <1>1 DEF EditSpec, Copies
<1>. HIDE DEF new
<1>4. Ready(live.status).gen \in Nat
  BY <1>1, FiveTypes DEF Copies, Statuses, Conditions, Ready
<1>5. /\ live.gen <= new.gen /\ live.gen # new.gen
      /\ Ready(live.status).gen <= live.gen => Ready(live.status).gen <= new.gen /\ Ready(live.status).gen # new.gen
  BY <1>1, <1>2, <1>4
<1>6. Later(new)
  BY <1>1, <1>2, <1>3, <1>5, ZenonT(60) DEF Later, StoredOK, ShowsStored
<1>. QED
  BY <1>3, <1>6, MoveStep

\* DeleteBinding.
LEMMA DeleteStep ==
    ASSUME StatusInvariant, DeleteBinding
    PROVE  StatusInvariant'
<1>1. StoredOK /\ live \in Copies /\ live.gen \in Nat
  BY Parts DEF StoredOK, Copies
<1>. PICK g \in Nat : g = live.gen + 1
  BY <1>1
<1>. DEFINE new == [live EXCEPT !.deleting = TRUE, !.gen = g]
<1>2. /\ new \in Copies /\ new.fresh = live.fresh /\ new.there = live.there /\ new.spec = live.spec
      /\ new.status = live.status /\ new.gen = g
  BY <1>1, ZenonT(60) DEF Copies
<1>3. Move(new) /\ live.there
  BY <1>1 DEF DeleteBinding, Copies
<1>. HIDE DEF new
<1>4. Ready(live.status).gen \in Nat
  BY <1>1, FiveTypes DEF Copies, Statuses, Conditions, Ready
<1>5. /\ live.gen <= new.gen /\ live.gen # new.gen
      /\ Ready(live.status).gen <= live.gen => Ready(live.status).gen <= new.gen /\ Ready(live.status).gen # new.gen
  BY <1>1, <1>2, <1>4
<1>6. Later(new)
  BY <1>1, <1>2, <1>3, <1>5, ZenonT(60) DEF Later, StoredOK, ShowsStored, Follows
<1>. QED
  BY <1>3, <1>6, MoveStep, SMTT(30)

\* Only the ownership record of a coherent status changes.
LEMMA RecordWritten ==
    ASSUME NEW s \in Statuses, NEW rec \in {"unclaimed", "pending", "confirmed"}
    PROVE  LET w == [s EXCEPT !.rec = rec]
           IN  /\ w \in Statuses
               /\ w.conds = s.conds /\ w.id = s.id /\ w.conflicts = s.conflicts /\ w.config = s.config
               /\ w.rec = rec
               /\ Ready(w) = Ready(s)
               /\ Written(s) => Written(w)
<1>. DEFINE w == [s EXCEPT !.rec = rec]
<1>1. /\ w \in Statuses
      /\ w.conds = s.conds /\ w.id = s.id /\ w.conflicts = s.conflicts /\ w.config = s.config
      /\ w.rec = rec
  BY SMTT(30) DEF Statuses
<1>. HIDE DEF w
<1>2. Written(s) => Written(w)
  BY <1>1, ZenonT(60) DEF Written, OneFailure, Shown, Ready
<1>. QED
  BY <1>1, <1>2, SMTT(30) DEF Ready, w

\* RecordElsewhere.
LEMMA RecordStep ==
    ASSUME StatusInvariant, NEW rec \in {"confirmed", "unclaimed"}, RecordElsewhere(rec)
    PROVE  StatusInvariant'
<1>. DEFINE status == [live.status EXCEPT !.rec = rec]
            new == [live EXCEPT !.status = status]
<1>1. StoredOK /\ MemoryOK /\ RestOK
  BY Parts
<1>2. live \in Copies /\ live.status \in Statuses /\ live.gen \in Nat
  BY <1>1 DEF StoredOK, Copies
<1>3. /\ status \in Statuses /\ status.id = live.status.id /\ status.config = live.status.config
      /\ Ready(status) = Ready(live.status) /\ Written(status)
  <2>1. Written(live.status) /\ rec \in {"unclaimed", "pending", "confirmed"}
    BY <1>1 DEF StoredOK
  <2>. QED
    BY <1>2, <2>1, RecordWritten, ZenonT(60)
<1>4. Store([live EXCEPT !.status = [@ EXCEPT !.rec = rec]]) /\ OutdateCopy /\ live.there
  BY DEF RecordElsewhere
<1>5. Store(new)
  BY <1>2, <1>4 DEF Copies
<1>. HIDE DEF status
<1>6. /\ new \in Copies /\ new.fresh = live.fresh /\ new.there = live.there /\ new.spec = live.spec
      /\ new.status = status /\ new.gen = live.gen
  BY <1>2, <1>3, SMTT(30) DEF Copies
<1>. HIDE DEF new
<1>7. Later(new)
  BY <1>1, <1>2, <1>3, <1>4, <1>6 DEF Later, StoredOK, ShowsStored, Follows
<1>8. StoredOK'
  BY <1>1, <1>5, <1>7, StoreStep
<1>9. /\ live' \in Copies /\ config' = config
      /\ live.there => /\ live'.there /\ live.gen <= live'.gen
                       /\ live.gen = live'.gen => live.spec = live'.spec
  BY <1>5, <1>7, ZenonT(60) DEF Store, Later, RecordElsewhere
<1>10. MemoryOK'
  BY <1>1, <1>4, <1>9, OutdatedStep
<1>. QED
  BY <1>1, <1>8, <1>10, PartsNext, ZenonT(60) DEF RestOK, RecordElsewhere

-----------------------------------------------------------------------------
(* The steps of a reconcile. *)

\* A step that stores nothing.
LEMMA KeepStored == ASSUME StoredOK, Keep PROVE StoredOK'
<1>1. live' = live /\ cache' = cache
  BY DEF Keep
<1>2. Written(live.status)' /\ Written(cache.status)'
  <2>1. Written(live'.status) /\ Written(cache'.status)
    BY <1>1 DEF StoredOK
  <2>. QED
    BY <2>1, Zenon DEF Written, OneFailure, Shown, Ready
<1>3. Follows(live)' /\ Follows(cache)' /\ ShowsStored(live.status)'
  BY <1>1, ZenonT(60) DEF StoredOK, Follows, ShowsStored, Ready
<1>. QED
  BY <1>1, <1>2, <1>3 DEF StoredOK

\* What is in memory has its type.
LEMMA MemoryTypes ==
    ASSUME MemoryOK
    PROVE  op \in Memories /\ op.copy \in Copies /\ St \in Statuses /\ Gen \in Nat /\ Written(St)
BY DEF MemoryOK, Memories, Copies, St, Gen

\* A call fails, and the reconcile ends with a failure.
LEMMA FailedStep == ASSUME MemoryOK, op' = FinishFailed PROVE MemoryOK'
<1>1. op \in Memories /\ St \in Statuses /\ Gen \in Nat
  BY MemoryTypes
<1>. DEFINE w == ApplyFailure(St, Gen, ApplyFailed)
<1>2. ApplyFailed \in StateErrors \cup {ApplyFailed, CRDMissing}
  OBVIOUS
<1>3. w \in Statuses /\ Written(w) /\ Ready(w).is = "False"
  BY <1>1, <1>2, FailureWritten, Zenon
<1>4. op' = Finish(w, TRUE) /\ TRUE \in BOOLEAN
  BY DEF FinishFailed
<1>. HIDE DEF w
<1>. QED
  BY <1>1, <1>3, <1>4, FinishStep, ZenonT(60)

\* A fault that is answered for.
LEMMA AnswerStep == ASSUME RestOK, NEW r, Answer(r) PROVE faults' \in 0 .. MaxFaults
BY Bounds, Counting, ZenonT(60) DEF Answer, RestOK

\* OutputCallFailed.
LEMMA OutputFailedStep == ASSUME StatusInvariant, OutputCallFailed PROVE StatusInvariant'
<1>1. StoredOK /\ MemoryOK /\ RestOK
  BY Parts
<1>2. Keep /\ op' = FinishFailed /\ Answer("fail") /\ UNCHANGED <<config, outcome, moves>>
  BY DEF OutputCallFailed, Keep
<1>3. StoredOK' /\ MemoryOK' /\ faults' \in 0 .. MaxFaults
  BY <1>1, <1>2, KeepStored, FailedStep, AnswerStep, SMTT(30)
<1>. QED
  BY <1>1, <1>2, <1>3, PartsNext, ZenonT(60) DEF RestOK

\* A step that touches the memory only.
LEMMA MemoryStep ==
    ASSUME StatusInvariant, UNCHANGED <<live, cache, config, outcome, moves, faults>>, MemoryOK'
    PROVE  StatusInvariant'
<1>1. StoredOK /\ MemoryOK /\ RestOK
  BY Parts
<1>2. StoredOK'
  BY <1>1, KeepStored DEF Keep
<1>. QED
  BY <1>1, <1>2, PartsNext, ZenonT(60) DEF RestOK

\* Conflicting.
LEMMA ConflictingStep ==
    ASSUME StatusInvariant, NEW causes \in ConflictCauses, Conflicting(causes)
    PROVE  StatusInvariant'
<1>1. op \in Memories /\ St \in Statuses /\ Gen \in Nat
  BY Parts, MemoryTypes
<1>. DEFINE w == ApplyConflict(St, Gen, causes)
<1>2. w \in Statuses /\ Written(w) /\ Ready(w).is = "False"
  BY <1>1, ConflictWritten, Zenon
<1>3. op' = Finish(w, TRUE) /\ TRUE \in BOOLEAN
  BY DEF Conflicting
<1>. HIDE DEF w
<1>4. MemoryOK'
  BY <1>1, <1>2, <1>3, FinishStep, ZenonT(60)
<1>. QED
  BY <1>4, MemoryStep DEF Conflicting

\* ConflictPending.
LEMMA ConflictPendingStep == ASSUME StatusInvariant, ConflictPending PROVE StatusInvariant'
<1>1. op \in Memories /\ St \in Statuses /\ Gen \in Nat
  BY Parts, MemoryTypes
<1>. DEFINE w == ApplyPendingConflict(St, Gen)
<1>2. w \in {ApplyPendingOutput(St, Gen), ApplyPendingConflict(St, Gen), ApplyPendingReplacement(St, Gen)}
  OBVIOUS
<1>3. w \in Statuses /\ Written(w) /\ Ready(w).is = "Unknown"
  BY <1>1, <1>2, PendingWriters, Zenon
<1>4. op' = Finish(w, FALSE) /\ FALSE \in BOOLEAN
  BY DEF ConflictPending
<1>. HIDE DEF w
<1>5. MemoryOK'
  BY <1>1, <1>3, <1>4, FinishStep, ZenonT(60)
<1>. QED
  BY <1>5, MemoryStep DEF ConflictPending

\* The goals of a cleanup.
LEMMA Goals ==
    /\ NoGoal # Finalize /\ NoGoal # Rename /\ Finalize # Rename
    /\ \A e \in StateErrors \cup {CRDMissing} : e \notin {NoGoal, Finalize, Rename}
<1>1. NoGoal.type = "" /\ Finalize.type = "" /\ Rename.type = ""
  BY DEF NoGoal, Finalize, Rename
<1>2. NoGoal.reason = "" /\ Finalize.reason = "finalize" /\ Rename.reason = "rename"
  BY DEF NoGoal, Finalize, Rename
<1>3. "" \notin FailureTypes
  BY FiveTypes
<1>4. \A e \in StateErrors \cup {CRDMissing} : e.type \in FailureTypes
  BY ErrorFields, Zenon
<1>5. NoGoal # Finalize /\ NoGoal # Rename /\ Finalize # Rename
  BY <1>2, ZenonT(60)
<1>. QED
  BY <1>1, <1>3, <1>4, <1>5, ZenonT(60)

\* The working memory goes on in another phase, with the same copy.
LEMMA PhaseStep ==
    ASSUME MemoryOK, op.pc \in {"conflicts", "cleanup", "apply"},
           UNCHANGED <<live, cache, config>>,
           NEW pc \in {"cleanup", "apply"}, NEW goal \in {NoGoal, Rename, CRDMissing},
           op' = [op EXCEPT !.pc = pc, !.goal = goal],
           op.goal \in {NoGoal, Rename}, pc = "cleanup" <=> goal # NoGoal
    PROVE  MemoryOK'
<1>1. op \in Memories /\ Working
  BY DEF MemoryOK
<1>2. /\ op' \in Memories /\ op'.pc = pc /\ op'.goal = goal
      /\ op'.copy = op.copy /\ op'.id = op.id
  BY <1>1, ZenonT(60) DEF Memories
<1>3. op.goal # Finalize /\ goal # Finalize
  BY Goals
<1>4. St' = St /\ live' = live /\ cache' = cache /\ config' = config
  BY <1>2 DEF St
<1>5. Follows(op.copy)' <=> Follows(op.copy)
  BY <1>2, <1>4 DEF Follows
<1>6. Stamped(St)' <=> Stamped(St)
  BY <1>4 DEF Stamped
<1>7. Working'
  BY <1>1, <1>2, <1>3, <1>4, <1>5, <1>6 DEF Working
<1>8. Written(St)'
  BY <1>4, ZenonT(60) DEF MemoryOK, Written, OneFailure, Shown, Ready
<1>. QED
  BY <1>2, <1>7, <1>8 DEF MemoryOK

\* Exclusive.
LEMMA ExclusiveStep ==
    ASSUME StatusInvariant, NEW renamed \in BOOLEAN, Exclusive(renamed)
    PROVE  StatusInvariant'
<1>. DEFINE pc == IF renamed THEN "cleanup" ELSE "apply"
            goal == IF renamed THEN Rename ELSE NoGoal
<1>1. MemoryOK /\ op.pc = "conflicts" /\ Working
  BY Parts DEF Exclusive, MemoryOK
<1>2. op.goal = NoGoal
  BY <1>1, ZenonT(60) DEF Working
<1>3. /\ op' = [op EXCEPT !.pc = pc, !.goal = goal]
      /\ UNCHANGED <<live, cache, config, outcome, moves, faults>>
  BY DEF Exclusive
<1>4. pc \in {"cleanup", "apply"} /\ goal \in {NoGoal, Rename, CRDMissing} /\ (pc = "cleanup" <=> goal # NoGoal)
  BY Goals
<1>. HIDE DEF pc, goal
<1>5. MemoryOK'
  BY <1>1, <1>2, <1>3, <1>4, PhaseStep, ZenonT(60)
<1>. QED
  BY <1>3, <1>5, MemoryStep, SMTT(30)

\* OutputCRDMissing.
LEMMA CRDMissingStep == ASSUME StatusInvariant, OutputCRDMissing PROVE StatusInvariant'
<1>1. MemoryOK /\ op.pc = "apply" /\ Working
  BY Parts DEF OutputCRDMissing, MemoryOK
<1>2. op.goal = NoGoal
  BY <1>1, ZenonT(60) DEF Working
<1>3. /\ op' = [op EXCEPT !.pc = "cleanup", !.goal = CRDMissing]
      /\ UNCHANGED <<live, cache, config, outcome, moves, faults>>
  BY DEF OutputCRDMissing
<1>4. CRDMissing # NoGoal
  BY Goals
<1>5. MemoryOK'
  BY <1>1, <1>2, <1>3, <1>4, PhaseStep, SMTT(30)
<1>. QED
  BY <1>3, <1>5, MemoryStep

\* CleanedUp.
LEMMA CleanedUpStep == ASSUME StatusInvariant, CleanedUp PROVE StatusInvariant'
<1>1. MemoryOK /\ op.pc = "cleanup" /\ Working
  BY Parts DEF CleanedUp, MemoryOK
<1>2. op \in Memories /\ St \in Statuses /\ Gen \in Nat
  BY <1>1, MemoryTypes
<1>3. UNCHANGED <<live, cache, config, outcome, moves, faults>>
  BY DEF CleanedUp
<1>4. CASE op.goal = Finalize
  <2>1. op' = IdleOp
    BY <1>4, Goals, Zenon DEF CleanedUp
  <2>. QED
    BY <1>3, <2>1, IdleStep, MemoryStep, SMTT(30)
<1>5. CASE op.goal = Rename /\ St.rec = "confirmed"
  <2>. DEFINE w == ApplyPendingReplacement(St, Gen)
  <2>1. w \in {ApplyPendingOutput(St, Gen), ApplyPendingConflict(St, Gen), ApplyPendingReplacement(St, Gen)}
    OBVIOUS
  <2>2. w \in Statuses /\ Written(w) /\ Ready(w).is = "Unknown"
    BY <1>2, <2>1, PendingWriters, Zenon
  <2>3. op' = Finish(w, FALSE) /\ FALSE \in BOOLEAN
    BY <1>5, Goals, ZenonT(60) DEF CleanedUp
  <2>. HIDE DEF w
  <2>4. MemoryOK'
    BY <1>2, <2>2, <2>3, FinishStep, ZenonT(60)
  <2>. QED
    BY <1>3, <2>4, MemoryStep, SMTT(30)
<1>6. CASE op.goal = Rename /\ St.rec # "confirmed"
  <2>1. op' = [op EXCEPT !.pc = "apply", !.goal = NoGoal]
    BY <1>6, Goals, Zenon DEF CleanedUp
  <2>2. MemoryOK'
    BY <1>1, <1>3, <1>6, <2>1, PhaseStep, SMTT(30)
  <2>. QED
    BY <1>3, <2>2, MemoryStep
<1>7. CASE op.goal \notin {Finalize, Rename}
  <2>1. op.goal \in StateErrors \cup {ApplyFailed, CRDMissing}
    BY <1>1, <1>2, <1>7, ZenonT(60) DEF Working, Memories
  <2>. DEFINE w == ApplyFailure(St, Gen, op.goal)
  <2>2. w \in Statuses /\ Written(w) /\ Ready(w).is = "False"
    BY <1>2, <2>1, FailureWritten, Zenon
  <2>3. op' = Finish(w, TRUE) /\ TRUE \in BOOLEAN
    BY <1>7, Zenon DEF CleanedUp
  <2>. HIDE DEF w
  <2>4. MemoryOK'
    BY <1>2, <2>2, <2>3, FinishStep, ZenonT(60)
  <2>. QED
    BY <1>3, <2>4, MemoryStep
<1>. QED
  BY <1>4, <1>5, <1>6, <1>7, SMTT(30)

\* Rendered identities.
LEMMA IdentityFields ==
    ASSUME NEW s \in Specs, NEW c \in Configs
    PROVE  [spec |-> s, td |-> c.td] \in Identities \ {None}
<1>1. [spec |-> s, td |-> c.td] # None
  BY StatusConstants, Zenon
<1>2. c.td \in {d.td : d \in Configs}
  OBVIOUS
<1>. QED
  BY <1>1, <1>2 DEF Identities

\* Applied.
LEMMA AppliedStep == ASSUME StatusInvariant, Applied PROVE StatusInvariant'
<1>1. StoredOK /\ MemoryOK /\ RestOK /\ op.pc = "apply" /\ Working
  BY Parts DEF Applied, MemoryOK
<1>2. op \in Memories /\ op.copy \in Copies /\ St \in Statuses /\ Gen \in Nat
  BY <1>1, MemoryTypes
<1>3. UNCHANGED <<live, cache, config, outcome, moves, faults>> /\ op' = Finish(ApplySuccess(St, Gen, op.id), TRUE)
  BY DEF Applied
<1>4. op.goal = NoGoal /\ op.goal # Finalize /\ op.goal \in {NoGoal, Rename}
  BY <1>1, Goals, ZenonT(60) DEF Working
<1>5. /\ op.copy.there /\ ~op.copy.deleting /\ St.config = config
      /\ op.id = [spec |-> op.copy.spec, td |-> config.td]
      /\ op.copy.spec \in Specs /\ live.there /\ op.copy.gen <= live.gen
      /\ op.copy.gen = live.gen => op.copy.spec = live.spec
  BY <1>1, <1>4, ZenonT(60) DEF Working, Follows
<1>6. config \in Configs
  BY <1>1, ZenonT(60) DEF RestOK
<1>7. op.id \in Identities \ {None}
  BY <1>5, <1>6, IdentityFields, ZenonT(60)
<1>8. PICK w : w = ApplySuccess(St, Gen, op.id)
  BY ZenonT(60)
<1>9. /\ w \in Statuses /\ Written(w)
      /\ Ready(w).is = "True" /\ Ready(w).gen = Gen /\ w.id = op.id /\ w.config = St.config
  <2>1. St.config \in Configs
    BY <1>5, <1>6, Zenon
  <2>2. PICK s \in Statuses, g \in Nat, id \in Identities \ {None} : s = St /\ g = Gen /\ id = op.id
    BY <1>2, <1>7, Zenon
  <2>3. s.config \in Configs /\ w = ApplySuccess(s, g, id)
    BY <1>8, <2>1, <2>2, Zenon
  <2>4. /\ w \in Statuses /\ Written(w)
        /\ Ready(w).is = "True" /\ Ready(w).gen = g /\ w.id = id /\ w.config = s.config
    BY <2>3, SuccessWritten, SMTT(30)
  <2>. QED
    BY <2>2, <2>4, Zenon
<1>10. op' \in Memories /\ op'.pc = "status" /\ op'.copy.status = w
  BY <1>2, <1>3, <1>8, <1>9, FinishFields, ZenonT(60)
<1>11. St' = w
  BY <1>10 DEF St
<1>12. Written(St)'
  BY <1>9, <1>11, ZenonT(60) DEF Written, OneFailure, Shown, Ready
<1>13. ShowsStored(St)'
  BY <1>3, <1>5, <1>9, <1>11, ZenonT(60) DEF ShowsStored, Ready, Gen
<1>14. MemoryOK'
  BY <1>10, <1>12, <1>13 DEF MemoryOK
<1>. QED
  BY <1>3, <1>14, MemoryStep

\* The copy a reconcile starts with, of a binding that is not being deleted.
LEMMA FetchedFields ==
    ASSUME StoredOK, config \in Configs, ~cache.deleting
    PROVE  /\ Fetched \in Memories /\ Fetched.goal = NoGoal
           /\ Fetched.copy.there = cache.there /\ ~Fetched.copy.deleting
           /\ Fetched.copy.gen = cache.gen /\ Fetched.copy.spec = cache.spec
           /\ Fetched.copy.fresh = cache.fresh
           /\ Written(Fetched.copy.status) /\ Fetched.copy.status.config = config
           /\ Fetched.copy.status.id = cache.status.id
           /\ Fetched.copy.status.conflicts = cache.status.conflicts
           /\ Fetched.copy.status.rec = cache.status.rec
           /\ \A t \in ConditionTypes :
                 \/ Fetched.copy.status.conds[t].is = cache.status.conds[t].is
                 \/ cache.status.conds[t] = Missing /\ Fetched.copy.status.conds[t].is = "Unknown"
<1>1. cache \in Copies /\ cache.status \in Statuses /\ cache.gen \in Nat /\ Written(cache.status)
  BY DEF StoredOK, Copies
<1>2. PICK w : w = ApplyOperatorConfig(InitializeConditions(cache.status, cache.gen), config)
  OBVIOUS
<1>3. /\ w \in Statuses /\ Written(w)
      /\ w.id = cache.status.id /\ w.conflicts = cache.status.conflicts /\ w.config = config
      /\ w.rec = cache.status.rec
      /\ \A t \in ConditionTypes : \/ w.conds[t].is = cache.status.conds[t].is
                                   \/ cache.status.conds[t] = Missing /\ w.conds[t].is = "Unknown"
  <2>1. w \in Statuses /\ Written(w) /\ Initialized(w, cache.status, config)
    BY <1>1, <1>2, InitializeWritten, ZenonT(60)
  <2>. QED
    BY <2>1, Zenon DEF Initialized
<1>. DEFINE o == [IdleOp EXCEPT !.copy = cache]
            moved == o.moved \/ \E t \in ConditionTypes : w.conds[t].is # o.copy.status.conds[t].is
            copy == [cache EXCEPT !.status = w]
<1>4. o \in Memories /\ o.copy = cache /\ o.goal = NoGoal
  BY <1>1, IdleOK, ZenonT(60) DEF Memories, IdleOp
<1>5. Fetched = WithStatus(o, w)
  BY <1>2, Zenon DEF Fetched
<1>. HIDE DEF o
<1>6. moved \in BOOLEAN
  BY <1>4 DEF Memories
<1>7. Fetched = [o EXCEPT !.copy = copy, !.moved = moved]
  BY <1>4, <1>5 DEF WithStatus, Memories
<1>8. /\ copy \in Copies /\ copy.status = w /\ copy.there = cache.there /\ copy.deleting = cache.deleting
      /\ copy.gen = cache.gen /\ copy.spec = cache.spec /\ copy.fresh = cache.fresh
  BY <1>1, <1>3 DEF Copies
<1>. HIDE DEF copy, moved
<1>9. Fetched \in Memories /\ Fetched.copy = copy /\ Fetched.goal = NoGoal
  BY <1>4, <1>6, <1>7, <1>8, ZenonT(60) DEF Memories
<1>. QED
  BY <1>3, <1>8, <1>9, ZenonT(60)

\* The reconcile of a binding that is not being deleted goes on in a phase of its own.
LEMMA FetchStep ==
    ASSUME StatusInvariant, cache.there, ~cache.deleting,
           NEW pc \in {"conflicts", "cleanup"}, NEW id \in Identities,
           NEW goal \in StateErrors \cup {NoGoal},
           pc = "cleanup" <=> goal # NoGoal,
           goal = NoGoal => id = [spec |-> cache.spec, td |-> config.td],
           op' = [Fetched EXCEPT !.pc = pc, !.id = id, !.goal = goal],
           UNCHANGED <<live, cache, config, moves, faults>>, outcome' = NoLabels
    PROVE  StatusInvariant'
<1>1. StoredOK /\ MemoryOK /\ RestOK
  BY Parts
<1>. DEFINE f == Fetched
<1>2. f \in Memories /\ f.copy.there /\ ~f.copy.deleting
      /\ f.copy.gen = cache.gen /\ f.copy.spec = cache.spec /\ f.copy.fresh = cache.fresh
  BY <1>1, FetchedFields, ZenonT(60) DEF RestOK
<1>3. /\ Written(f.copy.status) /\ f.copy.status.config = config
      /\ f.copy.status.id = cache.status.id /\ f.copy.status.conflicts = cache.status.conflicts
      /\ f.copy.status.rec = cache.status.rec
      /\ \A t \in ConditionTypes :
            \/ f.copy.status.conds[t].is = cache.status.conds[t].is
            \/ cache.status.conds[t] = Missing /\ f.copy.status.conds[t].is = "Unknown"
  BY <1>1, FetchedFields, ZenonT(60) DEF RestOK
<1>. HIDE DEF f
<1>4. op' \in Memories /\ op'.copy = f.copy /\ op'.pc = pc /\ op'.id = id /\ op'.goal = goal
  BY <1>2, ZenonT(60) DEF Memories, f
<1>5. St' = f.copy.status /\ live' = live /\ cache' = cache /\ config' = config
  BY <1>4 DEF St
<1>6. Written(St)'
  BY <1>3, <1>5, ZenonT(60) DEF Written, OneFailure, Shown, Ready
<1>7. Follows(op.copy)'
  BY <1>1, <1>2, <1>4, <1>5, ZenonT(60) DEF StoredOK, Follows
<1>8. cache.fresh => Stamped(St)'
  BY <1>1, <1>3, <1>5, ZenonT(60) DEF StoredOK, Stamped
<1>9. goal # Finalize /\ goal # Rename
  BY Goals
<1>10. Working'
  <2>1. /\ f.copy.deleting = FALSE
        /\ cache.fresh => /\ live.there /\ live.deleting = FALSE
                          /\ live.gen = f.copy.gen /\ live.spec = f.copy.spec
    BY <1>1, <1>2, SMTT(30) DEF StoredOK, Memories, Copies
  <2>2. goal = NoGoal => id = [spec |-> f.copy.spec, td |-> config.td]
    BY <1>2, SMTT(30)
  <2>. QED
    BY <1>2, <1>3, <1>4, <1>5, <1>7, <1>8, <1>9, <2>1, <2>2, ZenonT(60) DEF Working
<1>11. MemoryOK'
  BY <1>4, <1>6, <1>10, SMTT(30) DEF MemoryOK
<1>12. StoredOK'
  BY <1>1, KeepStored, SMTT(30) DEF Keep
<1>13. RestOK'
  BY <1>1, NoLabelFields, ZenonT(60) DEF RestOK
<1>. QED
  BY <1>11, <1>12, <1>13, PartsNext

\* Render.
LEMMA RenderStep == ASSUME StatusInvariant, Render PROVE StatusInvariant'
<1>1. /\ StoredOK /\ RestOK /\ ~cache.deleting /\ cache.there /\ outcome' = NoLabels
      /\ UNCHANGED <<live, cache, config, moves, faults>>
      /\ op' = [Fetched EXCEPT !.pc = "conflicts", !.id = [spec |-> cache.spec, td |-> config.td]]
  BY Parts DEF Render, Fetch
<1>2. config \in Configs /\ cache.spec \in Specs
  BY <1>1, ZenonT(60) DEF RestOK, StoredOK, Follows
<1>3. PICK id \in Identities : id = [spec |-> cache.spec, td |-> config.td]
  BY <1>2, IdentityFields, ZenonT(60)
<1>4. Fetched \in Memories /\ Fetched.goal = NoGoal
  BY <1>1, <1>2, FetchedFields, ZenonT(60)
<1>5. op' = [Fetched EXCEPT !.pc = "conflicts", !.id = id, !.goal = NoGoal]
  BY <1>1, <1>3, <1>4, ZenonT(60) DEF Memories
<1>. QED
  BY <1>1, <1>3, <1>5, FetchStep, ZenonT(60)

\* StateError.
LEMMA StateErrorStep == ASSUME StatusInvariant, NEW e \in StateErrors, StateError(e) PROVE StatusInvariant'
<1>1. /\ StoredOK /\ RestOK /\ ~cache.deleting /\ cache.there /\ outcome' = NoLabels
      /\ UNCHANGED <<live, cache, config, moves, faults>>
      /\ op' = [Fetched EXCEPT !.pc = "cleanup", !.goal = e]
  BY Parts, SMTT(30) DEF StateError, Fetch
<1>2. Fetched \in Memories
  BY <1>1, FetchedFields, ZenonT(60) DEF RestOK
<1>3. PICK id \in Identities : id = Fetched.id
  BY <1>2, SMTT(30) DEF Memories
<1>4. op' = [Fetched EXCEPT !.pc = "cleanup", !.id = id, !.goal = e]
  BY <1>1, <1>2, <1>3, ZenonT(60) DEF Memories
<1>5. e # NoGoal
  BY Goals
<1>. QED
  BY <1>1, <1>4, <1>5, FetchStep, ZenonT(60)

\* OtherError.
LEMMA OtherErrorStep == ASSUME StatusInvariant, OtherError PROVE StatusInvariant'
<1>1. StoredOK /\ RestOK /\ Keep /\ op' = IdleOp /\ Answer("fail")
      /\ UNCHANGED <<config, moves>> /\ outcome' = NoLabels
  BY Parts, SMTT(30) DEF OtherError, Fetch, Keep
<1>2. StoredOK' /\ MemoryOK' /\ faults' \in 0 .. MaxFaults
  BY <1>1, KeepStored, IdleStep, AnswerStep, SMTT(30)
<1>3. RestOK'
  BY <1>1, <1>2, NoLabelFields, ZenonT(60) DEF RestOK
<1>. QED
  BY <1>2, <1>3, PartsNext

\* FetchDeleting.
LEMMA FetchDeletingStep == ASSUME StatusInvariant, FetchDeleting PROVE StatusInvariant'
<1>1. /\ StoredOK /\ RestOK /\ cache.deleting /\ cache.there /\ outcome' = NoLabels
      /\ UNCHANGED <<live, cache, config, moves, faults>>
      /\ op' = [[IdleOp EXCEPT !.copy = cache] EXCEPT !.pc = "cleanup", !.goal = Finalize]
  BY Parts DEF FetchDeleting, Fetch, Fetched
<1>2. cache \in Copies /\ Written(cache.status)
  BY <1>1, SMTT(30) DEF StoredOK
<1>3. op' \in Memories /\ op'.copy = cache /\ op'.pc = "cleanup" /\ op'.goal = Finalize
  BY <1>1, <1>2, IdleOK, ZenonT(60) DEF Memories
<1>4. St' = cache.status /\ live' = live /\ cache' = cache /\ config' = config
  BY <1>1, <1>3 DEF St
<1>5. Written(St)'
  BY <1>2, <1>4, ZenonT(60) DEF Written, OneFailure, Shown, Ready
<1>6. Follows(op.copy)'
  BY <1>1, <1>3, <1>4, SMTT(30) DEF StoredOK, Follows
<1>7. cache.fresh => Stamped(St)'
  BY <1>1, <1>4, SMTT(30) DEF StoredOK, Stamped
<1>8. Working'
  BY <1>1, <1>3, <1>4, <1>6, <1>7, Goals, SMTT(30) DEF Working, StoredOK
<1>9. MemoryOK'
  BY <1>3, <1>5, <1>8, SMTT(30) DEF MemoryOK
<1>10. StoredOK'
  BY <1>1, KeepStored DEF Keep
<1>11. RestOK'
  BY <1>1, NoLabelFields, ZenonT(60) DEF RestOK
<1>. QED
  BY <1>9, <1>10, <1>11, PartsNext, SMTT(30)

\* Nothing but the conditions, the identity, the conflicts and, of a success, the
\* configuration tells whether a status was written whole.
LEMMA WrittenAlike ==
    ASSUME NEW s, NEW s2, Written(s), s2.conds = s.conds, s2.id = s.id, s2.conflicts = s.conflicts,
           Ready(s).is = "True" => s2.config \in Configs
    PROVE  Written(s2)
<1>1. Ready(s2) = Ready(s)
  BY Zenon DEF Ready
<1>2. OneFailure(s2)
  BY <1>1, Zenon DEF Written, OneFailure
<1>3. Shown(s2)
  BY <1>1, ZenonT(60) DEF Written, Shown
<1>. QED
  BY <1>1, <1>2, <1>3, Zenon DEF Written

\* What a patch of the ownership record stores: the record and the outcome that were sent,
\* a success only where one was stored.
Merged(m, base, target, stored) ==
    /\ m \in Statuses /\ Written(m)
    /\ m.id = target.id /\ m.conflicts = target.conflicts /\ m.rec = target.rec
    /\ m.config = stored.config
    /\ m.conds = target.conds \/ (m.conds = stored.conds /\ base.conds = target.conds)
    /\ Ready(m).is = "True" => Ready(m) = Ready(stored) /\ m.id = stored.id

\* A patch of the ownership record sends coherent conditions whole or leaves the stored
\* ones as they are: none of the stamps of the fetched copy gets stored with a success.
LEMMA MergeWritten ==
    ASSUME NEW base \in Statuses, NEW target \in Statuses, NEW stored \in Statuses,
           Written(target), Written(stored),
           base.id = stored.id, base.conflicts = stored.conflicts, base.rec = stored.rec,
           base.config = target.config,
           base.conds = target.conds => base.id = target.id /\ base.conflicts = target.conflicts,
           base.conds # target.conds => Ready(target).is # "True",
           NEW m, m = Merge(base, target, stored)
    PROVE  Merged(m, base, target, stored)
<1>1. /\ m \in Statuses
      /\ m.conds = IF base.conds # target.conds THEN target.conds ELSE stored.conds
      /\ m.id = target.id /\ m.conflicts = target.conflicts /\ m.rec = target.rec
      /\ m.config = stored.config
  BY MergeFields
<1>2. CASE base.conds = target.conds
  <2>1. m.conds = stored.conds /\ m.id = stored.id /\ m.conflicts = stored.conflicts
    BY <1>1, <1>2, ZenonT(60)
  <2>2. Written(m)
    <3>1. Ready(stored).is = "True" => m.config \in Configs
      BY <1>1, Zenon DEF Written
    <3>. QED
      BY <2>1, <3>1, WrittenAlike, Zenon
  <2>3. Ready(m) = Ready(stored)
    BY <2>1, Zenon DEF Ready
  <2>. QED
    BY <1>1, <1>2, <2>1, <2>2, <2>3, ZenonT(60) DEF Merged
<1>3. CASE base.conds # target.conds
  <2>1. m.conds = target.conds
    BY <1>1, <1>3, Zenon
  <2>2. Ready(m) = Ready(target) /\ Ready(m).is # "True"
    BY <1>3, <2>1, Zenon DEF Ready
  <2>3. Written(m)
    BY <1>1, <1>3, <2>1, WrittenAlike, ZenonT(60)
  <2>. QED
    BY <1>1, <2>1, <2>2, <2>3, ZenonT(60) DEF Merged
<1>. QED
  BY <1>2, <1>3, Zenon

\* patchOwnershipStatus.
LEMMA PatchOwnershipStep ==
    ASSUME StatusInvariant, op.pc \in {"cleanup", "apply"},
           NEW r, NEW target \in Statuses, PatchOwnership(r, target),
           Written(target), St.config = target.config,
           St.conds = target.conds => St.id = target.id /\ St.conflicts = target.conflicts,
           St.conds # target.conds => Ready(target).is # "True"
    PROVE  StatusInvariant'
<1>1. StoredOK /\ MemoryOK /\ RestOK /\ Working
  BY Parts, SMTT(30) DEF MemoryOK
<1>2. op \in Memories /\ op.copy \in Copies /\ St \in Statuses
  BY <1>1, MemoryTypes, SMTT(30)
<1>3. live \in Copies /\ live.status \in Statuses /\ live.gen \in Nat /\ Written(live.status)
  BY <1>1, ZenonT(60) DEF StoredOK, Copies
<1>4. Answer(r) /\ UNCHANGED <<config, outcome, moves>>
  BY SMTT(30) DEF PatchOwnership
<1>5. RestOK'
  BY <1>1, <1>4, AnswerStep, ZenonT(60) DEF RestOK
<1>6. PICK m : m = Merge(St, target, live.status)
  BY ZenonT(60)
<1>7. PICK new : new = [live EXCEPT !.status = m]
  BY ZenonT(60)
<1>8. IF op.copy.fresh /\ r # "fail" THEN Store(new) ELSE Keep
  <2>1. [live EXCEPT !.status = Merge(St, target, @)] = new
    BY <1>3, <1>6, <1>7 DEF Copies
  <2>. QED
    BY <2>1 DEF PatchOwnership
<1>9. ASSUME op.copy.fresh
      PROVE  /\ m \in Statuses /\ Written(m)
             /\ m.id = target.id /\ m.conflicts = target.conflicts /\ m.rec = target.rec
             /\ m.config = live.status.config
             /\ m.conds = target.conds \/ (m.conds = live.status.conds /\ St.conds = target.conds)
             /\ Ready(m).is = "True" => Ready(m) = Ready(live.status) /\ m.id = live.status.id
  <2>1. St.id = live.status.id /\ St.conflicts = live.status.conflicts /\ St.rec = live.status.rec
    BY <1>1, <1>9, ZenonT(60) DEF Working, Stamped
  <2>2. PICK base \in Statuses : base = St
    BY <1>2
  <2>3. PICK stored \in Statuses : stored = live.status
    BY <1>3, ZenonT(60)
  <2>4. /\ Written(stored) /\ m = Merge(base, target, stored)
        /\ base.id = stored.id /\ base.conflicts = stored.conflicts /\ base.rec = stored.rec
        /\ base.config = target.config
        /\ base.conds = target.conds => base.id = target.id /\ base.conflicts = target.conflicts
        /\ base.conds # target.conds => Ready(target).is # "True"
    BY <1>3, <1>6, <2>1, <2>2, <2>3, ZenonT(60)
  <2>5. Merged(m, base, target, stored)
    BY <2>4, MergeWritten, ZenonT(60)
  <2>. QED
    BY <2>2, <2>3, <2>5, Zenon DEF Merged
<1>10. ASSUME op.copy.fresh
       PROVE  /\ Later(new) /\ new.status = m /\ new.there = live.there /\ new.gen = live.gen
              /\ new.spec = live.spec /\ new.deleting = live.deleting
  <2>1. /\ new \in Copies /\ new.fresh = live.fresh /\ new.there = live.there /\ new.spec = live.spec
        /\ new.status = m /\ new.gen = live.gen /\ new.deleting = live.deleting
    BY <1>3, <1>7, <1>9, <1>10, ZenonT(60) DEF Copies
  <2>2. Ready(m).is = "True" =>
          /\ live.there
          /\ Ready(m).gen <= live.gen
          /\ Ready(m).gen = live.gen => m.id = [spec |-> live.spec, td |-> m.config.td]
    BY <1>1, <1>9, <1>10, ZenonT(60) DEF StoredOK, ShowsStored
  <2>3. live.fresh /\ (live.there => live.spec \in Specs)
    BY <1>1, ZenonT(60) DEF StoredOK, Follows
  <2>4. live.gen <= live.gen
    <3>1. live.gen \in Nat
      BY <1>3, Zenon
    <3>. QED
      BY <3>1
  <2>5. Written(m)
    BY <1>9, <1>10, ZenonT(60)
  <2>6. Later(new)
    BY <2>1, <2>2, <2>3, <2>4, <2>5, ZenonT(60) DEF Later
  <2>. QED
    BY <2>1, <2>6, ZenonT(60)
<1>11. StoredOK'
  BY <1>1, <1>8, <1>10, KeepStored, StoreStep, ZenonT(60)
<1>12. CASE ~(op.copy.fresh /\ r = "ok")
  <2>1. op' = FinishFailed
    BY <1>12, Zenon DEF PatchOwnership
  <2>. QED
    BY <1>1, <1>5, <1>11, <2>1, FailedStep, PartsNext, ZenonT(60)
<1>13. CASE op.copy.fresh /\ r = "ok"
  <2>. DEFINE copy == [op.copy EXCEPT !.status = target]
              moved == op.moved \/ \E t \in ConditionTypes : target.conds[t].is # op.copy.status.conds[t].is
  <2>1. op' = WithStatus(op, target) /\ Store(new)
    BY <1>8, <1>13, Zenon DEF PatchOwnership
  <2>2. op' = [op EXCEPT !.copy = copy, !.moved = moved]
    BY <1>2, <2>1 DEF WithStatus, Memories
  <2>3. moved \in BOOLEAN
    BY <1>2, ZenonT(60) DEF Memories
  <2>4. /\ copy \in Copies /\ copy.status = target /\ copy.there = op.copy.there
        /\ copy.deleting = op.copy.deleting
        /\ copy.gen = op.copy.gen /\ copy.spec = op.copy.spec /\ copy.fresh = op.copy.fresh
    BY <1>2 DEF Copies
  <2>. HIDE DEF copy, moved
  <2>5. /\ op' \in Memories /\ op'.copy = copy /\ op'.pc = op.pc /\ op'.id = op.id /\ op'.goal = op.goal
    BY <1>2, <2>2, <2>3, <2>4, ZenonT(60) DEF Memories
  <2>6. /\ St' = target /\ live'.status = m /\ live'.there = live.there /\ live'.gen = live.gen
        /\ live'.spec = live.spec /\ live'.deleting = live.deleting /\ config' = config
    BY <1>4, <1>10, <1>13, <2>1, <2>4, <2>5, SMTT(30) DEF St, Store
  <2>7. Written(St)'
    BY <2>6, ZenonT(60) DEF Written, OneFailure, Shown, Ready
  <2>8. Stamped(St)
    BY <1>1, <1>13, ZenonT(60) DEF Working
  <2>9. Stamped(St)'
    BY <1>9, <1>13, <2>6, <2>8, ZenonT(60) DEF Stamped
  <2>10. Follows(op.copy)'
    BY <1>1, <2>4, <2>5, <2>6, ZenonT(60) DEF Follows, Working
  <2>11. op.copy.deleting => (cache'.there => cache'.deleting)
    <3>1. /\ live.deleting = op.copy.deleting
          /\ op.copy.deleting => (cache.there => cache.deleting)
      BY <1>1, <1>13, ZenonT(60) DEF Working
    <3>2. CASE cache' = new
      BY <1>10, <1>13, <3>1, <3>2, ZenonT(60)
    <3>3. CASE cache' = [cache EXCEPT !.fresh = FALSE]
      <4>1. cache'.there = cache.there /\ cache'.deleting = cache.deleting
        BY <1>1, <3>3, SMTT(30) DEF StoredOK, Copies
      <4>. QED
        BY <3>1, <4>1, ZenonT(60)
    <3>. QED
      BY <2>1, <3>2, <3>3, ZenonT(60) DEF Store
  <2>12. Working'
    BY <1>1, <1>13, <2>4, <2>5, <2>6, <2>9, <2>10, <2>11, ZenonT(60) DEF Working
  <2>13. MemoryOK'
    BY <2>5, <2>7, <2>12, ZenonT(60) DEF MemoryOK
  <2>. QED
    BY <1>5, <1>11, <2>13, PartsNext, ZenonT(60)
<1>. QED
  BY <1>12, <1>13, ZenonT(60)

\* Reserve.
LEMMA ReserveStep == ASSUME StatusInvariant, NEW r, Reserve(r) PROVE StatusInvariant'
<1>1. MemoryOK /\ op.pc \in {"cleanup", "apply"}
  BY Parts DEF Reserve
<1>2. St \in Statuses /\ Gen \in Nat /\ Written(St)
  BY <1>1, MemoryTypes, SMTT(30)
<1>. DEFINE w == ApplyPendingOutput(St, Gen)
<1>3. w \in {ApplyPendingOutput(St, Gen), ApplyPendingConflict(St, Gen), ApplyPendingReplacement(St, Gen)}
  OBVIOUS
<1>4. /\ w \in Statuses /\ Written(w) /\ Ready(w).is = "Unknown"
      /\ w.id = None /\ w.conflicts = {} /\ w.config = St.config /\ w.rec = St.rec
  BY <1>2, <1>3, PendingWriters, Zenon
<1>5. w = ApplyPendingOutput(St, Gen)
  OBVIOUS
<1>. HIDE DEF w
<1>6. PICK target : target = [w EXCEPT !.rec = "pending"]
  BY ZenonT(60)
<1>7. /\ target \in Statuses /\ target.conds = w.conds /\ target.id = w.id
      /\ target.conflicts = w.conflicts /\ target.config = w.config
      /\ Ready(target) = Ready(w) /\ Written(target)
  BY <1>4, <1>6, RecordWritten, ZenonT(60)
<1>8. ASSUME St.conds = target.conds
      PROVE  St.id = target.id /\ St.conflicts = target.conflicts
  <2>1. Ready(St) = Ready(target) /\ St.conds["Conflict"] = target.conds["Conflict"]
    BY <1>8, ZenonT(60) DEF Ready
  <2>. QED
    BY <1>2, <1>4, <1>7, <2>1, ZenonT(60) DEF Written, Shown
<1>9. PatchOwnership(r, target)
  BY <1>5, <1>6, SMTT(30) DEF Reserve
<1>10. Ready(target).is # "True" /\ St.config = target.config
  BY <1>4, <1>7, ZenonT(60)
<1>. QED
  BY <1>1, <1>7, <1>8, <1>9, <1>10, PatchOwnershipStep, ZenonT(60)

\* Confirm and Clear.
LEMMA RecordOnlyStep ==
    ASSUME StatusInvariant, NEW r, NEW rec \in {"unclaimed", "pending", "confirmed"},
           op.pc \in {"cleanup", "apply"}, PatchOwnership(r, [St EXCEPT !.rec = rec])
    PROVE  StatusInvariant'
<1>1. St \in Statuses /\ Written(St)
  BY Parts, MemoryTypes
<1>2. PICK target : target = [St EXCEPT !.rec = rec]
  OBVIOUS
<1>3. /\ target \in Statuses /\ target.conds = St.conds /\ target.id = St.id
      /\ target.conflicts = St.conflicts /\ target.config = St.config /\ Written(target)
  BY <1>1, <1>2, RecordWritten, ZenonT(60)
<1>4. PatchOwnership(r, target)
  BY <1>2
<1>. QED
  BY <1>3, <1>4, PatchOwnershipStep, SMTT(30)

\* RemoveFinalizer: nothing that is left shows the binding as one that is there and not
\* being deleted.
LEMMA RemoveFinalizerStep == ASSUME StatusInvariant, NEW r, RemoveFinalizer(r) PROVE StatusInvariant'
<1>1. StoredOK /\ MemoryOK /\ RestOK /\ Working /\ op.goal = Finalize
  BY Parts DEF MemoryOK, RemoveFinalizer
<1>2. Answer(r) /\ op' = IdleOp /\ UNCHANGED <<config, outcome, moves>>
  BY DEF RemoveFinalizer
<1>3. MemoryOK' /\ RestOK'
  BY <1>1, <1>2, IdleStep, AnswerStep, ZenonT(60) DEF RestOK
<1>4. CASE Keep
  BY <1>1, <1>3, <1>4, KeepStored, PartsNext
<1>5. CASE op.copy.fresh /\ Store(Absent)
  <2>1. cache.there => cache.deleting
    BY <1>1, <1>5, ZenonT(60) DEF Working
  <2>2. live' = Absent /\ live' \in Copies /\ live'.fresh /\ ~live'.there /\ live'.status = NewStatus
    BY <1>5, AbsentOK, ZenonT(60) DEF Store
  <2>3. Follows(live)' /\ ShowsStored(live.status)' /\ Written(live.status)'
    <3>1. Written(live'.status) /\ Ready(live'.status).is # "True"
      BY <2>2, AbsentOK, MissingIs, ZenonT(60)
    <3>. QED
      BY <2>2, <3>1, ZenonT(60) DEF Follows, ShowsStored, Written, OneFailure, Shown, Ready
  <2>4. ASSUME cache' = live' PROVE StoredOK'
    BY <2>2, <2>3, <2>4, ZenonT(60) DEF StoredOK, Follows, Written, OneFailure, Shown, Ready
  <2>5. ASSUME cache' = [cache EXCEPT !.fresh = FALSE] PROVE StoredOK'
    <3>1. /\ cache' \in Copies /\ ~cache'.fresh /\ cache'.spec = cache.spec
          /\ cache'.status = cache.status /\ cache'.there = cache.there /\ cache'.deleting = cache.deleting
      BY <1>1, <2>5, ZenonT(60) DEF StoredOK, Copies
    <3>2. Follows(cache)'
      BY <1>1, <2>1, <3>1, ZenonT(60) DEF StoredOK, Follows
    <3>3. Written(cache'.status)
      BY <1>1, <3>1 DEF StoredOK
    <3>4. Written(cache.status)'
      BY <3>3, ZenonT(60) DEF Written, OneFailure, Shown, Ready
    <3>. QED
      BY <2>2, <2>3, <3>1, <3>2, <3>4, ZenonT(60) DEF StoredOK
  <2>6. StoredOK'
    BY <1>5, <2>2, <2>4, <2>5, SMTT(30) DEF Store
  <2>. QED
    BY <1>3, <2>6, PartsNext, SMTT(30)
<1>. QED
  BY <1>4, <1>5 DEF RemoveFinalizer

\* SyncCache.
LEMMA SyncStep == ASSUME StatusInvariant, SyncCache PROVE StatusInvariant'
<1>1. StoredOK /\ MemoryOK /\ RestOK
  BY Parts
<1>2. cache' = live /\ live' = live /\ UNCHANGED <<config, op, outcome, moves, faults>>
  BY DEF SyncCache
<1>3. Written(live'.status) /\ Follows(live)' /\ ShowsStored(live.status)'
  BY <1>1, <1>2, ZenonT(60) DEF StoredOK, Follows, ShowsStored, Ready
<1>4. Written(live.status)' /\ Written(cache.status)'
  BY <1>2, <1>3, ZenonT(60) DEF Written, OneFailure, Shown, Ready
<1>5. Follows(cache)'
  BY <1>2, <1>3, ZenonT(60) DEF Follows
<1>6. StoredOK'
  BY <1>1, <1>2, <1>3, <1>4, <1>5, ZenonT(60) DEF StoredOK
<1>7. St' = St /\ op' = op /\ (Written(St)' <=> Written(St)) /\ (ShowsStored(St)' <=> ShowsStored(St))
  BY <1>2, ZenonT(60) DEF St, Written, OneFailure, Shown, Ready, ShowsStored
<1>8. ASSUME Working PROVE Working'
  <2>1. (Follows(op.copy)' <=> Follows(op.copy)) /\ (Stamped(St)' <=> Stamped(St))
    BY <1>2, <1>7, ZenonT(60) DEF Follows, Stamped
  <2>. QED
    BY <1>2, <1>7, <1>8, <2>1, ZenonT(60) DEF Working
<1>9. MemoryOK'
  BY <1>1, <1>7, <1>8, ZenonT(60) DEF MemoryOK
<1>. QED
  BY <1>1, <1>2, <1>6, <1>9, PartsNext, ZenonT(60) DEF RestOK

\* Restart.
LEMMA RestartStep == ASSUME StatusInvariant, NEW c \in Configs, Restart(c) PROVE StatusInvariant'
<1>1. StoredOK /\ RestOK
  BY Parts
<1>2. StoredOK' /\ MemoryOK'
  BY <1>1, KeepStored, IdleStep, SMTT(30) DEF Restart, Keep
<1>3. faults' \in 0 .. MaxFaults
  <2>1. faults \in 0 .. MaxFaults /\ faults < MaxFaults /\ faults' = faults + 1
    BY <1>1, ZenonT(60) DEF Restart, RestOK
  <2>. QED
    BY <2>1, Bounds, Counting, SMTT(30)
<1>4. RestOK'
  BY <1>1, <1>3, NoLabelFields, ZenonT(60) DEF RestOK, Restart
<1>. QED
  BY <1>2, <1>4, PartsNext, SMTT(30)

\* PatchStatus.
LEMMA PatchStatusStep == ASSUME StatusInvariant, NEW r, PatchStatus(r) PROVE StatusInvariant'
<1>1. StoredOK /\ MemoryOK /\ RestOK /\ ShowsStored(St)
  BY Parts DEF MemoryOK, PatchStatus
<1>2. live \in Copies /\ cache \in Copies /\ cache.status \in Statuses /\ live.gen \in Nat
  BY <1>1, ZenonT(60) DEF StoredOK, Copies
<1>3. St \in Statuses /\ Written(St)
  BY <1>1, MemoryTypes
<1>4. PICK target : target = [St EXCEPT !.rec = cache.status.rec]
  BY ZenonT(60)
<1>5. cache.status.rec \in {"unclaimed", "pending", "confirmed"}
  BY <1>2, ZenonT(60) DEF Statuses
<1>6. /\ target \in Statuses /\ target.id = St.id /\ target.config = St.config
      /\ Ready(target) = Ready(St) /\ Written(target)
  BY <1>3, <1>4, <1>5, RecordWritten, ZenonT(60)
<1>7. /\ Answer(r) /\ op' = IdleOp /\ UNCHANGED <<config, moves>>
      /\ outcome' \in {NoLabels, OutcomeLabels(target, FALSE)}
  BY <1>4, Zenon DEF PatchStatus
<1>8. /\ OutcomeLabels(target, FALSE) \in [condition : ConditionTypes \cup {""}, reason : Reasons]
      /\ OutcomeLabels(target, FALSE).reason \notin {"UnclassifiedFailure", "Initializing"}
  BY <1>6, LabelsOfWritten, ZenonT(60)
<1>9. RestOK'
  BY <1>1, <1>7, <1>8, NoLabelFields, AnswerStep, ZenonT(60) DEF RestOK
<1>10. \/ Keep
       \/ cache.there /\ cache.fresh /\ Store([live EXCEPT !.status = target])
  BY <1>4, Zenon DEF PatchStatus
<1>11. ASSUME cache.there, cache.fresh, Store([live EXCEPT !.status = target])
       PROVE  StoredOK'
  <2>1. PICK new : new = [live EXCEPT !.status = target]
    BY ZenonT(60)
  <2>2. /\ new \in Copies /\ new.fresh = live.fresh /\ new.there = live.there /\ new.spec = live.spec
        /\ new.status = target /\ new.gen = live.gen
    BY <1>2, <1>6, <2>1 DEF Copies
  <2>3. live.there /\ live.fresh /\ live.spec \in Specs /\ live.gen <= live.gen
    BY <1>1, <1>2, <1>11 DEF StoredOK, Follows
  <2>4. Later(new)
    BY <1>1, <1>6, <2>2, <2>3, ZenonT(60) DEF Later, ShowsStored
  <2>. QED
    BY <1>1, <1>11, <2>1, <2>4, StoreStep, SMTT(30)
<1>12. StoredOK'
  BY <1>1, <1>10, <1>11, KeepStored, SMTT(30)
<1>. QED
  BY <1>7, <1>9, <1>12, IdleStep, PartsNext, SMTT(30)

\* The initial states satisfy the invariant.
LEMMA StatusInitInvariant == StatusInit => StatusInvariant
<1>. SUFFICES ASSUME StatusInit PROVE StatusInvariant
  OBVIOUS
<1>1. /\ live = Absent /\ cache = Absent /\ config \in Configs /\ op = IdleOp /\ outcome = NoLabels
      /\ moves = 0 /\ faults = 0
  BY DEF StatusInit
<1>2. /\ live \in Copies /\ cache \in Copies /\ live.status = NewStatus /\ cache.status = NewStatus
      /\ live.fresh /\ ~live.there /\ ~cache.there
  BY <1>1, AbsentOK, ZenonT(60)
<1>3. ShowsStored(live.status)
  BY <1>2, AbsentOK, MissingIs, ZenonT(60) DEF ShowsStored
<1>4. StoredOK
  BY <1>1, <1>2, <1>3, AbsentOK, ZenonT(60) DEF StoredOK, Follows
<1>5. op \in Memories /\ op.pc = "idle" /\ St = NewStatus
  BY <1>1, IdleOK, AbsentOK, SMTT(30) DEF St
<1>6. MemoryOK
  BY <1>5, AbsentOK, SMTT(30) DEF MemoryOK
<1>7. 0 \in 0 .. MaxMoves /\ 0 \in 0 .. MaxFaults
  BY Bounds
<1>8. RestOK
  BY <1>1, <1>7, NoLabelFields, ZenonT(60) DEF RestOK
<1>. QED
  BY <1>4, <1>6, <1>8, Parts, SMTT(30)

\* A step that changes nothing.
LEMMA StatusStutter == ASSUME StatusInvariant, UNCHANGED statusVars PROVE StatusInvariant'
<1>1. UNCHANGED <<live, cache, config, op, outcome, moves, faults>>
  BY DEF statusVars
<1>2. StoredOK /\ MemoryOK /\ RestOK
  BY Parts, ZenonT(60)
<1>3. St' = St /\ (Written(St)' <=> Written(St)) /\ (ShowsStored(St)' <=> ShowsStored(St))
  BY <1>1, ZenonT(60) DEF St, Written, OneFailure, Shown, Ready, ShowsStored
<1>4. Working' <=> Working
  <2>1. (Follows(op.copy)' <=> Follows(op.copy)) /\ (Stamped(St)' <=> Stamped(St))
    BY <1>1, <1>3, ZenonT(60) DEF Follows, Stamped
  <2>. QED
    BY <1>1, <1>3, <2>1, ZenonT(60) DEF Working
<1>5. MemoryOK'
  BY <1>1, <1>2, <1>3, <1>4, SMTT(30) DEF MemoryOK
<1>. QED
  BY <1>1, <1>5, MemoryStep, SMTT(30)

\* Every step preserves the invariant.
LEMMA StatusNextInvariant == StatusInvariant /\ [StatusNext]_statusVars => StatusInvariant'
<1>. SUFFICES ASSUME StatusInvariant, [StatusNext]_statusVars PROVE StatusInvariant'
  OBVIOUS
<1>1. CASE FetchDeleting
  BY <1>1, FetchDeletingStep
<1>2. CASE Render
  BY <1>2, RenderStep
<1>3. CASE \E e \in StateErrors : StateError(e)
  BY <1>3, StateErrorStep, SMTT(30)
<1>4. CASE OtherError
  BY <1>4, OtherErrorStep
<1>5. CASE \E renamed \in BOOLEAN : Exclusive(renamed)
  BY <1>5, ExclusiveStep, SMTT(30)
<1>6. CASE \E causes \in ConflictCauses : Conflicting(causes)
  BY <1>6, ConflictingStep
<1>7. CASE ConflictPending
  BY <1>7, ConflictPendingStep
<1>8. CASE OutputCallFailed
  BY <1>8, OutputFailedStep
<1>9. CASE \E r \in Replies : Reserve(r)
  BY <1>9, ReserveStep
<1>10. ASSUME NEW r \in Replies, Confirm(r) PROVE StatusInvariant'
  BY <1>10, RecordOnlyStep DEF Confirm
<1>11. ASSUME NEW r \in Replies, Clear(r) PROVE StatusInvariant'
  BY <1>11, RecordOnlyStep, SMTT(30) DEF Clear
<1>12. CASE CleanedUp
  BY <1>12, CleanedUpStep
<1>13. CASE \E r \in Replies : RemoveFinalizer(r)
  BY <1>13, RemoveFinalizerStep
<1>14. CASE \E r \in Replies : PatchStatus(r)
  BY <1>14, PatchStatusStep
<1>15. CASE OutputCRDMissing
  BY <1>15, CRDMissingStep
<1>16. CASE Applied
  BY <1>16, AppliedStep
<1>17. CASE \E rec \in {"confirmed", "unclaimed"} : RecordElsewhere(rec)
  BY <1>17, RecordStep, SMTT(30)
<1>18. CASE \E s \in Specs : CreateBinding(s)
  BY <1>18, CreateStep
<1>19. CASE \E s \in Specs : EditSpec(s)
  BY <1>19, EditStep
<1>20. CASE DeleteBinding
  BY <1>20, DeleteStep
<1>21. CASE SyncCache
  BY <1>21, SyncStep
<1>22. CASE \E c \in Configs : Restart(c)
  BY <1>22, RestartStep
<1>23. CASE UNCHANGED statusVars
  BY <1>23, StatusStutter
<1>. QED
  BY <1>1, <1>2, <1>3, <1>4, <1>5, <1>6, <1>7, <1>8, <1>9, <1>10, <1>11, <1>12, <1>13, <1>14,
     <1>15, <1>16, <1>17, <1>18, <1>19, <1>20, <1>21, <1>22, <1>23, ZenonT(60)
  DEF StatusNext, Reconcile

-----------------------------------------------------------------------------
(* What the invariant says about the status, its metrics and its readers. *)

\* StatusInvariant holds in every reachable state, for any specs, configurations, state
\* errors and bounds, with and without a cache that lags behind.
THEOREM StatusInductive == StatusSpec => []StatusInvariant
<1>1. StatusInit => StatusInvariant
  BY StatusInitInvariant
<1>2. StatusInvariant /\ [StatusNext]_statusVars => StatusInvariant'
  BY StatusNextInvariant
<1>. QED
  BY <1>1, <1>2, PTL DEF StatusSpec

\* What is stored, cached and held in memory always has its type.
THEOREM StatusTypes == StatusSpec => []StatusTypeOK
<1>1. StatusInvariant => StatusTypeOK
  BY ZenonT(60) DEF StatusInvariant
<1>. QED
  BY <1>1, StatusInductive, PTL

\* A stored Ready=True of the current generation is about the current spec.
THEOREM ReadyStatusIsCurrent == StatusSpec => []ReadyIsCurrent
<1>1. StatusInvariant => ReadyIsCurrent
  BY ZenonT(60) DEF StatusInvariant, ReadyIsCurrent, ShowsStored
<1>. QED
  BY <1>1, StatusInductive, PTL

\* A stored Ready=False has exactly one failure condition, with its reason and message.
THEOREM FailureIsPrimary == StatusSpec => []OnePrimaryFailure
<1>1. StatusInvariant => OnePrimaryFailure
  BY ZenonT(60) DEF StatusInvariant, OnePrimaryFailure, Written
<1>. QED
  BY <1>1, StatusInductive, PTL

\* A stored status shows rendered output and conflicts with the condition that goes with
\* them, whatever partial patches wrote it.
THEOREM OutputShownWithReady == StatusSpec => []ShownWithItsCondition
<1>1. StatusInvariant => ShownWithItsCondition
  BY ZenonT(60) DEF StatusInvariant, ShownWithItsCondition, Written
<1>. QED
  BY <1>1, StatusInductive, PTL

\* The metrics classify every status that is cached and every outcome that is counted.
THEOREM MetricsClassify == StatusSpec => []OutcomesClassified
<1>1. ASSUME StatusInvariant PROVE OutcomesClassified
  <2>1. cache.status \in Statuses /\ Written(cache.status)
    BY <1>1, Parts DEF StoredOK, Copies
  <2>2. outcome.reason \notin {"UnclassifiedFailure", "Initializing"}
    BY <1>1, ZenonT(60) DEF StatusInvariant
  <2>3. CASE cache.there
    <3>1. Gauge = OutcomeLabels(cache.status, TRUE)
      BY <2>3 DEF Gauge
    <3>2. /\ OutcomeLabels(cache.status, TRUE).reason # "UnclassifiedFailure"
          /\ Ready(cache.status) # Missing => OutcomeLabels(cache.status, TRUE) # NoLabels
      BY <2>1, LabelsOfWritten, ZenonT(60)
    <3>. QED
      BY <2>2, <3>1, <3>2, ZenonT(60) DEF OutcomesClassified
  <2>4. CASE ~cache.there
    BY <2>2, <2>4, NoLabelFields, ZenonT(60) DEF OutcomesClassified, Gauge
  <2>. QED
    BY <2>3, <2>4
<1>. QED
  BY <1>1, StatusInductive, PTL

\* A trust domain that is recorded is that of a configuration.
LEMMA RecordedConfig ==
    ASSUME StatusInvariant
    PROVE  /\ live.status.config \in Configs \cup {NoConfig}
           /\ live.status.config.td # "" => live.status.config \in Configs
           /\ live.status.config \in Configs => live.status.config.td # ""
<1>1. live.status.config \in Configs \cup {NoConfig}
  BY Parts, ZenonT(60) DEF StoredOK, Copies, Statuses
<1>2. NoConfig.td = ""
  BY DEF NoConfig
<1>3. \A c \in Configs : c.td # ""
  BY StatusConstants, Zenon
<1>. QED
  BY <1>1, <1>2, <1>3, ZenonT(60)

\* `kleym inspect binding' without trust domain flag renders the identity that was
\* published.
THEOREM InspectionRenders == StatusSpec => []InspectionReproduces
<1>1. ASSUME StatusInvariant PROVE InspectionReproduces
  <2>. SUFFICES ASSUME live.there, Ready(live.status).is = "True", Ready(live.status).gen = live.gen,
                       NEW given \in SUBSET {"class"}
                PROVE  InspectedIdentity([NoFlags EXCEPT !.given = given]) = live.status.id
    BY ZenonT(60) DEF InspectionReproduces
  <2>1. live.status.id = [spec |-> live.spec, td |-> live.status.config.td]
    BY <1>1, ZenonT(60) DEF StatusInvariant, ShowsStored
  <2>2. live.status.config \in Configs
    BY <1>1, ZenonT(60) DEF StatusInvariant, Written
  <2>3. live.status.config.td # ""
    BY <1>1, <2>2, RecordedConfig, ZenonT(60)
  <2>4. "td" \notin [NoFlags EXCEPT !.given = given].given
    BY ZenonT(60) DEF NoFlags
  <2>5. ResolveIdentityConfig([NoFlags EXCEPT !.given = given]).td = live.status.config.td
    BY <2>3, <2>4, ZenonT(60) DEF ResolveIdentityConfig, Override
  <2>. QED
    BY <2>1, <2>5, ZenonT(60) DEF InspectedIdentity
<1>. QED
  BY <1>1, StatusInductive, PTL

\* The result of `kleym status' in a healthy installation is that of the binding.
LEMMA HealthyResult ==
    ASSUME StatusInvariant, live.there
    PROVE  StatusResult(Healthy({})) = "OK" <=> Ready(live.status).is = "True"
<1>. DEFINE r == Ready(live.status).is
<1>1. live.status \in Statuses
  BY Parts, ZenonT(60) DEF StoredOK, Copies
<1>2. r \in {"Missing", "True", "False", "Unknown"}
  BY <1>1, FiveTypes, ZenonT(60) DEF Ready, Statuses, Conditions
<1>3. /\ Healthy({}).crds = AllCRDs /\ "kleym" \in AllCRDs
      /\ Unavailable(Healthy({})) = {}
  BY ZenonT(60) DEF Healthy, AllCRDs, Unavailable
<1>4. StatusErrors(Healthy({})) = Unhealthy
  BY <1>3, ZenonT(60) DEF StatusErrors
<1>5. BindingResult = IF r \in {"Missing", "Unknown"} THEN "WARNING"
                      ELSE IF r = "True" THEN "OK" ELSE "ERROR"
  BY <1>2 DEF BindingResult
<1>6. StatusResult(Healthy({})) = BindingResult
  BY <1>4, <1>5, ZenonT(60) DEF StatusResult, Unhealthy
<1>. QED
  BY <1>2, <1>5, <1>6, SMTT(30)

\* When a strict inspection exits with 0.
LEMMA StrictSuccess ==
    ASSUME NEW flags, NEW reads, reads.discovery, reads.get, live.there,
           "error" \notin Findings(reads), "warning" \notin Findings(reads)
    PROVE  InspectionExitCode(flags, reads) = 0
BY SMTT(30) DEF InspectionExitCode

\* A binding that `kleym status' finds OK passes a strict inspection.
THEOREM StrictInspection == StatusSpec => []OKPassesStrict
<1>1. ASSUME StatusInvariant PROVE OKPassesStrict
  <2>. SUFFICES ASSUME live.there, StatusResult(Healthy({})) = "OK", NEW pods \in {"matched", "none"}
                PROVE  InspectionExitCode([NoFlags EXCEPT !.strict = TRUE], Answered(pods)) = 0
    BY ZenonT(60) DEF OKPassesStrict
  <2>1. Ready(live.status).is = "True"
    BY <1>1, HealthyResult, ZenonT(60)
  <2>2. live.status.config \in Configs
    BY <1>1, <2>1, ZenonT(60) DEF StatusInvariant, Written
  <2>3. live.status.config.td # ""
    BY <1>1, <2>2, RecordedConfig, ZenonT(60)
  <2>4. Answered(pods).discovery /\ Answered(pods).get /\ Answered(pods).rendering /\ Answered(pods).pods = pods
    BY ZenonT(60) DEF Answered
  <2>5. PodFindings(pods) \subseteq {"info"}
    BY SMTT(30) DEF PodFindings
  <2>6. Findings(Answered(pods)) = PodFindings(pods)
    <3>1. ConfigFindings = {}
      BY <2>3, ZenonT(60) DEF ConfigFindings
    <3>. QED
      BY <2>4, <3>1, SMTT(30) DEF Findings
  <2>. QED
    BY <2>4, <2>5, <2>6, StrictSuccess, SMTT(30)
<1>. QED
  BY <1>1, StatusInductive, PTL

\* The result of `kleym status' is explained by what the binding shows.
THEOREM StatusResultExplained == StatusSpec => []ResultIsExplained
<1>1. ASSUME StatusInvariant PROVE ResultIsExplained
  <2>. SUFFICES ASSUME live.there
                PROVE  /\ StatusResult(Healthy({})) = "OK" =>
                             live.status.id # None /\ CountedConditions = {"Ready"}
                       /\ StatusExitCode(Healthy({})) = 2 =>
                             Cardinality(CountedConditions) = 1 \/ live.status.conflicts # {}
    BY ZenonT(60) DEF ResultIsExplained
  <2>. DEFINE r == Ready(live.status).is
  <2>1. /\ Written(live.status) /\ live.status \in Statuses
    BY <1>1, Parts, ZenonT(60) DEF StoredOK, Copies
  <2>2. r \in {"Missing", "True", "False", "Unknown"}
    BY <2>1, FiveTypes, ZenonT(60) DEF Ready, Statuses, Conditions
  <2>3. /\ Healthy({}).crds = AllCRDs /\ Healthy({}).reads /\ "kleym" \in AllCRDs
        /\ Unavailable(Healthy({})) = {}
    BY ZenonT(60) DEF Healthy, AllCRDs, Unavailable
  <2>4. StatusErrors(Healthy({})) = Unhealthy
    BY <2>3, ZenonT(60) DEF StatusErrors
  <2>5. BindingResult = IF r \in {"Missing", "Unknown"} THEN "WARNING"
                        ELSE IF r = "True" THEN "OK" ELSE "ERROR"
    BY <2>2 DEF BindingResult
  <2>6. StatusResult(Healthy({})) = BindingResult
    BY <2>4, <2>5, ZenonT(60) DEF StatusResult, Unhealthy
  <2>7. ASSUME r = "True" PROVE live.status.id # None /\ CountedConditions = {"Ready"}
    BY <2>1, <2>7, FiveTypes, ZenonT(60) DEF Written, Shown, OneFailure, CountedConditions, Ready
  <2>8. ASSUME r = "False" PROVE Cardinality(CountedConditions) = 1 \/ live.status.conflicts # {}
    <3>1. PICK f \in FailureTypes : {t \in FailureTypes : live.status.conds[t].is = "True"} = {f}
      BY <2>1, <2>8, ZenonT(60) DEF Written, OneFailure
    <3>2. CASE f = "Conflict"
      <4>1. live.status.conds["Conflict"].is = "True"
        BY <3>1, <3>2, SMTT(30)
      <4>. QED
        BY <2>1, <4>1, ZenonT(60) DEF Written, Shown
    <3>3. CASE f # "Conflict"
      <4>1. CountedConditions = {f}
        BY <2>8, <3>1, <3>3, FiveTypes, SMTT(30) DEF CountedConditions, Ready
      <4>. QED
        BY <4>1, FS_Singleton, SMTT(30)
    <3>. QED
      BY <3>2, <3>3, ZenonT(60)
  <2>9. StatusResult(Healthy({})) = "OK" => r = "True"
    BY <1>1, HealthyResult, ZenonT(60)
  <2>10. StatusExitCode(Healthy({})) = 2 => r = "False"
    <3>1. StatusExitCode(Healthy({})) = 2 => BindingResult = "ERROR"
      BY <2>3, <2>6, SMTT(30) DEF StatusExitCode
    <3>. QED
      BY <2>2, <2>5, <3>1, Zenon
  <2>. QED
    BY <2>7, <2>8, <2>9, <2>10, ZenonT(60)
<1>. QED
  BY <1>1, StatusInductive, PTL

\* The commands report the same configuration while the status records the operator's.
THEOREM ConfigReported == StatusSpec => []CommandsAgree
<1>1. ASSUME StatusInvariant PROVE CommandsAgree
  <2>. SUFFICES ASSUME live.there, live.status.config = config,
                       NEW operator \in {"missing", "unready", "ready"},
                       NEW args \in SUBSET {"td", "class"}, args = {"td"} => config.class = ""
                PROVE  ReportedConfig([Healthy(args) EXCEPT !.operator = operator])
                          = ResolveIdentityConfig(NoFlags)
    BY ZenonT(60) DEF CommandsAgree
  <2>. DEFINE cluster == [Healthy(args) EXCEPT !.operator = operator]
              seen == "kleym" \in cluster.crds /\ live.there /\ live.status.config.td # ""
  <2>1. config = [td |-> config.td, class |-> config.class] /\ config.td # ""
    BY <1>1, Parts, StatusConstants, Zenon DEF RestOK
  <2>2. ResolveIdentityConfig(NoFlags) = [td |-> config.td, class |-> config.class]
    <3>1. NoFlags.given = {}
      BY ZenonT(60) DEF NoFlags
    <3>. QED
      BY <2>1, <3>1, ZenonT(60) DEF ResolveIdentityConfig, Override
  <2>3. cluster.operator = operator /\ cluster.args = args /\ cluster.crds = AllCRDs
    BY ZenonT(60) DEF Healthy
  <2>4. PICK a : a = ConfigFromArgs(cluster)
    BY Zenon
  <2>5. ReportedConfig(cluster) =
            [td |-> IF a.td = "" /\ seen THEN live.status.config.td ELSE a.td,
             class |-> IF ~a.known /\ seen THEN live.status.config.class ELSE a.class]
    BY <2>4, Zenon DEF ReportedConfig
  <2>6. seen
    BY <2>1, <2>3, ZenonT(60) DEF AllCRDs
  <2>. HIDE DEF cluster, seen
  <2>7. a.td \in {"", config.td}
    BY <2>4, ZenonT(60) DEF ConfigFromArgs
  <2>8. a.known => a.class = config.class
    <3>1. a.known => operator = "ready" /\ args # {}
      BY <2>3, <2>4, ZenonT(60) DEF ConfigFromArgs
    <3>2. operator = "ready" => a.class = IF "class" \in args THEN config.class ELSE ""
      BY <2>3, <2>4, ZenonT(60) DEF ConfigFromArgs
    <3>3. args # {} /\ "class" \notin args => args = {"td"}
      BY Zenon
    <3>. QED
      BY <3>1, <3>2, <3>3, ZenonT(60)
  <2>. QED
    <3>1. ReportedConfig(cluster) = [td |-> config.td, class |-> config.class]
      BY <2>1, <2>5, <2>6, <2>7, <2>8, ZenonT(60)
    <3>. QED
      BY <2>2, <3>1, ZenonT(60) DEF cluster
<1>. QED
  BY <1>1, StatusInductive, PTL

=============================================================================
