------------------------- MODULE StatusInspection -------------------------
(***************************************************************************)
(* The kleym commands as readers of binding status: `kleym inspect         *)
(* binding' and `kleym status' (internal/inspection, internal/cli).        *)
(*                                                                         *)
(* The commands change nothing, and each reads the binding once.  What     *)
(* else they read (served CRDs, pools, Pods, Deployments) is independent   *)
(* of the status, so a report is a function of the stored binding and of   *)
(* what the other reads returned, and the properties quantify over these.  *)
(***************************************************************************)
EXTENDS BindingStatus

CONSTANT DefaultConfig      \* the defaults of the CLI's configuration flags

-----------------------------------------------------------------------------
(* kleym inspect binding. *)

\* The configuration flags given on the command line, their values, and --strict.  A flag
\* that is given with an empty value overrides all the same.
NoFlags == [given |-> {}, td |-> "", class |-> "", strict |-> FALSE]

\* What the reads of an inspection return: discovery and the binding's Get may fail,
\* rendering may be refused, and Pods be unreadable or not match.
Answered(pods) == [discovery |-> TRUE, get |-> TRUE, rendering |-> TRUE, pods |-> pods]

\* The flags that are given, and the known configuration for the others.
Override(flags, known) ==
    [td |-> IF "td" \in flags.given THEN flags.td ELSE known.td,
     class |-> IF "class" \in flags.given THEN flags.class ELSE known.class]

\* Mutant of ResolveIdentityConfig: the defaults of the flags hide the status.
PreferDefaults(flags) == Override(flags, DefaultConfig)

\* resolveIdentityConfig: flag, then binding status, then default.  The recorded trust
\* domain decides whether the status counts, for the class name too.
ResolveIdentityConfig(flags) ==
    Override(flags, IF live.status.config.td # "" THEN live.status.config ELSE DefaultConfig)

\* The severities of the findings.  identityConfigUndiscoveredFinding: no operator has
\* recorded its configuration yet.
ConfigFindings == IF live.status.config.td = "" THEN {"warning"} ELSE {}

\* inspectMatchedPods, once an identity is rendered.
PodFindings(pods) ==
    CASE pods = "unreadable" -> {"warning"}
      [] pods = "none" -> {"info"}
      [] pods = "matched" -> {}

\* InspectBinding: an identity that cannot be rendered is an error.
Findings(reads) ==
    ConfigFindings \cup (IF reads.rendering THEN PodFindings(reads.pods) ELSE {"error"})

\* InspectBinding followed by inspectionExitCode.
InspectionExitCode(flags, reads) ==
    CASE ~reads.discovery \/ ~reads.get -> 4
      [] reads.discovery /\ reads.get /\ ~live.there -> 3
      [] OTHER -> IF \/ "error" \in Findings(reads)
                     \/ flags.strict /\ "warning" \in Findings(reads)
                  THEN 2 ELSE 0

\* The rendered identity of the report, from the spec the command read.
InspectedIdentity(flags) == [spec |-> live.spec, td |-> ResolveIdentityConfig(flags).td]

-----------------------------------------------------------------------------
(* kleym status. *)

\* What `kleym status' reads besides the bindings: whether all reads are answered, the
\* CRDs that are served, the operator's Deployment, and its arguments that name a
\* configuration.
AllCRDs == {"kleym", "spire", "gaie"}

Healthy(args) == [reads |-> TRUE, crds |-> AllCRDs, operator |-> "ready", args |-> args]

\* addBindingConditionCounts: the conditions that are counted as True.
CountedConditions ==
    {t \in {"Ready", "InvalidRef", "UnsafeSelector", "RenderFailure"} :
        live.status.conds[t].is = "True"}

\* Mutant of BindingResult: readiness that is unknown counts as readiness.
UnknownIsOK == IF Ready(live.status).is = "False" THEN "ERROR" ELSE "OK"

\* bindingResult.
BindingResult ==
    CASE Ready(live.status).is \in {"Missing", "Unknown"} -> "WARNING"
      [] Ready(live.status).is = "True" -> "OK"
      [] OTHER -> "ERROR"

\* fillConfigFromDeployment, for an operator whose arguments are those of its process:
\* a trust domain argument settles the class name as well.
ConfigFromArgs(cluster) ==
    LET read == cluster.operator = "ready"
    IN  [td |-> IF read /\ "td" \in cluster.args THEN config.td ELSE "",
         class |-> IF read /\ "class" \in cluster.args THEN config.class ELSE "",
         known |-> read /\ cluster.args # {}]

\* Mutant of ReportedConfig: the bindings are not asked for what the arguments left open.
ReportedArgs(cluster) == [td |-> ConfigFromArgs(cluster).td, class |-> ConfigFromArgs(cluster).class]

\* fillConfigFromBindingObservations fills in what the arguments left open, if bindings
\* are listed at all.  With one binding there are no two values to disagree.
ReportedConfig(cluster) ==
    LET args == ConfigFromArgs(cluster)
        seen == "kleym" \in cluster.crds /\ live.there /\ live.status.config.td # ""
    IN  [td |-> IF args.td = "" /\ seen THEN live.status.config.td ELSE args.td,
         class |-> IF ~args.known /\ seen THEN live.status.config.class ELSE args.class]

\* inspectOperator: an error unless some Deployment has a ready replica.
Unavailable(cluster) == IF cluster.operator = "ready" THEN {} ELSE {"operator"}

\* inspectBindings.
Unhealthy == IF live.there /\ BindingResult = "ERROR" THEN {"binding"} ELSE {}

\* Status: the findings are all errors.  Without the CRD of the bindings none are listed.
StatusErrors(cluster) ==
    (AllCRDs \ cluster.crds) \cup Unavailable(cluster)
    \cup (IF "kleym" \in cluster.crds THEN Unhealthy ELSE {})

\* finishStatusReport.
StatusResult(cluster) ==
    IF StatusErrors(cluster) # {} THEN "ERROR"
    ELSE IF live.there /\ BindingResult = "WARNING" THEN "WARNING" ELSE "OK"

\* statusExitCode: unlike an inspection, a warning never changes the exit code.
StatusExitCode(cluster) ==
    IF ~cluster.reads THEN 4 ELSE IF StatusResult(cluster) = "ERROR" THEN 2 ELSE 0

-----------------------------------------------------------------------------
(* Properties. *)

\* An inspection without trust domain flag of a binding that is Ready for its current
\* generation renders the identity which the operator published, although the operator
\* may run with another trust domain by now, the CLI has defaults of its own, and a class
\* name, even an empty one, may be given (resolveIdentityConfig reads what
\* applyOperatorConfig recorded).
InspectionReproduces ==
    live.there /\ Ready(live.status).is = "True" /\ Ready(live.status).gen = live.gen =>
        \A given \in SUBSET {"class"} :
            InspectedIdentity([NoFlags EXCEPT !.given = given]) = live.status.id

\* A binding that `kleym status' finds OK passes `kleym inspect binding --strict' too, if
\* that can read what it asks for: success is only ever stored with, or after, the
\* configuration of the operator, whatever patches failed or were rebased and whichever
\* operator wrote it (bindingResult, inspectionExitCode, identityConfigUndiscoveredFinding).
OKPassesStrict ==
    live.there /\ StatusResult(Healthy({})) = "OK" =>
        \A pods \in {"matched", "none"} :
            InspectionExitCode([NoFlags EXCEPT !.strict = TRUE], Answered(pods)) = 0

\* `kleym status' says OK only if the binding shows an identity, and an ERROR that only
\* the binding can have caused is explained by one counted failure condition or by a
\* conflict, which is not counted (bindingResult, addBindingConditionCounts).
ResultIsExplained ==
    live.there =>
        /\ StatusResult(Healthy({})) = "OK" => live.status.id # None /\ CountedConditions = {"Ready"}
        /\ StatusExitCode(Healthy({})) = 2 =>
              Cardinality(CountedConditions) = 1 \/ live.status.conflicts # {}

\* Once a binding's status records what the operator runs with, `kleym status' and `kleym
\* inspect binding' report the same configuration, although the first puts it together
\* from the arguments of the Deployment, any of the two settings, and from the status
\* (fillConfigFromArgs, fillConfigFromBindingObservations, resolveIdentityConfig).  Only
\* the trust domain is an argument of the shipped Deployment, and then the class name
\* counts as empty: one that is set by an environment variable would be reported wrongly.
CommandsAgree ==
    live.there /\ live.status.config = config =>
        \A operator \in {"missing", "unready", "ready"}, args \in SUBSET {"td", "class"} :
            (args = {"td"} => config.class = "") =>
                ReportedConfig([Healthy(args) EXCEPT !.operator = operator]) = ResolveIdentityConfig(NoFlags)
=============================================================================
