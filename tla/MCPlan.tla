------------------------------- MODULE MCPlan -------------------------------
(***************************************************************************)
(* Two bindings whose output names have the same base and may have the     *)
(* same hash, and two pools.                                               *)
(* The selectors include a malformed one, one without labels, and ones     *)
(* that select on the variant label themselves.                            *)
(***************************************************************************)
EXTENDS BindingInspection, TLC

CONSTANTS b1, b2

Text(x) == [core |-> x, padded |-> FALSE]
Padded(x) == [core |-> x, padded |-> TRUE]

BindingSpec(pool, sa, variant) == [pool |-> pool, group |-> Text(""), sa |-> sa, variant |-> variant]

MCBindings == {b1, b2}
\* The schema of the CRD refuses the last three specs, but not in bindings stored under
\* an earlier schema, which the controller validates again (bindingIdentityVariant).
MCSpecs ==
    {BindingSpec(Text("p"), Text("sa1"), Text("v")), BindingSpec(Text("p"), Text("sa1"), Text("w")),
     BindingSpec(Text("p"), Text("sa2"), Text("v")), BindingSpec(Text("q"), Text("sa1"), Text("v")),
     BindingSpec(Padded("p"), Text("sa1"), Text("v")), BindingSpec(Padded(""), Text("sa1"), Text("v")),
     BindingSpec(Text("p"), Padded("sa1"), Text("v")), BindingSpec(Text("p"), Text("sa1"), Padded("v")),
     [BindingSpec(Text("p"), Text("sa1"), Text("v")) EXCEPT !.group = Text("other")]}
MCSelectors ==
    {[form |-> "matchLabels", labels |-> "app" :> "v"],
     [form |-> "flat", labels |-> "key" :> "v"],
     [form |-> "matchLabels", labels |-> "key" :> "w" @@ "app" :> "w"],
     [form |-> "matchLabels", labels |-> "app" :> "bad value"],
     [form |-> "matchLabels", labels |-> <<>>],
     [form |-> "matchExpressions", labels |-> <<>>]}
MCBase == [b \in MCBindings |-> "kleym-ns-a-b"]
\* SPIFFE IDs that differ in the variant collide.
MCHash(id) == <<id[1], id[2]>>
\* The bindings differ in nothing but their names.
BindingSymmetry == Permutations(MCBindings)
MCTrustDomain == Text("kleym.sonda.red")
MCWorkloads ==
    [ns : {"ns", "other"}, sa : {"sa1", "sa2"}, labels : UNION {[keys -> {"v", "w"}] : keys \in SUBSET {"app", "key"}}]
=============================================================================
