------------------------------- MODULE MCPair -------------------------------
(***************************************************************************)
(* Two bindings of one namespace.  Spec "v" claims the same variant in     *)
(* both, "w" another one; "bad" and "blank" cannot be rendered.            *)
(***************************************************************************)
EXTENDS OwnershipRefinement, TLC

CONSTANTS b1, b2, p1, n1v, n1w, n2v, n2w, InvalidRef

OutputName(b, v) ==
    CASE b = b1 /\ v = "v" -> n1v
      [] b = b1 /\ v = "w" -> n1w
      [] b = b2 /\ v = "v" -> n2v
      [] OTHER             -> n2w

\* The bindings reference different pools, so their SPIFFE IDs differ.
Plan(b, v) ==
    [name |-> OutputName(b, v), id |-> OutputName(b, v), sa |-> "sa", variant |-> v, sel |-> "app"]

MCBindings == {b1, b2}
MCPools == {p1}
MCPlans == {Plan(b, v) : b \in MCBindings, v \in Specs \cap {"v", "w"}}
MCNames == {p.name : p \in MCPlans}
MCStateErrors == {InvalidRef}
MCRender ==
    [b \in MCBindings |-> [s \in Specs |-> [p \in MCPools |->
        CASE s = "bad"   -> InvalidRef
          [] s = "blank" -> BlankPoolRef
          [] OTHER       -> Plan(b, s)]]]
NoNames == {}
\* The bindings differ in nothing but their names and those of their outputs.
MCSymmetry ==
    {f \in Permutations({b1, b2, n1v, n2v, n1w, n2w}) :
        \A b \in MCBindings, v \in {"v", "w"} :
            f[b] \in MCBindings /\ f[OutputName(b, v)] = OutputName(f[b], v)}
=============================================================================
