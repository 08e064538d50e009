------------------------------ MODULE MCSingle ------------------------------
(***************************************************************************)
(* One binding.  Its two specs render under different names, and neither   *)
(* can be rendered in the second state of the pools.                       *)
(***************************************************************************)
EXTENDS OwnershipRefinement

CONSTANTS b1, s1, s2, p1, p2, InvalidRef

Plan(n) == [name |-> n, id |-> n, sa |-> "sa", variant |-> "v", sel |-> "app"]

MCBindings == {b1}
MCSpecs == {s1, s2}
MCPools == {p1, p2}
MCNames == {"n1", "n2"}
MCShared == {"n1"}
MCPlans == {Plan("n1"), Plan("n2")}
MCStateErrors == {InvalidRef}
MCRender ==
    [b \in MCBindings |-> [s \in MCSpecs |-> [p \in MCPools |->
        CASE s = s1 /\ p = p1 -> Plan("n1")
          [] s = s2 /\ p = p1 -> Plan("n2")
          [] OTHER            -> InvalidRef]]]
=============================================================================
