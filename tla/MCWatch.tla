------------------------------ MODULE MCWatch ------------------------------
(***************************************************************************)
(* Two bindings that may claim the same variant, on the same pool or not;  *)
(* for liveness, two bindings that start out settled.                      *)
(***************************************************************************)
EXTENDS BindingWatch, TLC

CONSTANTS b1, b2

MCBindings == {b1, b2}

Symmetry == Permutations(MCBindings)

\* Any two bindings compete.
OneVariant == {[pool |-> "p", variant |-> "v"], [pool |-> "q", variant |-> "v"]}

\* Bindings on different pools do not compete, but one without pool blocks the other.
OnePerPool == {[pool |-> "p", variant |-> "v"], [pool |-> "q", variant |-> "w"]}

\* Binding b with spec s after its first reconciles.
Settled(b, s) ==
    [NewBinding(s) EXCEPT !.fin = TRUE, !.rec = [name |-> Output(b, s), uid |-> 1],
                          !.status = [cond |-> "Ready", gen |-> 1, ver |-> 1]]

\* Every binding is absent, or settled on a pool of its own, no matter which.
SettledInit ==
    /\ LET own == CHOOSE f \in Injection(Bindings, Specs) : TRUE
       IN  \E set \in SUBSET Bindings :
              live = [b \in Bindings |-> IF b \in set THEN Settled(b, own[b]) ELSE AbsentBinding]
    /\ cache = live
    /\ stream = <<>>
    /\ pools = [p \in Pools |-> 1]
    /\ poolEvents = {}
    /\ outs = [n \in Names |->
                  IF live[n[1]].there /\ live[n[1]].rec.name = n
                  THEN [AbsentOutput(1) EXCEPT !.there = TRUE, !.ver = 1] ELSE AbsentOutput(0)]
    /\ outEvents = {}
    /\ queue = {}
    /\ timers = {}
    /\ op = Idle
    /\ moves = 0
    /\ holds = 0

SettledSpec == SettledInit /\ [][Next]_vars /\ Fairness
=============================================================================
