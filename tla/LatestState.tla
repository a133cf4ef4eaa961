----------------------------- MODULE LatestState -----------------------------
(***************************************************************************)
(* What full-state reporting promises: the service shows, for every agent, *)
(* a state that the agent has really been in, and moves only forward       *)
(* through that agent's history.  How far behind it is, is left open:      *)
(* reports may be lost, late or refused.                                   *)
(***************************************************************************)
EXTENDS Integers

CONSTANT Agents

VARIABLES
    current,    \* version of each agent's own state; 0 before it runs
    shown       \* version the service holds; 0 for none

vars == <<current, shown>>

TypeOK == current \in [Agents -> Nat] /\ shown \in [Agents -> Nat]

Init ==
    /\ current = [a \in Agents |-> 1]
    /\ shown = [a \in Agents |-> 0]

\* The agent's own state changes.
Advance(a) ==
    /\ current' = [current EXCEPT ![a] = @ + 1]
    /\ UNCHANGED shown

\* The service catches up with some later state of the agent.
CatchUp(a) ==
    /\ \E v \in shown[a]..current[a] : shown' = [shown EXCEPT ![a] = v]
    /\ UNCHANGED current

Next == \E a \in Agents : Advance(a) \/ CatchUp(a)

Spec == Init /\ [][Next]_vars
=============================================================================
