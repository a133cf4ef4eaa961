---------------------------- MODULE MCReportStore ----------------------------
(* Two agents whose clocks drift, with reports that overtake each other.   *)
EXTENDS ReportStore

MCAgents == {1, 2}

\* The second agent changes once less: enough to compete with the first.
MCMaxChanges == [a \in Agents |-> IF a = 1 THEN 3 ELSE 2]

\* Two changes of each: an observation, and one that replaces it.
MCTwoChanges == [a \in Agents |-> 2]
=============================================================================
