----------------------------- MODULE MCAgentTurn -----------------------------
(* TLC instances of AgentTurn: a read-only tool that is routed to a model  *)
(* of its own, and a mutating tool that is not routed.                     *)
EXTENDS AgentTurn

CONSTANTS read, write, base, fast

UserOnly == [t \in 1 .. MaxTurns |-> "user"]
Unanswered == [t \in 1 .. MaxTurns |-> "silent"]

(* With users only, UserNext is all of Next: nobody else is there.         *)
UserSpec == Init /\ [][UserNext]_vars /\ Fairness

Routes == [t \in Tools |-> IF t = read THEN fast ELSE NoModel]
=============================================================================
