------------------------------ MODULE MCDaemon ------------------------------
(* TLC instances of Daemon, whose clients are interchangeable, and of the  *)
(* agent it may share with others: three turns, the first with a user who  *)
(* answers, one with the task that allows everything, as a request with -y *)
(* has it, and one that nobody answers.  A behaviour exercises one of the  *)
(* two, part; the other keeps its initial state.                           *)
EXTENDS Daemon, TLC

CONSTANTS c1, c2, write, base, NoModel, NoCall, SystemPrompt, ContextNote, Summary

VARIABLES part,
          up, messages, turn_messages, stored, conversation, cause, pc, turn, round,
          turnOutcome, reads, running, writes, last_tool_names, model, original, always,
          asked, perms, cancel, begun, given, executed, late, crashes, faults

agentVars ==
    <<up, messages, turn_messages, stored, conversation, cause, pc, turn, round,
      turnOutcome, reads, running, writes, last_tool_names, model, original, always,
      asked, perms, cancel, begun, given, executed, late, crashes, faults>>

A == INSTANCE AgentTurn
       WITH outcome <- turnOutcome, Tools <- {write}, ReadOnly <- {},
            Models <- {base}, Base <- base, Route <- [t \in {write} |-> NoModel],
            Approver <- <<"user", "auto", "closed">>, KeepRecent <- 2,
            MaxTurns <- 3, MaxRounds <- 1, MaxCalls <- 1, MaxCrashes <- 0, MaxFaults <- 0

MCInit == part \in {"daemon", "turns"} /\ Init /\ A!Init

DaemonStep == part = "daemon" /\ Next /\ UNCHANGED <<part, agentVars>>

AgentStep == part = "turns" /\ A!Next /\ UNCHANGED <<part, vars>>

MCSpec == MCInit /\ [][DaemonStep \/ AgentStep]_<<part, vars, agentVars>>

NoUnapprovedMutation == A!NoUnapprovedMutation

AnyOrder == Permutations(Clients)
=============================================================================
