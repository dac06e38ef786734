------------------------------ MODULE Services ------------------------------
(***************************************************************************)
(* Five components that run for a long time on their own: the MCP manager  *)
(* (whose names are used as they are), the daemon with its clients, the    *)
(* verify-fix loop, the harness and the model client.  They share no       *)
(* state; a behaviour exercises one of them, part, and the others keep     *)
(* their initial states, in which none of their fair actions is enabled.   *)
(***************************************************************************)
EXTENDS Mcp

VARIABLE part

-----------------------------------------------------------------------------
(* The daemon.                                                             *)
CONSTANTS Clients, Requests, Watcher, Signal, NoTask,
          TaskCap, ReplyCap, WireCap, MaxTurnEvents, MaxChanges

VARIABLES daemon, token, signal, queue, current, stage, outcome, emitted, changes,
          request, client, handler, reply, wire, got, ended, shed

daemonVars ==
    <<daemon, token, signal, queue, current, stage, outcome, emitted, changes,
      request, client, handler, reply, wire, got, ended, shed>>

D == INSTANCE Daemon WITH Capacity <- TaskCap, MaxEvents <- MaxTurnEvents

(* The verify-fix loop.                                                    *)
CONSTANTS Callers, MaxIterations, RalphTokens, EventCap, RalphEvents, RalphPerTurn,
          Earlier

VARIABLES caller, ralphPc, iteration, tokens, ralphLate, turn, spent, left, chan,
          ralphToken, ralphGood, ralphOutcome, broken, pressed

ralphVars ==
    <<caller, ralphPc, iteration, tokens, ralphLate, turn, spent, left, chan,
      ralphToken, ralphGood, ralphOutcome, broken, pressed>>

R == INSTANCE RalphLoop
       WITH pc <- ralphPc, late <- ralphLate, token <- ralphToken, good <- ralphGood,
            outcome <- ralphOutcome, MaxTokens <- RalphTokens, Capacity <- EventCap,
            MaxEvents <- RalphEvents, PerTurn <- RalphPerTurn

(* The harness.                                                            *)
CONSTANTS MaxSprints, MaxAttempts, MaxTokens, TurnLimit, MaxPlan, PerTurn, MaxRuns

VARIABLES pc, result, state, disk, handoff, eval, i, attempt, turns, sprintDone,
          stopped, late, runs, passed, fed, lateTurns, resumedAt

harnessVars ==
    <<pc, result, state, disk, handoff, eval, i, attempt, turns, sprintDone,
      stopped, late, runs, passed, fed, lateTurns, resumedAt>>

H == INSTANCE Harness WITH token <- stopped

(* The model client.                                                       *)
CONSTANTS Replies, NoName, ChunkCap, MaxRetries, MaxRequests

VARIABLES phase, tries, cancel, requests, unread, reader, pending, events, content_buf,
          tool_acc, was_cancelled, usage, answer, said, cut, heard

llmVars ==
    <<phase, tries, cancel, requests, unread, reader, pending, events, content_buf,
      tool_acc, was_cancelled, usage, answer, said, cut, heard>>

C == INSTANCE LlmClient
       WITH attempt <- tries, chan <- events, wire <- unread, reply <- said,
            Capacity <- ChunkCap

-----------------------------------------------------------------------------
ServicesInit ==
    /\ part \in {"daemon", "ralph", "harness", "mcp", "client"}
    /\ Init /\ D!Init /\ R!Init /\ H!Init /\ C!Init

ManagerStep ==
    /\ part = "mcp" /\ Next
    /\ UNCHANGED <<part, daemonVars, ralphVars, harnessVars, llmVars>>

DaemonStep ==
    /\ part = "daemon" /\ D!Next
    /\ UNCHANGED <<part, vars, ralphVars, harnessVars, llmVars>>

RalphStep ==
    /\ part = "ralph" /\ R!Next
    /\ UNCHANGED <<part, vars, daemonVars, harnessVars, llmVars>>

HarnessStep ==
    /\ part = "harness" /\ H!Next
    /\ UNCHANGED <<part, vars, daemonVars, ralphVars, llmVars>>

ClientStep ==
    /\ part = "client" /\ C!Next
    /\ UNCHANGED <<part, vars, daemonVars, ralphVars, harnessVars>>

ServicesNext == DaemonStep \/ RalphStep \/ HarnessStep \/ ManagerStep \/ ClientStep

servicesVars == <<part, vars, daemonVars, ralphVars, harnessVars, llmVars>>

ServicesFairness == Fairness /\ D!Fairness /\ R!Fairness /\ H!Fairness /\ C!Fairness

ServicesSpec == ServicesInit /\ [][ServicesNext]_servicesVars /\ ServicesFairness

(* What the parts assume of their constants.                               *)
DaemonConstants ==
    /\ Requests \subseteq D!Prompts \cup {"status", "shutdown"}
    /\ {Watcher, Signal, NoTask} \cap Clients = {}
    /\ {TaskCap, ReplyCap, WireCap} \subseteq Nat \ {0}
    /\ {MaxTurnEvents, MaxChanges} \subseteq Nat

ServicesConstants ==
    /\ McpConstants /\ DaemonConstants
    /\ R!RalphConstants /\ H!HarnessConstants /\ C!LlmConstants

-----------------------------------------------------------------------------
(* The properties are stated in their modules.                             *)
ServicesTypeOK == TypeOK /\ D!TypeOK /\ R!TypeOK /\ H!TypeOK /\ C!TypeOK

(* The limits of the verify-fix loop and of the harness, which are looked  *)
(* at between turns only, bound what the two do.                           *)
LimitsBound == R!LimitsBound /\ H!BudgetBound /\ H!OneLateTurn

(* The documentation of AutonomousConfig: its limits are hard stops, the   *)
(* agent will not exceed any of them.                                      *)
HardStops == R!HardStops

OutcomeIsTrue == R!OutcomeIsTrue
FeedbackIsCurrent == H!FeedbackIsCurrent

(* What state.toml says is true, and every normal end is recorded there.   *)
StatusIsTrue == H!StatusIsTrue /\ H!EndIsRecorded

(* A complete answer is acted on whole, a cut one is kept as far as read,  *)
(* and one the user has cancelled is not acted on.                         *)
AnswerIsWhole == C!AnswerIsWhole /\ C!TextIsPrefix /\ C!CancelledIsNotActedOn

(* The daemon's promises: a client that stops reading or dies does not     *)
(* hold up the turn, a stop that was asked for comes, and a client that    *)
(* goes on reading is answered - each unless the daemon comes to wait for  *)
(* a decision on a tool call, which nobody can send it (AwaitsNobody).     *)
TurnsEnd == D!TurnsEnd
StopEnds == D!StopEnds
ClientsAreServed == D!ClientsAreServed

(* Every wait that something bounds ends: of the verify-fix loop, unless   *)
(* its channel is full or a turn or its command, which have no timeout,    *)
(* goes on for ever, also when its turn is cancelled; of the harness,      *)
(* unless a turn hangs; of an operation on a tool server, unless one of    *)
(* its writes, which have no timeout either, blocks for ever; of a stream  *)
(* whose turn is cancelled; of a request, as long as the server takes it.  *)
WaitsEnd ==
    /\ R!LoopEnds /\ R!CancelIsHeard
    /\ H!RunEnds
    /\ OperationsEnd
    /\ C!CancelEndsStream /\ C!RequestEnds
=============================================================================
