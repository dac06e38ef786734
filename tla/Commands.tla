------------------------------ MODULE Commands ------------------------------
(***************************************************************************)
(* The session log, whose names are used as they are, and the commands     *)
(* that work on a session without a prompt of their own: those that watch  *)
(* a workspace and the one that runs a single turn.  They share no state;  *)
(* a behaviour exercises one of them, part, and the others keep their      *)
(* initial states.                                                         *)
(***************************************************************************)
EXTENDS SessionLog

VARIABLE part

-----------------------------------------------------------------------------
(* anvil watch and anvil daemon start --watch.                             *)
CONSTANTS WatchCap, MaxChanges, MaxPresses

VARIABLES command, loop, queue, asks, due, thread, bridge, forwarder, signal, presses, batches

foregroundVars ==
    <<command, loop, queue, asks, due, thread, bridge, forwarder, signal, presses, batches>>

FG == INSTANCE Foreground WITH Capacity <- WatchCap

(* anvil run.                                                              *)
CONSTANTS Places, EventCap, MaxCalls, MaxLines, MaxPieces

VARIABLES yes, turn, asked, said, channel, read, main, output, code, lines,
          eof, reader, held, perms, typed, used

runVars ==
    <<yes, turn, asked, said, channel, read, main, output, code, lines, eof,
      reader, held, perms, typed, used>>

RO == INSTANCE RunOnce WITH Capacity <- EventCap

-----------------------------------------------------------------------------
CommandsInit == part \in {"log", "foreground", "run"} /\ Init /\ FG!Init /\ RO!Init

LogStep == part = "log" /\ Next /\ UNCHANGED <<part, foregroundVars, runVars>>

WatchStep ==
    part = "foreground" /\ FG!Next /\ UNCHANGED <<part, logVars, runVars>>

RunStep == part = "run" /\ RO!Next /\ UNCHANGED <<part, logVars, foregroundVars>>

CommandsNext == LogStep \/ WatchStep \/ RunStep

commandsVars == <<part, logVars, foregroundVars, runVars>>

(* The fairness of RunOnce where it is exercised: its turn works from the  *)
(* beginning.                                                              *)
RunFairness ==
    /\ WF_runVars(part = "run" /\ RO!ReaderStep)
    /\ WF_runVars(part = "run" /\ RO!TurnStep)
    /\ WF_runVars(part = "run" /\ RO!MainStep)

CommandsFairness == FG!Fairness /\ RunFairness

CommandsSpec == CommandsInit /\ [][CommandsNext]_commandsVars /\ CommandsFairness

(* What the parts assume of their constants.                               *)
CommandsConstants == FG!ForegroundConstants /\ RO!RunConstants

-----------------------------------------------------------------------------
(* The properties are stated in their modules.  A call that is asked for   *)
(* gets the decision that is its own, and a command prints what its turn   *)
(* has said.                                                               *)
CommandsAreExact ==
    /\ part \in {"log", "foreground", "run"}
    /\ part = "foreground" => FG!TypeOK
    /\ part = "run" => RO!TypeOK /\ RO!AnswersInOrder /\ RO!TwoAhead /\ RO!OutputIsWhole

(* A command whose turn is over, and one that Ctrl+C interrupts, ends, as  *)
(* far as it does: with the next line or the next change of a file.        *)
CommandsEnd == FG!CtrlCIsHeard /\ FG!NextChangeEnds /\ RO!RunEnds
=============================================================================
