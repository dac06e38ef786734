------------------------------- MODULE RunOnce -------------------------------
(***************************************************************************)
(* anvil run: one prompt, one turn (cmd_run in anvil/src/main.rs).  The    *)
(* turn is a task whose events main collects, and a second task reads the  *)
(* user's decisions from standard input.  That task is not told of the     *)
(* calls: it asks, reads and waits for a place in the permission channel,  *)
(* before the first call and ahead of every later one.                     *)
(*                                                                         *)
(* The process ends when main has returned and the runtime is dropped,     *)
(* which waits for a task that is in a blocking read (tokio).              *)
(***************************************************************************)
EXTENDS Naturals, Sequences

CONSTANTS
    Places,     \* places of the permission channel (1)
    Capacity,   \* places of the event channel (64)
    MaxCalls,   \* bound: calls of the turn that need a decision
    MaxLines,   \* bound: lines the user types
    MaxPieces   \* bound: pieces of text of the turn

RunConstants ==
    /\ Places \in Nat \ {0} /\ Capacity \in Nat \ {0}
    /\ MaxCalls \in Nat /\ MaxLines \in Nat /\ MaxPieces \in Nat

VARIABLES
    yes,      \* run with -y
    turn,     \* "works", "asks", "ok", "failed"
    asked,    \* calls that have needed a decision
    said,     \* pieces of text the turn has sent
    channel,  \* pieces on the way to main
    read,     \* pieces main has collected
    main,     \* "events", "returned", "exited"
    output,   \* pieces in the JSON that is printed, 0 before
    code,     \* exit status
    lines,    \* lines typed and not yet read
    eof,      \* standard input is closed
    reader,   \* the second task: "reads", "sends", "over"
    held,     \* the decision it sends
    perms,    \* the permission channel
    typed,    \* history: the lines typed
    used      \* history: decisions the calls have got

turnVars == <<yes, turn, asked, said>>
mainVars == <<channel, read, main, output, code>>
readVars == <<lines, eof, reader, held, perms, typed>>
vars == <<turnVars, mainVars, readVars, used>>

Words == {"y", "a", "other", "not_text"}
Decisions == {"Allow", "AllowAlways", "Deny"}

(* Mutant of Decision: what is not understood is taken for consent.        *)
DecisionOther(word) == IF word = "a" THEN "AllowAlways" ELSE "Allow"

Decision(word) ==
    IF word = "y" THEN "Allow" ELSE IF word = "a" THEN "AllowAlways" ELSE "Deny"

TurnOver == turn \in {"ok", "failed"}

Init ==
    /\ yes \in BOOLEAN /\ turn = "works" /\ asked = 0 /\ said = 0
    /\ channel = 0 /\ read = 0 /\ main = "events" /\ output = 0 /\ code = 0
    /\ lines = <<>> /\ eof = FALSE /\ held = "Deny" /\ perms = <<>> /\ typed = <<>>
    /\ reader = IF yes THEN "sends" ELSE "reads"
    /\ used = <<>>

-----------------------------------------------------------------------------
(* The user types ahead, or closes the input (a pipe that ends); with -y   *)
(* nobody reads it.                                                        *)
Type(word) ==
    /\ ~yes /\ ~eof /\ main # "exited" /\ Len(typed) < MaxLines
    /\ lines' = Append(lines, word) /\ typed' = Append(typed, word)
    /\ UNCHANGED <<turnVars, mainVars, eof, reader, held, perms, used>>

Close ==
    /\ ~yes /\ ~eof /\ eof' = TRUE
    /\ UNCHANGED <<turnVars, mainVars, lines, reader, held, perms, typed, used>>

(* read_line: a line, or nothing at the end of the input, which denies; a  *)
(* line that is not UTF-8 ends the task, and with it the channel.          *)
ReadLine ==
    /\ reader = "reads"
    /\ \/ /\ lines # <<>> /\ Head(lines) # "not_text"
          /\ held' = Decision(Head(lines)) /\ lines' = Tail(lines) /\ reader' = "sends"
       \/ /\ lines # <<>> /\ Head(lines) = "not_text"
          /\ lines' = Tail(lines) /\ reader' = "over" /\ UNCHANGED held
       \/ /\ lines = <<>> /\ eof
          /\ held' = "Deny" /\ reader' = "sends" /\ UNCHANGED lines
    /\ UNCHANGED <<turnVars, mainVars, eof, perms, typed, used>>

(* With -y the task sends Allow for ever.                                  *)
SendDecision ==
    /\ reader = "sends" /\ ~TurnOver /\ Len(perms) < Places
    /\ perms' = Append(perms, IF yes THEN "Allow" ELSE held)
    /\ reader' = IF yes THEN "sends" ELSE "reads"
    /\ UNCHANGED <<turnVars, mainVars, lines, eof, held, typed, used>>

(* Mutant of ReaderEnds: the task reads on when nobody receives.           *)
ReaderGoesOn ==
    /\ reader = "sends" /\ TurnOver /\ main # "exited"
    /\ reader' = "reads"
    /\ UNCHANGED <<turnVars, mainVars, lines, eof, held, perms, typed, used>>

(* The turn has dropped its end of the channel.                            *)
ReaderEnds ==
    /\ reader = "sends" /\ TurnOver
    /\ reader' = "over"
    /\ UNCHANGED <<turnVars, mainVars, lines, eof, held, perms, typed, used>>

-----------------------------------------------------------------------------
Say ==
    /\ turn = "works" /\ said < MaxPieces /\ channel < Capacity
    /\ said' = said + 1 /\ channel' = channel + 1
    /\ UNCHANGED <<yes, turn, asked, read, main, output, code, readVars, used>>

(* A call whose tool needs a decision and was not allowed always; a call   *)
(* that asks nothing is not told apart from the turn's other work.         *)
Ask ==
    /\ turn = "works" /\ asked < MaxCalls
    /\ turn' = "asks" /\ asked' = asked + 1
    /\ UNCHANGED <<yes, said, mainVars, readVars, used>>

(* A closed channel denies.                                                *)
Denied ==
    /\ turn = "asks" /\ perms = <<>> /\ reader = "over"
    /\ turn' = "works" /\ used' = Append(used, "Deny")
    /\ UNCHANGED <<yes, asked, said, mainVars, readVars>>

Decide ==
    /\ turn = "asks" /\ perms # <<>>
    /\ turn' = "works"
    /\ used' = Append(used, Head(perms)) /\ perms' = Tail(perms)
    /\ UNCHANGED <<yes, asked, said, mainVars, lines, eof, reader, held, typed>>

(* The turn ends well, or with an error; a stream that breaks ends well.   *)
EndTurn ==
    /\ turn = "works"
    /\ turn' \in {"ok", "failed"}
    /\ UNCHANGED <<yes, asked, said, mainVars, readVars, used>>

Collect ==
    /\ main = "events" /\ channel > 0
    /\ channel' = channel - 1 /\ read' = read + 1
    /\ UNCHANGED <<turnVars, main, output, code, readVars, used>>

(* Mutant of Finish: main does not wait for the last events.               *)
FinishEarly ==
    /\ main = "events" /\ TurnOver
    /\ main' = "returned"
    /\ code' = IF turn = "ok" THEN 0 ELSE 1
    /\ output' = IF turn = "ok" THEN read ELSE 0
    /\ UNCHANGED <<turnVars, channel, read, readVars, used>>

(* All events are in; the JSON is printed unless the turn failed.          *)
Finish ==
    /\ main = "events" /\ TurnOver /\ channel = 0
    /\ main' = "returned"
    /\ code' = IF turn = "ok" THEN 0 ELSE 1
    /\ output' = IF turn = "ok" THEN read ELSE 0
    /\ UNCHANGED <<turnVars, channel, read, readVars, used>>

(* A task that waits for a place is dropped with the runtime.              *)
Exit ==
    /\ main = "returned" /\ reader # "reads"
    /\ main' = "exited"
    /\ UNCHANGED <<turnVars, channel, read, output, code, readVars, used>>

ReaderStep == ReadLine \/ SendDecision \/ ReaderEnds
TurnStep == Decide \/ Denied \/ EndTurn
MainStep == Collect \/ Finish \/ Exit

Next ==
    \/ \E word \in Words : Type(word)
    \/ Close
    \/ ReaderStep \/ Say \/ Ask \/ TurnStep \/ MainStep

Spec == Init /\ [][Next]_vars

(* The tasks and main run, and the turn ends unless it waits.              *)
Fairness == WF_vars(ReaderStep) /\ WF_vars(TurnStep) /\ WF_vars(MainStep)

FairSpec == Spec /\ Fairness

-----------------------------------------------------------------------------
(* Types of the state.                                                     *)
TypeOK ==
    /\ yes \in BOOLEAN /\ eof \in BOOLEAN
    /\ turn \in {"works", "asks", "ok", "failed"}
    /\ asked \in 0 .. MaxCalls /\ said \in 0 .. MaxPieces
    /\ channel \in 0 .. Capacity /\ read \in 0 .. MaxPieces /\ output \in 0 .. MaxPieces
    /\ main \in {"events", "returned", "exited"} /\ code \in {0, 1}
    /\ lines \in Seq(Words) /\ reader \in {"reads", "sends", "over"} /\ held \in Decisions
    /\ perms \in Seq(Decisions) /\ Len(perms) <= Places
    /\ typed \in Seq(Words) /\ used \in Seq(Decisions)

(* The n-th call that needs a decision gets that of the n-th line, though  *)
(* nothing ties a line to a call; it is denied without a line and after    *)
(* one that is not text, and with -y it is allowed.                        *)
Spoken(word) ==
    CASE word = "y" -> "Allow" [] word = "a" -> "AllowAlways" [] word = "other" -> "Deny"

AnswersInOrder ==
    \A n \in DOMAIN used :
        used[n] = IF yes THEN "Allow"
                  ELSE IF n > Len(typed) \/ \E k \in 1 .. n : typed[k] = "not_text"
                  THEN "Deny" ELSE Spoken(typed[n])

(* The user is asked at most two calls ahead of the turn: one answer lies  *)
(* in the channel, one waits for its place.                                *)
TwoAhead ==
    ~yes /\ reader # "over" => Len(typed) - Len(lines) <= Len(used) + Places + 1

(* What is printed is all the turn has said, and only a turn that has not  *)
(* failed ends with status 0.                                              *)
OutputIsWhole ==
    main # "events" => IF turn = "ok" THEN code = 0 /\ output = said ELSE code = 1 /\ output = 0

(* With -y, or once the input is closed, the command ends; it also ends    *)
(* with the next line, for which it waits when its turn is over.           *)
RunEnds ==
    /\ (yes \/ eof) ~> (main = "exited")
    /\ (main = "returned" /\ lines # <<>>) ~> (main = "exited")
=============================================================================
