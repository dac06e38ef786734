----------------------------- MODULE RalphLoop ------------------------------
(***************************************************************************)
(* The verify-fix loop: a turn of the agent, a verification command, and   *)
(* again until the command succeeds or a limit is reached.                 *)
(* anvil-agent/src/autonomous.rs holds the limits; two callers drive it:   *)
(*   "ralph"       /ralph in the interactive loop (anvil/src/ralph.rs):    *)
(*                 awaits the turn, then drains the channel of its events; *)
(*   "autonomous"  anvil run -a (anvil/src/main.rs): spawns the turn and   *)
(*                 receives its events while it runs.                      *)
(* A turn is what its caller sees of it: events sent over a bounded        *)
(* channel, tokens spent, and a result.                                    *)
(***************************************************************************)
EXTENDS Naturals, Sequences

CONSTANTS
    Callers,        \* subset of {"ralph", "autonomous"}
    MaxIterations,  \* the limits of AutonomousConfig
    MaxTokens,
    Capacity,       \* of the event channel (64 in the code)
    MaxEvents,      \* bound: events of one turn
    PerTurn,        \* bound: tokens of one turn
    Earlier         \* what the session may have spent before the command

RalphConstants ==
    /\ Callers \subseteq {"ralph", "autonomous"}
    /\ {MaxIterations, MaxTokens, MaxEvents, PerTurn} \cup Earlier \subseteq Nat
    /\ Capacity \in Nat \ {0}

VARIABLES
    caller,     \* who drives the loop
    pc,         \* where it stands
    iteration,  \* turns begun
    tokens,     \* agent.usage().total_tokens
    late,       \* max_duration has elapsed
    turn,       \* "none", "running", or its result "ok", "error"
    spent,      \* tokens of the turn
    left,       \* events the turn has still to send
    chan,       \* its event channel
    token,      \* active_cancel: "none", or the turn's token "live", "fired"
    good,       \* the verification command would succeed
    outcome,    \* how the loop ended
    broken,     \* history: a stream of the last turn broke off
    pressed     \* history: when Ctrl+C was first pressed

turnVars == <<turn, spent, left, chan>>
hist == <<broken, pressed>>
vars == <<caller, pc, iteration, tokens, late, turnVars, token, good, outcome, hist>>

Limits == {"iterations", "tokens", "time"}
Outcomes == Limits \cup {"passed", "cancelled", "error", "killed"}
Events == {"event", "cancelled"}

Running == pc \notin {"idle", "over"}

(* Mutant of Reached: a limit may be overstepped by one.                   *)
ReachedBeyond == {l \in Limits :
    \/ l = "iterations" /\ iteration > MaxIterations
    \/ l = "tokens" /\ tokens > MaxTokens
    \/ l = "time" /\ late}

(* The limits that are reached, looked at between turns only.              *)
Reached == {l \in Limits :
    \/ l = "iterations" /\ iteration >= MaxIterations
    \/ l = "tokens" /\ tokens >= MaxTokens
    \/ l = "time" /\ late}

(* check_limits names the first of them in this order.                     *)
check_limits ==
    IF "iterations" \in Reached THEN "iterations"
    ELSE IF "tokens" \in Reached THEN "tokens" ELSE "time"

(* The loop is left; active_cancel is cleared.                             *)
Leave(how) == pc' = "over" /\ outcome' = how /\ token' = "none"

Init ==
    /\ caller \in Callers
    /\ pc = "idle" /\ iteration = 0 /\ tokens = 0 /\ late = FALSE
    /\ turn = "none" /\ spent = 0 /\ left = 0 /\ chan = <<>>
    /\ token = "none" /\ good \in BOOLEAN
    /\ outcome = "none" /\ broken = FALSE /\ pressed = "no"

-----------------------------------------------------------------------------
(* The command is given: /ralph in a session that may have spent tokens,   *)
(* which count, or anvil run with an agent of its own.                     *)
Begin ==
    /\ pc = "idle"
    /\ pc' = "limits"
    /\ tokens' \in IF caller = "ralph" THEN Earlier ELSE {0}
    /\ UNCHANGED <<caller, iteration, late, turnVars, token, good, outcome, hist>>

LimitReached ==
    /\ pc = "limits" /\ Reached # {}
    /\ Leave(check_limits)
    /\ UNCHANGED <<caller, iteration, tokens, late, turnVars, good, hist>>

(* Mutant of StartTurn: the turn is not counted.                           *)
StartTurnUncounted ==
    /\ pc = "limits" /\ Reached = {}
    /\ turn' = "running" /\ left' \in 0 .. MaxEvents /\ spent' = 0 /\ chan' = <<>>
    /\ token' = IF caller = "ralph" THEN "live" ELSE "none"
    /\ pc' = IF caller = "ralph" THEN "await" ELSE "drain"
    /\ broken' = FALSE
    /\ UNCHANGED <<caller, iteration, tokens, late, good, outcome, pressed>>

(* A turn is begun with a token and a channel of its own.  The ralph loop  *)
(* waits for its result, anvil run for its events.                         *)
StartTurn ==
    /\ pc = "limits" /\ Reached = {}
    /\ iteration' = iteration + 1
    /\ turn' = "running" /\ left' \in 0 .. MaxEvents /\ spent' = 0 /\ chan' = <<>>
    /\ token' = IF caller = "ralph" THEN "live" ELSE "none"
    /\ pc' = IF caller = "ralph" THEN "await" ELSE "drain"
    /\ broken' = FALSE
    /\ UNCHANGED <<caller, tokens, late, good, outcome, pressed>>

(* The turn's own steps: a request spends tokens, a tool changes the       *)
(* workspace, an event waits for a place in the channel.                   *)
Spend ==
    /\ turn = "running" /\ spent < PerTurn
    /\ spent' = spent + 1 /\ tokens' = tokens + 1
    /\ UNCHANGED <<caller, pc, iteration, late, turn, left, chan, token, good,
                   outcome, hist>>

Work ==
    /\ turn = "running"
    /\ good' = ~good
    /\ UNCHANGED <<caller, pc, iteration, tokens, late, turnVars, token, outcome,
                   hist>>

(* Mutant of Emit: the channel has no bound.                               *)
EmitUnbounded ==
    /\ turn = "running" /\ left > 0
    /\ left' = left - 1 /\ chan' = Append(chan, "event")
    /\ UNCHANGED <<caller, pc, iteration, tokens, late, turn, spent, token, good,
                   outcome, hist>>

Emit ==
    /\ turn = "running" /\ left > 0 /\ Len(chan) < Capacity
    /\ left' = left - 1 /\ chan' = Append(chan, "event")
    /\ UNCHANGED <<caller, pc, iteration, tokens, late, turn, spent, token, good,
                   outcome, hist>>

(* A turn that waits for a place in the channel cannot return.             *)
Return(result) ==
    /\ turn = "running" /\ (result = "ok" => left = 0)
    /\ left = 0 \/ Len(chan) < Capacity
    /\ turn' = result
    /\ UNCHANGED <<caller, pc, iteration, tokens, late, spent, left, chan, token,
                   good, outcome, hist>>

(* A turn that notices its token, or whose stream breaks off, sends        *)
(* Cancelled in either case and returns Ok.                                *)
ReturnCancelled ==
    /\ turn = "running" /\ Len(chan) < Capacity
    /\ chan' = Append(chan, "cancelled") /\ turn' = "ok"
    /\ broken' = (token # "fired")
    /\ UNCHANGED <<caller, pc, iteration, tokens, late, spent, left, token, good,
                   outcome, pressed>>

(* ralph.rs: the turn has returned, its events are received now.           *)
Awaited ==
    /\ pc = "await" /\ turn # "running"
    /\ pc' = "drain"
    /\ UNCHANGED <<caller, iteration, tokens, late, turnVars, token, good, outcome,
                   hist>>

Receive ==
    /\ pc = "drain" /\ chan # <<>> /\ (caller = "ralph" => Head(chan) = "event")
    /\ chan' = Tail(chan)
    /\ UNCHANGED <<caller, pc, iteration, tokens, late, turn, spent, left, token,
                   good, outcome, hist>>

(* ralph.rs leaves at the event, whatever the result of the turn.          *)
ReceiveCancelled ==
    /\ pc = "drain" /\ caller = "ralph" /\ chan # <<>> /\ Head(chan) = "cancelled"
    /\ chan' = Tail(chan)
    /\ Leave("cancelled")
    /\ UNCHANGED <<caller, iteration, tokens, late, turn, spent, left, good, hist>>

(* The channel is closed and empty.  An error ends the loop, a token that  *)
(* fired too late for the turn to notice does too.                         *)
TurnFailed ==
    /\ pc = "drain" /\ chan = <<>> /\ turn = "error"
    /\ Leave("error")
    /\ UNCHANGED <<caller, iteration, tokens, late, turnVars, good, hist>>

TurnCancelled ==
    /\ pc = "drain" /\ chan = <<>> /\ turn = "ok" /\ token = "fired"
    /\ Leave("cancelled")
    /\ UNCHANGED <<caller, iteration, tokens, late, turnVars, good, hist>>

(* Mutant of TurnDone: the token is not looked at after the turn.          *)
TurnDoneUnchecked ==
    /\ pc = "drain" /\ chan = <<>> /\ turn = "ok"
    /\ pc' = "verify"
    /\ UNCHANGED <<caller, iteration, tokens, late, turnVars, token, good, outcome,
                   hist>>

TurnDone ==
    /\ pc = "drain" /\ chan = <<>> /\ turn = "ok" /\ token # "fired"
    /\ pc' = "verify"
    /\ UNCHANGED <<caller, iteration, tokens, late, turnVars, token, good, outcome,
                   hist>>

(* Mutant of VerifyPassed: a command that could not be run has not failed. *)
VerifyPassedAnyway ==
    /\ pc = "verify"
    /\ Leave("passed")
    /\ UNCHANGED <<caller, iteration, tokens, late, turnVars, good, hist>>

(* run_verify blocks until the command ends; its failure, of whatever kind *)
(* (a signal, sh missing), is fed back and the limits are looked at again. *)
VerifyPassed ==
    /\ pc = "verify" /\ good
    /\ Leave("passed")
    /\ UNCHANGED <<caller, iteration, tokens, late, turnVars, good, hist>>

VerifyFailed ==
    /\ pc = "verify" /\ ~good
    /\ pc' = "limits"
    /\ UNCHANGED <<caller, iteration, tokens, late, turnVars, token, good, outcome,
                   hist>>

TimePasses ==
    /\ Running /\ ~late
    /\ late' = TRUE
    /\ UNCHANGED <<caller, pc, iteration, tokens, turnVars, token, good, outcome, hist>>

(* Ctrl+C.  The handler of the interactive loop fires a token that is      *)
(* registered and live, whether or not its turn still runs; otherwise it   *)
(* ends the process, as the signal itself does with anvil run.             *)
CtrlC ==
    /\ Running
    /\ pressed' = IF pressed # "no" THEN pressed
                  ELSE IF pc \in {"await", "drain"} THEN "within" ELSE "between"
    /\ IF token = "live"
         THEN token' = "fired" /\ UNCHANGED <<pc, outcome>>
         ELSE Leave("killed")
    /\ UNCHANGED <<caller, iteration, tokens, late, turnVars, good, broken>>

Over == pc = "over" /\ UNCHANGED vars

-----------------------------------------------------------------------------
TurnStep == Spend \/ Work \/ Emit \/ ReturnCancelled
                \/ \E result \in {"ok", "error"} : Return(result)

LoopStep ==
    \/ LimitReached \/ StartTurn \/ Awaited \/ Receive \/ ReceiveCancelled
    \/ TurnFailed \/ TurnCancelled \/ TurnDone \/ VerifyPassed \/ VerifyFailed

Next == Begin \/ LoopStep \/ TurnStep \/ TimePasses \/ CtrlC \/ Over

Spec == Init /\ [][Next]_vars

(* The loop is polled.  Nothing is owed by a turn or by a verification     *)
(* command: neither has a timeout.                                         *)
Fairness == WF_vars(LoopStep /\ pc # "verify")

FairSpec == Spec /\ Fairness

-----------------------------------------------------------------------------
TypeOK ==
    /\ caller \in Callers
    /\ pc \in {"idle", "limits", "await", "drain", "verify", "over"}
    /\ iteration \in Nat /\ tokens \in Nat /\ late \in BOOLEAN
    /\ turn \in {"none", "running", "ok", "error"}
    /\ spent \in 0 .. PerTurn /\ left \in 0 .. MaxEvents
    /\ chan \in Seq(Events) /\ Len(chan) <= Capacity
    /\ token \in {"none", "live", "fired"}
    /\ good \in BOOLEAN
    /\ outcome \in Outcomes \cup {"none"}
    /\ broken \in BOOLEAN /\ pressed \in {"no", "within", "between"}

(* What the limits do bound: never more turns than allowed, and tokens     *)
(* short of the budget and one turn more, because nothing looks at the     *)
(* budget while a turn runs (the comment that calls the limits hard stops  *)
(* is refuted as HardStops); no turn at all in a session that had spent    *)
(* the budget before.                                                      *)
LimitsBound ==
    /\ iteration <= MaxIterations
    /\ iteration = 0 \/ tokens < MaxTokens + PerTurn

(* The loop reports what happened: success only if the command succeeded   *)
(* after the last turn, a limit only if it was reached, a cancellation     *)
(* only if the user pressed Ctrl+C or the stream of the turn broke off:    *)
(* the two look the same to the loop, which gives up on either.            *)
OutcomeIsTrue ==
    /\ outcome = "passed" => good /\ turn = "ok"
    /\ outcome \in Limits => outcome \in Reached
    /\ outcome = "cancelled" => pressed # "no" \/ broken
    /\ pc = "over" => turn # "running" \/ outcome = "killed"

(* A Ctrl+C that falls within a turn is heard: no further turn begins, and *)
(* the loop does not claim a success or a limit.  (One that falls within   *)
(* the verification command is lost: the next turn gets a new token.)      *)
CancelIsHeard ==
    [][pressed = "within" => iteration' = iteration
                                /\ outcome' \notin Limits \cup {"passed"}]_vars

(* The loop ends, unless it is the ralph loop and waits for a turn that    *)
(* waits for a place in the channel nobody drains, or a turn or the        *)
(* verification command, which run without a timeout, goes on for ever.    *)
Clogged == caller = "ralph" /\ pc = "await" /\ left > 0 /\ Len(chan) = Capacity
Executing == pc = "verify" \/ (turn = "running" /\ ~Clogged)
LoopEnds == []<>~Executing => (Running ~> (~Running \/ Clogged))

(* AutonomousConfig's comment: all limits are hard stops, the agent will   *)
(* not exceed any of them.  A session that had spent more before the       *)
(* command is left out.                                                    *)
HardStops ==
    /\ iteration <= MaxIterations
    /\ iteration > 0 => tokens <= MaxTokens
=============================================================================
