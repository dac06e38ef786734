----------------------------- MODULE Foreground -----------------------------
(***************************************************************************)
(* The two commands that watch a workspace from the foreground until       *)
(* Ctrl+C: anvil watch (cmd_watch in anvil/src/main.rs) and anvil daemon   *)
(* start --watch (run_daemon in anvil/src/daemon.rs), from the thread of   *)
(* the watcher over the channels to the loop of turns, and to the end of   *)
(* the process.  What the watcher reports is the subject of FileWatch;     *)
(* here a batch is a batch.                                                *)
(*                                                                         *)
(* The process ends when main has returned and the runtime is dropped,     *)
(* which waits for the blocking threads to return (tokio).                 *)
(***************************************************************************)
EXTENDS Naturals, Sequences

CONSTANTS
    Capacity,     \* of each channel (32)
    MaxChanges,   \* bound: batches that are made
    MaxPresses    \* bound: how often Ctrl+C is pressed

ForegroundConstants ==
    Capacity \in Nat \ {0} /\ MaxChanges \in Nat /\ MaxPresses \in Nat

VARIABLES
    command,    \* "watch" or "daemon"
    loop,       \* "receives", "turn", "stops", "returned", "exited"
    queue,      \* the channel to the loop: "batch" and "shutdown"
    asks,       \* the turn waits for a decision
    due,        \* the watcher holds changes
    thread,     \* the watcher: "waits", "sends", "over"
    bridge,     \* the daemon's channel from the watcher to the forwarder
    forwarder,  \* the daemon's blocking thread: "receives", "sends", "over"
    signal,     \* the task of Ctrl+C: "waits", "sends", "over"
    presses, batches

loopVars == <<loop, queue, asks>>
watchVars == <<due, thread, bridge, forwarder>>
vars == <<command, loopVars, watchVars, signal, presses, batches>>

Closed == loop \in {"returned", "exited"}
Room == Len(queue) < Capacity

Init ==
    /\ command \in {"watch", "daemon"}
    /\ loop = "receives" /\ queue = <<>> /\ asks = FALSE
    /\ due = FALSE /\ thread = "waits" /\ bridge = <<>>
    /\ forwarder = IF command = "daemon" THEN "receives" ELSE "over"
    /\ signal = "waits" /\ presses = 0 /\ batches = 0

-----------------------------------------------------------------------------
(* Somebody changes files, as long as the process watches them.            *)
Change ==
    /\ ~due /\ loop # "exited" /\ thread # "over" /\ batches < MaxChanges
    /\ due' = TRUE /\ batches' = batches + 1
    /\ UNCHANGED <<command, loopVars, thread, bridge, forwarder, signal, presses>>

Fire ==
    /\ thread = "waits" /\ due
    /\ thread' = "sends" /\ due' = FALSE
    /\ UNCHANGED <<command, loopVars, bridge, forwarder, signal, presses, batches>>

(* Mutant of ThreadFails: the watcher goes on.                             *)
ThreadGoesOn ==
    /\ thread = "sends"
    /\ IF command = "watch" THEN Closed ELSE forwarder = "over"
    /\ thread' = "waits"
    /\ UNCHANGED <<command, loopVars, due, bridge, forwarder, signal, presses, batches>>

(* The watcher learns that its channel is closed when it sends.            *)
ThreadFails ==
    /\ thread = "sends"
    /\ IF command = "watch" THEN Closed ELSE forwarder = "over"
    /\ thread' = "over"
    /\ UNCHANGED <<command, loopVars, due, bridge, forwarder, signal, presses, batches>>

ThreadSends ==
    /\ thread = "sends"
    /\ \/ /\ command = "watch" /\ ~Closed /\ Room
          /\ queue' = Append(queue, "batch") /\ UNCHANGED bridge
       \/ /\ command = "daemon" /\ forwarder # "over" /\ Len(bridge) < Capacity
          /\ bridge' = Append(bridge, "batch") /\ UNCHANGED queue
    /\ thread' = "waits"
    /\ UNCHANGED <<command, loop, asks, due, forwarder, signal, presses, batches>>

Forward ==
    /\ forwarder = "receives" /\ bridge # <<>>
    /\ bridge' = Tail(bridge) /\ forwarder' = "sends"
    /\ UNCHANGED <<command, loopVars, due, thread, signal, presses, batches>>

ForwarderSends ==
    /\ forwarder = "sends"
    /\ \/ Closed /\ forwarder' = "over" /\ UNCHANGED queue
       \/ /\ ~Closed /\ Room
          /\ queue' = Append(queue, "batch") /\ forwarder' = "receives"
    /\ UNCHANGED <<command, loop, asks, due, thread, bridge, signal, presses, batches>>

-----------------------------------------------------------------------------
(* The first Ctrl+C wakes a task; the handler stays installed, and every   *)
(* later one goes nowhere.                                                 *)
CtrlC ==
    /\ loop # "exited" /\ presses < MaxPresses
    /\ presses' = presses + 1
    /\ signal' = IF signal = "waits" THEN "sends" ELSE signal
    /\ UNCHANGED <<command, loop, queue, asks, watchVars, batches>>

(* Mutant of SignalSends: try_send.                                        *)
SignalTries ==
    /\ signal = "sends"
    /\ queue' = IF Room /\ ~Closed THEN Append(queue, "shutdown") ELSE queue
    /\ signal' = "over"
    /\ UNCHANGED <<command, loop, asks, watchVars, presses, batches>>

SignalSends ==
    /\ signal = "sends"
    /\ \/ ~Closed /\ Room /\ queue' = Append(queue, "shutdown")
       \/ Closed /\ UNCHANGED queue
    /\ signal' = "over"
    /\ UNCHANGED <<command, loop, asks, watchVars, presses, batches>>

-----------------------------------------------------------------------------
Begin ==
    /\ loop = "receives" /\ queue # <<>> /\ Head(queue) = "batch"
    /\ loop' = "turn" /\ queue' = Tail(queue)
    /\ UNCHANGED <<command, asks, watchVars, signal, presses, batches>>

(* anvil watch keeps the sender of decisions, unused: a mutating call      *)
(* waits for ever.  The daemon allows all calls.                           *)
Ask ==
    /\ command = "watch" /\ loop = "turn" /\ ~asks
    /\ asks' = TRUE
    /\ UNCHANGED <<command, loop, queue, watchVars, signal, presses, batches>>

(* A turn that does not wait for a decision ends, failed or not.           *)
EndTurn ==
    /\ loop = "turn" /\ ~asks
    /\ loop' = "receives"
    /\ UNCHANGED <<command, queue, asks, watchVars, signal, presses, batches>>

Shutdown ==
    /\ loop = "receives" /\ queue # <<>> /\ Head(queue) = "shutdown"
    /\ loop' = "stops" /\ queue' = Tail(queue)
    /\ UNCHANGED <<command, asks, watchVars, signal, presses, batches>>

(* The session is paused and the function returns, dropping the channel.   *)
(* Aborting the handle of a blocking thread does not stop it.              *)
Return ==
    /\ loop = "stops"
    /\ loop' = "returned" /\ queue' = <<>>
    /\ UNCHANGED <<command, asks, watchVars, signal, presses, batches>>

BlockingThread == IF command = "watch" THEN thread ELSE forwarder

Exit ==
    /\ loop = "returned" /\ BlockingThread = "over"
    /\ loop' = "exited"
    /\ UNCHANGED <<command, queue, asks, watchVars, signal, presses, batches>>

WatchStep == Fire \/ ThreadFails \/ ThreadSends
ForwardStep == Forward \/ ForwarderSends
LoopStep == Begin \/ Shutdown \/ Return \/ Exit

Next ==
    \/ Change \/ CtrlC
    \/ WatchStep \/ ForwardStep \/ SignalSends
    \/ LoopStep \/ Ask \/ EndTurn

Spec == Init /\ [][Next]_vars

(* Threads and tasks run and turns end; who waits for a place in a channel *)
(* gets one in his turn (tokio's semaphore is first come, first served).   *)
Fairness ==
    /\ WF_vars(Fire) /\ WF_vars(ThreadFails) /\ SF_vars(ThreadSends)
    /\ WF_vars(Forward) /\ SF_vars(ForwarderSends) /\ SF_vars(SignalSends)
    /\ WF_vars(LoopStep) /\ WF_vars(EndTurn)

FairSpec == Spec /\ Fairness

-----------------------------------------------------------------------------
(* Types of the state, and the bounds of the channels.                     *)
TypeOK ==
    /\ command \in {"watch", "daemon"}
    /\ loop \in {"receives", "turn", "stops", "returned", "exited"}
    /\ queue \in Seq({"batch", "shutdown"}) /\ Len(queue) <= Capacity
    /\ bridge \in Seq({"batch"}) /\ Len(bridge) <= Capacity
    /\ asks \in BOOLEAN /\ due \in BOOLEAN
    /\ thread \in {"waits", "sends", "over"}
    /\ forwarder \in {"receives", "sends", "over"}
    /\ signal \in {"waits", "sends", "over"}
    /\ presses \in 0 .. MaxPresses /\ batches \in 0 .. MaxChanges

(* Ctrl+C ends the loop, however full the channels are, unless the turn    *)
(* waits for a decision that cannot come.                                  *)
CtrlCIsHeard == (presses > 0) ~> (Closed \/ asks)

(* After that, files that change end the process: the batch cannot be sent *)
(* and the blocking thread returns.                                        *)
NextChangeEnds == (loop = "returned" /\ due) ~> (loop = "exited")

(* What main.rs prints, "press Ctrl+C to stop", of every loop that is not  *)
(* waiting for a decision: the process ends.                               *)
CtrlCStops == (presses > 0) ~> (loop = "exited" \/ asks)
=============================================================================
