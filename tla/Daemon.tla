------------------------------- MODULE Daemon -------------------------------
(***************************************************************************)
(* The daemon (anvil/src/daemon.rs) and its clients (anvil/src/client.rs): *)
(* one handler per connection, the signal handler and the file watcher put *)
(* tasks on a bounded channel; the dispatch loop, which owns the agent,    *)
(* takes them one by one.  The events of a prompt's turn go through a      *)
(* bounded reply channel to its handler, which writes them to the socket   *)
(* the client reads from.                                                  *)
(*                                                                         *)
(* A turn is what the daemon sees of it: some events, perhaps a mutating   *)
(* tool that needs approval, and a last event that says how it ended.  A   *)
(* task is known by the client, the watcher or the signal it comes from.   *)
(***************************************************************************)
EXTENDS Naturals, Sequences

CONSTANTS
    Clients,     \* runs of anvil send, anvil daemon status, anvil daemon stop
    Requests,    \* what they may ask for
    Watcher, Signal, NoTask,
    Capacity,    \* of the task channel (32 in the code)
    ReplyCap,    \* of a reply channel (64 in the code)
    WireCap,     \* frames a socket holds for a client that does not read
    MaxEvents,   \* bound: events of one turn before its last
    MaxChanges   \* bound: file changes reported

Prompts == {"auto", "ask"}   \* anvil send with and without -y

ASSUME DaemonConstants ==
    /\ Requests \subseteq Prompts \cup {"status", "shutdown"}
    /\ {Watcher, Signal, NoTask} \cap Clients = {}
    /\ {Capacity, ReplyCap, WireCap} \subseteq Nat \ {0}
    /\ {MaxEvents, MaxChanges} \subseteq Nat

VARIABLES
    daemon,    \* "running", loop left, run_daemon returned, process gone
    token,     \* shutdown_token has fired
    signal,    \* the signal handler
    queue,     \* the task channel
    current,   \* the task whose turn runs
    stage,     \* where its turn stands
    outcome,   \* the last event of that turn
    emitted,   \* events its turn has sent so far
    changes,   \* file changes reported
    request,   \* what a client has asked for
    client,    \* the client process
    handler,   \* the daemon's task for its connection
    reply,     \* the reply channel between the turn and the handler
    wire,      \* frames written and not read
    got,       \* the events a client has printed
    ended,     \* history: how the turn of a client's prompt ended
    shed       \* history: connections dropped for not reading

loopVars == <<queue, current, stage, outcome, emitted>>
connVars == <<handler, reply, wire>>
clientVars == <<request, client, got>>
histVars == <<ended, shed>>
vars == <<daemon, token, signal, loopVars, changes, connVars, clientVars, histVars>>

Tasks == Clients \cup {Watcher, Signal}
LastEvents == {"complete", "error", "cancelled"}

(* What goes through a reply channel and over a socket.                    *)
Progress(n) == [kind |-> "progress", number |-> n]
Last(kind) == [kind |-> kind, number |-> 0]
Event == [kind : LastEvents \cup {"progress", "status", "ack"},
          number : 0 .. MaxEvents]

IsPrompt(t) == t \in Clients /\ request[t] \in Prompts
StartsTurn(t) == t = Watcher \/ IsPrompt(t)
IsShutdown(t) == t = Signal \/ (t \in Clients /\ request[t] = "shutdown")

(* Tools are approved without asking for anvil send -y and file changes.   *)
AutoApproved(t) == t = Watcher \/ (t \in Clients /\ request[t] = "auto")

Queued(t) == \E i \in DOMAIN queue : queue[i] = t

(* Does a reply sender for the client still exist?                         *)
HasSender(c) == Queued(c) \/ current = c

Connected(c) == client[c] \in {"waiting", "suspended"}

Init ==
    /\ daemon = "running" /\ token = FALSE /\ signal = "armed"
    /\ queue = <<>> /\ current = NoTask
    /\ stage = "idle" /\ outcome = "none"
    /\ emitted = [t \in Tasks |-> 0]
    /\ changes = 0
    /\ request = [c \in Clients |-> "none"]
    /\ client = [c \in Clients |-> "new"]
    /\ handler = [c \in Clients |-> "none"]
    /\ reply = [c \in Clients |-> <<>>]
    /\ wire = [c \in Clients |-> <<>>]
    /\ got = [c \in Clients |-> <<>>]
    /\ ended = [c \in Clients |-> "none"]
    /\ shed = {}

-----------------------------------------------------------------------------
(* The client process.                                                     *)

(* Connected and accepted, the request sent and read.                      *)
Connect(c, r) ==
    /\ daemon = "running" /\ client[c] = "new"
    /\ client' = [client EXCEPT ![c] = "waiting"]
    /\ request' = [request EXCEPT ![c] = r]
    /\ handler' = [handler EXCEPT ![c] = "enqueue"]
    /\ UNCHANGED <<daemon, token, signal, loopVars, changes, reply, wire, got,
                   histVars>>

(* Mutant of ReadFrame: a cancelled turn leaves the exit code at 0.        *)
ReadFrameCancelled(c) ==
    /\ client[c] = "waiting" /\ wire[c] # <<>>
    /\ LET f == Head(wire[c])
       IN  /\ client' = [client EXCEPT ![c] =
                 CASE f.kind = "progress" -> "waiting"
                   [] f.kind = "error"    -> "exit 1"
                   [] OTHER               -> "exit 0"]
           /\ got' = [got EXCEPT ![c] =
                 IF f.kind = "progress" THEN Append(@, f.number) ELSE @]
    /\ wire' = [wire EXCEPT ![c] = Tail(@)]
    /\ UNCHANGED <<daemon, token, signal, loopVars, changes, handler, reply,
                   request, histVars>>

(* read_frame returns a frame; the last one decides the exit code.         *)
ReadFrame(c) ==
    /\ client[c] = "waiting" /\ wire[c] # <<>>
    /\ LET f == Head(wire[c])
       IN  /\ client' = [client EXCEPT ![c] =
                 CASE f.kind = "progress"              -> "waiting"
                   [] f.kind \in {"error", "cancelled"} -> "exit 1"
                   [] OTHER                            -> "exit 0"]
           /\ got' = [got EXCEPT ![c] =
                 IF f.kind = "progress" THEN Append(@, f.number) ELSE @]
    /\ wire' = [wire EXCEPT ![c] = Tail(@)]
    /\ UNCHANGED <<daemon, token, signal, loopVars, changes, handler, reply,
                   request, histVars>>

(* Mutant of ReadEof: the end of the stream is skipped like an unknown     *)
(* response.                                                               *)
ReadEofIgnored(c) ==
    /\ client[c] = "waiting" /\ wire[c] = <<>> /\ handler[c] = "closed"
    /\ UNCHANGED vars

(* read_frame returns None: send_prompt leaves its loop with exit_code as  *)
(* it is, daemon_stop takes it for success, daemon_status for an error.    *)
ReadEof(c) ==
    /\ client[c] = "waiting" /\ wire[c] = <<>> /\ handler[c] = "closed"
    /\ client' = [client EXCEPT ![c] =
                      IF request[c] = "status" THEN "exit 1" ELSE "exit 0"]
    /\ UNCHANGED <<daemon, token, signal, loopVars, changes, connVars, request,
                   got, histVars>>

Suspend(c) ==
    /\ client[c] = "waiting"
    /\ client' = [client EXCEPT ![c] = "suspended"]
    /\ UNCHANGED <<daemon, token, signal, loopVars, changes, connVars, request,
                   got, histVars>>

Continue(c) ==
    /\ client[c] = "suspended"
    /\ client' = [client EXCEPT ![c] = "waiting"]
    /\ UNCHANGED <<daemon, token, signal, loopVars, changes, connVars, request,
                   got, histVars>>

Die(c) ==
    /\ Connected(c)
    /\ client' = [client EXCEPT ![c] = "dead"]
    /\ UNCHANGED <<daemon, token, signal, loopVars, changes, connVars, request,
                   got, histVars>>

-----------------------------------------------------------------------------
(* The connection handler.                                                 *)

(* Mutants of Enqueue: an unbounded channel; and a stop request that is    *)
(* tried once and acknowledged even when the channel is full.              *)
EnqueueUnbounded(c) ==
    /\ handler[c] = "enqueue"
    /\ daemon \in {"running", "stopping"}
    /\ queue' = Append(queue, c)
    /\ handler' = [handler EXCEPT ![c] =
                       IF request[c] = "shutdown" THEN "ack" ELSE "stream"]
    /\ UNCHANGED <<daemon, token, signal, current, stage, outcome, emitted, changes,
                   reply, wire, clientVars, histVars>>

EnqueueTried(c) ==
    /\ handler[c] = "enqueue"
    /\ daemon \in {"running", "stopping"}
    /\ \/ Len(queue) < Capacity /\ queue' = Append(queue, c)
       \/ Len(queue) = Capacity /\ request[c] = "shutdown" /\ UNCHANGED queue
    /\ handler' = [handler EXCEPT ![c] =
                       IF request[c] = "shutdown" THEN "ack" ELSE "stream"]
    /\ UNCHANGED <<daemon, token, signal, current, stage, outcome, emitted, changes,
                   reply, wire, clientVars, histVars>>

(* The task channel exists until run_daemon returns, though nobody takes   *)
(* from it once the dispatch loop has been left.                           *)
Enqueue(c) ==
    /\ handler[c] = "enqueue"
    /\ daemon \in {"running", "stopping"} /\ Len(queue) < Capacity
    /\ queue' = Append(queue, c)
    /\ handler' = [handler EXCEPT ![c] =
                       IF request[c] = "shutdown" THEN "ack" ELSE "stream"]
    /\ UNCHANGED <<daemon, token, signal, current, stage, outcome, emitted, changes,
                   reply, wire, clientVars, histVars>>

(* send fails; a stop request is acknowledged all the same.                *)
EnqueueFails(c) ==
    /\ handler[c] = "enqueue" /\ daemon = "returned"
    /\ handler' = [handler EXCEPT ![c] =
                       IF request[c] = "shutdown" THEN "ack" ELSE "refuse"]
    /\ UNCHANGED <<daemon, token, signal, loopVars, changes, reply, wire,
                   clientVars, histVars>>

(* One frame, and the connection is closed.                                *)
Answer(c) ==
    /\ handler[c] \in {"ack", "refuse"}
    /\ wire' = [wire EXCEPT ![c] =
                    Append(@, Last(IF handler[c] = "ack" THEN "ack" ELSE "error"))]
    /\ handler' = [handler EXCEPT ![c] = "closed"]
    /\ UNCHANGED <<daemon, token, signal, loopVars, changes, reply, clientVars,
                   histVars>>

Forward(c) ==
    /\ handler[c] = "stream" /\ reply[c] # <<>>
    /\ Connected(c) /\ Len(wire[c]) < WireCap
    /\ wire' = [wire EXCEPT ![c] = Append(@, Head(reply[c]))]
    /\ reply' = [reply EXCEPT ![c] = Tail(@)]
    /\ UNCHANGED <<daemon, token, signal, loopVars, changes, handler, clientVars,
                   histVars>>

(* Mutant of DropConnection: no timeout around the write.                  *)
DropDisconnected(c) ==
    /\ handler[c] = "stream" /\ reply[c] # <<>>
    /\ ~Connected(c)
    /\ handler' = [handler EXCEPT ![c] = "closed"]
    /\ reply' = [reply EXCEPT ![c] = <<>>]
    /\ shed' = shed \cup {c}
    /\ UNCHANGED <<daemon, token, signal, loopVars, changes, wire, clientVars, ended>>

(* The write fails, or takes longer than WRITE_TIMEOUT: the connection and *)
(* the receiving end of the reply channel are dropped.                     *)
DropConnection(c) ==
    /\ handler[c] = "stream" /\ reply[c] # <<>>
    /\ ~Connected(c) \/ Len(wire[c]) = WireCap
    /\ handler' = [handler EXCEPT ![c] = "closed"]
    /\ reply' = [reply EXCEPT ![c] = <<>>]
    /\ shed' = shed \cup {c}
    /\ UNCHANGED <<daemon, token, signal, loopVars, changes, wire, clientVars, ended>>

(* recv returns None: every event has been written and no sender is left.  *)
StreamEnds(c) ==
    /\ handler[c] = "stream" /\ reply[c] = <<>> /\ ~HasSender(c)
    /\ handler' = [handler EXCEPT ![c] = "closed"]
    /\ UNCHANGED <<daemon, token, signal, loopVars, changes, reply, wire, clientVars,
                   histVars>>

-----------------------------------------------------------------------------
(* The other producers.                                                    *)
SignalFires ==
    /\ signal = "armed" /\ daemon = "running"
    /\ signal' = "fired"
    /\ token' = TRUE
    /\ UNCHANGED <<daemon, loopVars, changes, connVars, clientVars, histVars>>

SignalEnqueues ==
    /\ signal = "fired"
    /\ daemon \in {"running", "stopping"} /\ Len(queue) < Capacity
    /\ signal' = "sent"
    /\ queue' = Append(queue, Signal)
    /\ UNCHANGED <<daemon, token, current, stage, outcome, emitted, changes, connVars,
                   clientVars, histVars>>

FileChanged ==
    /\ changes < MaxChanges
    /\ daemon = "running" /\ Len(queue) < Capacity
    /\ changes' = changes + 1
    /\ queue' = Append(queue, Watcher)
    /\ UNCHANGED <<daemon, token, signal, current, stage, outcome, emitted, connVars,
                   clientVars, histVars>>

-----------------------------------------------------------------------------
(* The dispatch loop.                                                      *)
Take(t) ==
    /\ daemon = "running" /\ current = NoTask
    /\ queue # <<>> /\ t = Head(queue)
    /\ queue' = Tail(queue)
    /\ UNCHANGED <<signal, changes, handler, wire, clientVars, histVars>>

(* The child token of a turn begun after shutdown_token has fired is       *)
(* cancelled from the start.                                               *)
StartTurn(t) ==
    /\ Take(t) /\ StartsTurn(t)
    /\ current' = t
    /\ IF token THEN stage' = "ending" /\ outcome' = "cancelled"
                ELSE stage' = "working" /\ outcome' = "none"
    /\ emitted' = [emitted EXCEPT ![t] = 0]
    /\ UNCHANGED <<daemon, token, reply>>

AnswerStatus(t) ==
    /\ Take(t) /\ t \in Clients /\ request[t] = "status"
    /\ reply' = [reply EXCEPT ![t] = IF handler[t] = "stream" THEN <<Last("status")>> ELSE @]
    /\ UNCHANGED <<daemon, token, current, stage, outcome, emitted>>

(* Mutant of LeaveLoop: the token fires but the loop is not left.          *)
LeaveLoopTokenOnly(t) ==
    /\ Take(t) /\ IsShutdown(t)
    /\ token' = TRUE
    /\ UNCHANGED <<daemon, current, stage, outcome, emitted, reply>>

LeaveLoop(t) ==
    /\ Take(t) /\ IsShutdown(t)
    /\ token' = TRUE
    /\ daemon' = "stopping"
    /\ UNCHANGED <<current, stage, outcome, emitted, reply>>

(* Mutant of SendEvent: try_send, which drops the event when there is no   *)
(* room.                                                                   *)
TrySendEvent(e) ==
    IF \/ current = Watcher \/ handler[current] = "closed"
       \/ Len(reply[current]) = ReplyCap
    THEN UNCHANGED reply
    ELSE reply' = [reply EXCEPT ![current] = Append(@, e)]

(* event_tx.send(e).await by the current turn: it waits for room, unless   *)
(* the receiver is gone; the events of a file change are drained to stderr.*)
SendEvent(e) ==
    IF current = Watcher \/ handler[current] = "closed"
    THEN UNCHANGED reply
    ELSE /\ Len(reply[current]) < ReplyCap
         /\ reply' = [reply EXCEPT ![current] = Append(@, e)]

InTurn(s) ==
    /\ current # NoTask /\ stage = s
    /\ UNCHANGED <<daemon, token, signal, queue, changes, handler, wire, clientVars, shed>>

(* The next event; it may say that a mutating tool waits for approval.     *)
EmitEvent ==
    /\ InTurn("working") /\ emitted[current] < MaxEvents
    /\ SendEvent(Progress(emitted[current] + 1))
    /\ emitted' = [emitted EXCEPT ![current] = @ + 1]
    /\ stage' \in {"working"} \cup (IF token THEN {} ELSE {"asking"})
    /\ UNCHANGED <<current, outcome, ended>>

Approve ==
    /\ InTurn("asking") /\ AutoApproved(current)
    /\ stage' = "working"
    /\ UNCHANGED <<current, outcome, emitted, reply, ended>>

(* The turn comes to its end; a stream that breaks ends it as cancelled.   *)
ConcludeTurn ==
    /\ InTurn("working")
    /\ outcome' \in IF token THEN LastEvents \ {"complete"} ELSE LastEvents
    /\ stage' = "ending"
    /\ UNCHANGED <<current, emitted, reply, ended>>

EndTurn ==
    /\ InTurn("ending")
    /\ SendEvent(Last(outcome))
    /\ ended' = [c \in Clients |-> IF c = current THEN outcome ELSE ended[c]]
    /\ current' = NoTask /\ stage' = "idle" /\ outcome' = "none"
    /\ UNCHANGED emitted

-----------------------------------------------------------------------------
(* After the loop: run_daemon returns, dropping the task channel with what *)
(* is in it; then the runtime goes, and every handler with it.             *)
Return ==
    /\ daemon = "stopping"
    /\ daemon' = "returned"
    /\ queue' = <<>>
    /\ UNCHANGED <<token, signal, current, stage, outcome, emitted, changes, connVars,
                   clientVars, histVars>>

Gone ==
    /\ daemon' = "down"
    /\ handler' = [c \in Clients |-> IF handler[c] = "none" THEN "none" ELSE "closed"]
    /\ reply' = [c \in Clients |-> <<>>]
    /\ queue' = <<>> /\ current' = NoTask /\ stage' = "idle" /\ outcome' = "none"
    /\ UNCHANGED <<token, signal, emitted, changes, wire, clientVars, histVars>>

ProcessExits == daemon = "returned" /\ Gone

(* SIGTERM, for which no handler is installed, SIGKILL, or a crash.        *)
Killed == daemon # "down" /\ Gone

(* Every client that will run has run.                                     *)
Finished ==
    /\ daemon = "down" \/ (queue = <<>> /\ current = NoTask)
    /\ \A c \in Clients : client[c] \in {"new", "exit 0", "exit 1", "dead", "suspended"}
    /\ UNCHANGED vars

DispatchStep ==
    \/ \E t \in Tasks : StartTurn(t) \/ AnswerStatus(t) \/ LeaveLoop(t)
    \/ EmitEvent \/ Approve \/ ConcludeTurn \/ EndTurn
    \/ Return \/ ProcessExits

HandlerStep(c) ==
    \/ Answer(c) \/ Forward(c) \/ DropConnection(c) \/ StreamEnds(c)
    \/ EnqueueFails(c)

Next ==
    \/ \E c \in Clients, r \in Requests : Connect(c, r)
    \/ \E c \in Clients : ReadFrame(c) \/ ReadEof(c)
    \/ \E c \in Clients : Suspend(c) \/ Continue(c) \/ Die(c)
    \/ \E c \in Clients : Enqueue(c) \/ HandlerStep(c)
    \/ SignalFires \/ SignalEnqueues \/ FileChanged
    \/ DispatchStep
    \/ Killed
    \/ Finished

Spec == Init /\ [][Next]_vars

(* The runtime polls every task that can go on, a turn too, whose requests *)
(* and tools are assumed to end; a waiting sender of the task channel gets *)
(* a place in its turn (tokio hands them out in order); a client that is   *)
(* not suspended reads.                                                    *)
Fairness ==
    /\ WF_vars(DispatchStep)
    /\ SF_vars(SignalEnqueues)
    /\ \A c \in Clients : /\ SF_vars(Enqueue(c))
                          /\ WF_vars(HandlerStep(c))
                          /\ WF_vars(ReadFrame(c) \/ ReadEof(c))

FairSpec == Spec /\ Fairness

-----------------------------------------------------------------------------
(* Type correctness, and the bounds of the three channels.                 *)
LoopTypeOK ==
    /\ daemon \in {"running", "stopping", "returned", "down"}
    /\ token \in BOOLEAN
    /\ signal \in {"armed", "fired", "sent"}
    /\ queue \in Seq(Tasks) /\ Len(queue) <= Capacity
    /\ current \in Clients \cup {Watcher, NoTask}
    /\ stage \in {"idle", "working", "asking", "ending"}
    /\ outcome \in LastEvents \cup {"none"}
    /\ emitted \in [Tasks -> 0 .. MaxEvents]
    /\ changes \in 0 .. MaxChanges

ConnTypeOK ==
    /\ handler \in [Clients -> {"none", "enqueue", "ack", "refuse", "stream",
                                "closed"}]
    /\ reply \in [Clients -> Seq(Event)] /\ wire \in [Clients -> Seq(Event)]
    /\ \A c \in Clients : Len(reply[c]) <= ReplyCap /\ Len(wire[c]) <= WireCap

ClientTypeOK ==
    /\ request \in [Clients -> Requests \cup {"none"}]
    /\ client \in [Clients -> {"new", "waiting", "suspended", "dead",
                               "exit 0", "exit 1"}]
    /\ got \in [Clients -> Seq(1 .. MaxEvents)]
    /\ ended \in [Clients -> LastEvents \cup {"none"}]
    /\ shed \subseteq Clients

TypeOK == LoopTypeOK /\ ConnTypeOK /\ ClientTypeOK

(* An exit code tells the truth about a prompt as long as its connection   *)
(* was not shed and the daemon stayed up: 0 says that the turn completed,  *)
(* 1 that it did not.                                                      *)
ExitCodeIsTrue ==
    \A c \in Clients : IsPrompt(c) /\ c \notin shed /\ daemon = "running" =>
        /\ client[c] = "exit 0" => ended[c] = "complete"
        /\ client[c] = "exit 1" => ended[c] \in {"error", "cancelled"}

(* A client prints the events of its own turn from the first on, without a *)
(* gap, through both channels, whoever else is being served; and all of    *)
(* them before it exits on a turn that completed.                          *)
OutputIsTurn ==
    \A c \in Clients :
        /\ \A i \in DOMAIN got[c] : got[c][i] = i
        /\ client[c] = "exit 0" /\ IsPrompt(c) /\ c \notin shed /\ daemon = "running"
              => Len(got[c]) = emitted[c]

(* A stop request that was acknowledged is in the queue or has taken       *)
(* effect, however full the queue was and whoever else is stopping it.     *)
AcknowledgedIsStopping ==
    \A c \in Clients : request[c] = "shutdown" /\ client[c] = "exit 0"
        => Queued(c) \/ daemon # "running"

(* The turn of anvil send without -y has come to a call that needs a       *)
(* decision: the loop keeps the sender and never uses it, so that this     *)
(* turn waits until the process is killed, and all that is behind it too.  *)
AwaitsNobody == stage = "asking" /\ ~AutoApproved(current)

(* A client that stops reading or dies does not keep the dispatch loop     *)
(* from finishing the turn; only a question nobody can answer does.        *)
TurnsEnd == stage # "idle" ~> (stage = "idle" \/ AwaitsNobody)

(* A signal or an accepted stop request takes the daemon down, unless the  *)
(* loop is caught in such a question or comes to one before the stop.      *)
StopEnds ==
    /\ signal = "fired" ~> (daemon = "down" \/ AwaitsNobody)
    /\ \A c \in Clients : Queued(c) /\ request[c] = "shutdown"
                            ~> (daemon = "down" \/ AwaitsNobody)

(* A client that goes on reading gets its answer, unless the loop is       *)
(* caught in such a question, its own or that of a turn before it.         *)
ClientsAreServed ==
    \A c \in Clients : client[c] = "waiting"
                            ~> (client[c] # "waiting" \/ AwaitsNobody)

-----------------------------------------------------------------------------
(* What client.rs says of send_prompt: exit code 0 is success.             *)
ExitZeroIsSuccess ==
    \A c \in Clients : IsPrompt(c) /\ client[c] = "exit 0" => ended[c] = "complete"
=============================================================================
