-------------------------------- MODULE Mcp ---------------------------------
(***************************************************************************)
(* The MCP manager (anvil-mcp/src/manager.rs): it spawns tool servers,     *)
(* talks JSON-RPC with them over their standard input and output, restarts *)
(* them and kills them when it is dropped.                                 *)
(*                                                                         *)
(* A lock is held for the whole of an operation, so that there is one at a *)
(* time, op: its request is written, which takes as long as the server     *)
(* takes to read, and then its answer read, for 30 seconds at most.  A     *)
(* message is its request id, or Note for a notification the server sends  *)
(* on its own.  Process ids are the system's: once a child is reaped, its  *)
(* id may be given to a process of somebody else.                          *)
(***************************************************************************)
EXTENDS Naturals, Sequences, FiniteSets

CONSTANTS
    Servers,     \* configured servers
    Pids,        \* process ids
    NoPid, NoOp, Note,
    MaxCalls,    \* bound: tool calls
    MaxNotes,    \* bound: notifications of the servers
    MaxSpawns    \* bound: processes spawned

McpConstants ==
    /\ {MaxCalls, MaxNotes, MaxSpawns} \subseteq Nat
    /\ NoPid \notin Pids /\ Note \notin Nat
    /\ NoOp \notin [kind : {"new", "restart", "call"}, server : Servers, pid : Pids,
                    id : Nat, sent : BOOLEAN]

VARIABLES
    op,        \* the operation in progress, its last request and if that is sent
    todo,      \* servers McpManager::new has not tried yet
    conns,     \* connections: the child of a connected server
    nextId,    \* next_id of its connection
    hasTools,  \* its tools are known
    child_pids,\* the registry for Drop
    dropped,
    proc,      \* a process id: "free", "server", "zombie" or "other"
    inbox,     \* requests a server has not answered
    pipe,      \* what it has written and nobody has read
    calls, notes, spawns,
    results,   \* history: <<asked, answer, cause by then>> of the calls that returned
    cause,     \* history: why lines and requests of a process are out of step
    strays,    \* history: children whose connection failed
    victims,   \* history: processes of others that were killed
    stale      \* history: shutdown has left the registry as it was

procVars == <<proc, inbox, pipe>>
bounds == <<calls, notes, spawns>>
histVars == <<results, cause, strays, victims, stale>>
vars == <<op, todo, conns, nextId, hasTools, child_pids, dropped, procVars, bounds,
          histVars>>

Idle == op = NoOp /\ todo = {} /\ ~dropped
Connecting == op # NoOp /\ op.kind # "call"

(* A request is being written to a server that lives.                      *)
Writing == op # NoOp /\ ~op.sent /\ proc[op.pid] = "server"

Init ==
    /\ op = NoOp /\ todo = Servers
    /\ conns = [s \in Servers |-> NoPid]
    /\ nextId = [s \in Servers |-> 2] /\ hasTools = [s \in Servers |-> FALSE]
    /\ child_pids = {} /\ dropped = FALSE
    /\ proc = [p \in Pids |-> "free"]
    /\ inbox = [p \in Pids |-> <<>>] /\ pipe = [p \in Pids |-> <<>>]
    /\ calls = 0 /\ notes = 0 /\ spawns = 0
    /\ results = {} /\ cause = [p \in Pids |-> {}]
    /\ strays = {} /\ victims = {} /\ stale = FALSE

-----------------------------------------------------------------------------
(* connect: a child is spawned, to be sent initialize (id 0).              *)
Spawn(kind, s, p) ==
    /\ proc[p] = "free" /\ spawns < MaxSpawns
    /\ spawns' = spawns + 1
    /\ proc' = [proc EXCEPT ![p] = "server"]
    /\ inbox' = [inbox EXCEPT ![p] = <<>>]
    /\ pipe' = [pipe EXCEPT ![p] = <<>>]
    /\ cause' = [cause EXCEPT ![p] = {}]
    /\ strays' = strays \ {p}
    /\ op' = [kind |-> kind, server |-> s, pid |-> p, id |-> 0, sent |-> FALSE]

NewConnects(s, p) ==
    /\ s \in todo /\ op = NoOp /\ ~dropped
    /\ todo' = todo \ {s}
    /\ Spawn("new", s, p)
    /\ UNCHANGED <<conns, nextId, hasTools, child_pids, dropped, calls, notes, results,
                   victims, stale>>

(* The command cannot be spawned: the server is skipped.                   *)
NewSkips(s) ==
    /\ s \in todo /\ op = NoOp /\ ~dropped
    /\ todo' = todo \ {s}
    /\ UNCHANGED <<op, conns, nextId, hasTools, child_pids, dropped, procVars, bounds,
                   histVars>>

(* write_all and flush have returned.  No timeout is around them: a server *)
(* that does not read, once its pipe is full, keeps them waiting.          *)
Write ==
    /\ Writing
    /\ inbox' = [inbox EXCEPT ![op.pid] = Append(@, op.id)]
    /\ op' = [op EXCEPT !.sent = TRUE]
    /\ UNCHANGED <<todo, conns, nextId, hasTools, child_pids, dropped, proc, pipe, bounds,
                   histVars>>

(* send_request reads one line.  Its reader is made for the request and    *)
(* dropped after it, with the lines it may have read beyond that one.      *)
ReadLine(p, line) ==
    /\ pipe[p] # <<>> /\ line = Head(pipe[p])
    /\ \E n \in 1 .. Len(pipe[p]) :
         /\ pipe' = [pipe EXCEPT ![p] = SubSeq(@, n + 1, Len(@))]
         /\ cause' = [cause EXCEPT ![p] = IF n > 1 THEN @ \cup {"discarded"} ELSE @]

(* Mutant of Initialized: the answer to initialize is not waited for.      *)
InitializedUnread ==
    /\ Connecting /\ op.sent /\ op.id = 0
    /\ op' = [op EXCEPT !.id = 1, !.sent = FALSE]
    /\ UNCHANGED <<todo, conns, nextId, hasTools, child_pids, dropped, procVars, bounds,
                   histVars>>

(* Whatever line comes is the answer to initialize; a notification, which  *)
(* is not answered, and tools/list (id 1) are to be written next.          *)
Initialized ==
    /\ Connecting /\ op.sent /\ op.id = 0
    /\ ReadLine(op.pid, Head(pipe[op.pid]))
    /\ op' = [op EXCEPT !.id = 1, !.sent = FALSE]
    /\ UNCHANGED <<todo, conns, nextId, hasTools, child_pids, dropped, proc, inbox, bounds,
                   results, strays, victims, stale>>

(* Mutants of Connected: the list of tools is not waited for; a restarted  *)
(* child is not registered.                                                *)
ConnectedUnread(line) ==
    /\ Connecting /\ op.sent /\ op.id = 1
    /\ conns' = [conns EXCEPT ![op.server] = op.pid]
    /\ nextId' = [nextId EXCEPT ![op.server] = 2]
    /\ hasTools' = [hasTools EXCEPT ![op.server] = TRUE]
    /\ child_pids' = child_pids \cup {op.pid}
    /\ op' = NoOp
    /\ UNCHANGED <<todo, dropped, procVars, bounds, histVars>>

ConnectedUnregistered(line) ==
    /\ Connecting /\ op.sent /\ op.id = 1
    /\ ReadLine(op.pid, line)
    /\ conns' = [conns EXCEPT ![op.server] = op.pid]
    /\ nextId' = [nextId EXCEPT ![op.server] = 2]
    /\ hasTools' = [hasTools EXCEPT ![op.server] = line = 1]
    /\ child_pids' = IF op.kind = "new" THEN child_pids \cup {op.pid} ELSE child_pids
    /\ op' = NoOp
    /\ UNCHANGED <<todo, dropped, proc, inbox, bounds, results, strays, victims, stale>>

(* The line is taken for the list of tools: anything else is no tools.     *)
Connected(line) ==
    /\ Connecting /\ op.sent /\ op.id = 1
    /\ ReadLine(op.pid, line)
    /\ conns' = [conns EXCEPT ![op.server] = op.pid]
    /\ nextId' = [nextId EXCEPT ![op.server] = 2]
    /\ hasTools' = [hasTools EXCEPT ![op.server] = line = 1]
    /\ child_pids' = child_pids \cup {op.pid}
    /\ op' = NoOp
    /\ UNCHANGED <<todo, dropped, proc, inbox, bounds, results, strays, victims, stale>>

(* Nobody is left to write to, or no line came in time: the child is       *)
(* dropped and, if it lives, lives on.  A server that was to be restarted  *)
(* is forgotten.                                                           *)
ConnectFails ==
    /\ Connecting
    /\ IF op.sent THEN pipe[op.pid] = <<>> ELSE proc[op.pid] # "server"
    /\ strays' = strays \cup {op.pid}
    /\ op' = NoOp
    /\ UNCHANGED <<todo, conns, nextId, hasTools, child_pids, dropped, procVars, bounds,
                   results, cause, victims, stale>>

-----------------------------------------------------------------------------
(* call_tool: a request with the next id is to be written.                 *)
CallTool(s) ==
    /\ Idle /\ conns[s] # NoPid /\ calls < MaxCalls
    /\ calls' = calls + 1
    /\ nextId' = [nextId EXCEPT ![s] = @ + 1]
    /\ op' = [kind |-> "call", server |-> s, pid |-> conns[s], id |-> nextId[s],
              sent |-> FALSE]
    /\ UNCHANGED <<todo, conns, hasTools, child_pids, dropped, procVars, notes, spawns,
                   histVars>>

Answered(line) ==
    /\ op # NoOp /\ op.kind = "call" /\ op.sent
    /\ ReadLine(op.pid, line)
    /\ results' = results \cup {<<op.id, line, cause[op.pid]>>}
    /\ op' = NoOp
    /\ UNCHANGED <<todo, conns, nextId, hasTools, child_pids, dropped, proc, inbox, bounds,
                   strays, victims, stale>>

(* Mutant of Timeout: there is none.                                       *)
TimeoutNever == op # NoOp /\ dropped /\ UNCHANGED vars

(* 30 seconds without a line; an answer may still come.                    *)
Timeout ==
    /\ op # NoOp /\ op.kind = "call" /\ op.sent
    /\ pipe[op.pid] = <<>> /\ proc[op.pid] = "server"
    /\ cause' = [cause EXCEPT ![op.pid] = @ \cup {"timeout"}]
    /\ op' = NoOp
    /\ UNCHANGED <<todo, conns, nextId, hasTools, child_pids, dropped, procVars, bounds,
                   results, strays, victims, stale>>

(* The server has gone: nothing can be written, or nothing more be read.   *)
EndOfOutput ==
    /\ op # NoOp /\ op.kind = "call" /\ proc[op.pid] # "server"
    /\ op.sent => pipe[op.pid] = <<>>
    /\ op' = NoOp
    /\ UNCHANGED <<todo, conns, nextId, hasTools, child_pids, dropped, procVars, bounds,
                   histVars>>

(* Mutants of Restart and RestartSkips: the old child stays registered.    *)
RestartRegistered(s, p) ==
    /\ Idle /\ conns[s] # NoPid
    /\ conns' = [conns EXCEPT ![s] = NoPid]
    /\ p # conns[s] /\ proc[p] = "free" /\ spawns < MaxSpawns
    /\ spawns' = spawns + 1
    /\ proc' = [proc EXCEPT ![conns[s]] = "free", ![p] = "server"]
    /\ inbox' = [inbox EXCEPT ![p] = <<>>] /\ pipe' = [pipe EXCEPT ![p] = <<>>]
    /\ cause' = [cause EXCEPT ![p] = {}]
    /\ strays' = strays \ {p}
    /\ op' = [kind |-> "restart", server |-> s, pid |-> p, id |-> 0, sent |-> FALSE]
    /\ UNCHANGED <<todo, nextId, hasTools, child_pids, dropped, calls, notes, results,
                   victims, stale>>

RestartSkipsRegistered(s) ==
    /\ Idle /\ conns[s] # NoPid
    /\ conns' = [conns EXCEPT ![s] = NoPid]
    /\ proc' = [proc EXCEPT ![conns[s]] = "free"]
    /\ UNCHANGED <<op, todo, nextId, hasTools, child_pids, dropped, inbox, pipe, bounds,
                   histVars>>

(* /mcp restart: the old child is unregistered, killed and waited for, and *)
(* its entry removed before the new one is tried.                          *)
Restart(s, p) ==
    /\ Idle /\ conns[s] # NoPid
    /\ child_pids' = child_pids \ {conns[s]}
    /\ conns' = [conns EXCEPT ![s] = NoPid]
    /\ p # conns[s] /\ proc[p] = "free" /\ spawns < MaxSpawns
    /\ spawns' = spawns + 1
    /\ proc' = [proc EXCEPT ![conns[s]] = "free", ![p] = "server"]
    /\ inbox' = [inbox EXCEPT ![p] = <<>>] /\ pipe' = [pipe EXCEPT ![p] = <<>>]
    /\ cause' = [cause EXCEPT ![p] = {}]
    /\ strays' = strays \ {p}
    /\ op' = [kind |-> "restart", server |-> s, pid |-> p, id |-> 0, sent |-> FALSE]
    /\ UNCHANGED <<todo, nextId, hasTools, dropped, calls, notes, results, victims, stale>>

(* The same with a command that cannot be spawned any more.                *)
RestartSkips(s) ==
    /\ Idle /\ conns[s] # NoPid
    /\ child_pids' = child_pids \ {conns[s]}
    /\ conns' = [conns EXCEPT ![s] = NoPid]
    /\ proc' = [proc EXCEPT ![conns[s]] = "free"]
    /\ UNCHANGED <<op, todo, nextId, hasTools, dropped, inbox, pipe, bounds, histVars>>

(* /mcp shutdown: the children are killed and waited for, the registry is  *)
(* left as it is.                                                          *)
Shutdown ==
    /\ Idle /\ \E s \in Servers : conns[s] # NoPid
    /\ conns' = [s \in Servers |-> NoPid]
    /\ proc' = [p \in Pids |-> IF \E s \in Servers : conns[s] = p THEN "free" ELSE proc[p]]
    /\ stale' = TRUE
    /\ UNCHANGED <<op, todo, nextId, hasTools, child_pids, dropped, inbox, pipe, bounds,
                   results, cause, strays, victims>>

(* The manager, once new has made it, is dropped, at the end of the        *)
(* program or in the unwinding of a panic in the middle of an operation:   *)
(* every registered id is killed.                                          *)
Drop ==
    /\ ~dropped /\ todo = {} /\ (op # NoOp => op.kind # "new")
    /\ dropped' = TRUE
    /\ strays' = IF Connecting THEN strays \cup {op.pid} ELSE strays
    /\ op' = NoOp /\ conns' = [s \in Servers |-> NoPid]
    /\ victims' = {p \in child_pids : proc[p] = "other"}
    /\ proc' = [p \in Pids |-> IF p \in child_pids /\ proc[p] # "other" THEN "free"
                               ELSE proc[p]]
    /\ UNCHANGED <<todo, nextId, hasTools, child_pids, inbox, pipe, bounds, results, cause,
                   stale>>

-----------------------------------------------------------------------------
(* The servers and the system.                                             *)
Serve(p) ==
    /\ proc[p] = "server" /\ inbox[p] # <<>>
    /\ pipe' = [pipe EXCEPT ![p] = Append(@, Head(inbox[p]))]
    /\ inbox' = [inbox EXCEPT ![p] = Tail(@)]
    /\ UNCHANGED <<op, todo, conns, nextId, hasTools, child_pids, dropped, proc, bounds,
                   histVars>>

Notify(p) ==
    /\ proc[p] = "server" /\ notes < MaxNotes
    /\ notes' = notes + 1
    /\ pipe' = [pipe EXCEPT ![p] = Append(@, Note)]
    /\ cause' = [cause EXCEPT ![p] = @ \cup {"notification"}]
    /\ UNCHANGED <<op, todo, conns, nextId, hasTools, child_pids, dropped, proc, inbox,
                   calls, spawns, results, strays, victims, stale>>

(* A child that dies keeps its id until it is waited for; one that nobody  *)
(* holds is reaped by the runtime.                                         *)
ServerDies(p) ==
    /\ proc[p] = "server"
    /\ proc' = [proc EXCEPT ![p] = IF p \in strays THEN "free" ELSE "zombie"]
    /\ UNCHANGED <<op, todo, conns, nextId, hasTools, child_pids, dropped, inbox, pipe,
                   bounds, histVars>>

Reap(p) ==
    /\ proc[p] = "zombie" /\ p \in strays
    /\ proc' = [proc EXCEPT ![p] = "free"]
    /\ UNCHANGED <<op, todo, conns, nextId, hasTools, child_pids, dropped, inbox, pipe,
                   bounds, histVars>>

IdGoesToOther(p) ==
    /\ proc[p] = "free" /\ ~dropped
    /\ proc' = [proc EXCEPT ![p] = "other"]
    /\ UNCHANGED <<op, todo, conns, nextId, hasTools, child_pids, dropped, inbox, pipe,
                   bounds, histVars>>

Over == dropped /\ UNCHANGED vars

-----------------------------------------------------------------------------
Lines == {Note} \cup 0 .. MaxCalls + 1

Next ==
    \/ \E s \in Servers, p \in Pids : NewConnects(s, p) \/ Restart(s, p)
    \/ \E s \in Servers : NewSkips(s) \/ CallTool(s) \/ RestartSkips(s)
    \/ Write \/ Initialized \/ ConnectFails
    \/ \E line \in Lines : Connected(line) \/ Answered(line)
    \/ Timeout \/ EndOfOutput \/ Shutdown \/ Drop
    \/ \E p \in Pids : Serve(p) \/ Notify(p) \/ ServerDies(p) \/ Reap(p)
                         \/ IdGoesToOther(p)
    \/ Over

Spec == Init /\ [][Next]_vars

(* A read ends: a server answers or the 30 seconds run out; so does a      *)
(* write that fails.  Nothing is owed by a server that is written to.      *)
Waits == Initialized \/ ConnectFails \/ Timeout \/ EndOfOutput
           \/ \E line \in Lines : Connected(line) \/ Answered(line)

Fairness == WF_vars(Waits)
FairSpec == Spec /\ Fairness

-----------------------------------------------------------------------------
Causes == {"timeout", "notification", "discarded"}

TypeOK ==
    /\ op \in [kind : {"new", "restart", "call"}, server : Servers, pid : Pids,
               id : Nat, sent : BOOLEAN] \cup {NoOp}
    /\ todo \subseteq Servers
    /\ conns \in [Servers -> Pids \cup {NoPid}]
    /\ nextId \in [Servers -> Nat] /\ hasTools \in [Servers -> BOOLEAN]
    /\ child_pids \subseteq Pids /\ {dropped, stale} \subseteq BOOLEAN
    /\ proc \in [Pids -> {"free", "server", "zombie", "other"}]
    /\ inbox \in [Pids -> Seq(Nat)] /\ pipe \in [Pids -> Seq(Nat \cup {Note})]
    /\ {calls, notes, spawns} \subseteq Nat
    /\ results \subseteq Nat \X (Nat \cup {Note}) \X SUBSET Causes
    /\ cause \in [Pids -> SUBSET Causes]
    /\ strays \subseteq Pids /\ victims \subseteq Pids

(* The ids of requests and answers are never compared, only the order of   *)
(* the lines ties them together: a call gets its own answer as long as no  *)
(* request of its server timed out and the server sent nothing unasked.    *)
ResultsMatch ==
    \A r \in results : r[3] = {} => r[1] = r[2]

(* The same holds for the list of tools a server is connected with.        *)
ToolsAreFound ==
    \A s \in Servers : conns[s] # NoPid /\ cause[conns[s]] = {} => hasTools[s]

(* A server's lines are taken for the answers they are.                    *)
AnswersMatch == ResultsMatch /\ ToolsAreFound

(* Dropping the manager leaves no server running but those whose           *)
(* connection had failed: these are in no registry.                        *)
DropKillsAll == dropped => \A p \in Pids : proc[p] = "server" => p \in strays

(* A kill hits nobody else's process, unless /mcp shutdown has left ids    *)
(* of reaped children in the registry.                                     *)
KillsAreOwn == victims # {} => stale

(* Two connections never share a child, and what Drop will kill are the    *)
(* children of the connections and nothing else.                           *)
RegistryIsConnections ==
    /\ \A s, t \in Servers : s # t /\ conns[s] # NoPid => conns[s] # conns[t]
    /\ ~dropped /\ ~stale => child_pids = {conns[s] : s \in Servers} \ {NoPid}

(* What is killed in the end is what was connected, and nothing else.      *)
CleanupIsExact == DropKillsAll /\ KillsAreOwn /\ RegistryIsConnections

(* An operation ends, whatever the server does, unless one of its writes   *)
(* waits for ever for a server that lives and does not read: only the      *)
(* answer is read with a timeout.                                          *)
OperationsEnd == []<>~Writing => (op # NoOp ~> op = NoOp)

(* The module's documentation: Drop kills all child processes.             *)
NoChildIsLeft == dropped => \A p \in Pids : proc[p] # "server"
=============================================================================
