------------------------------ MODULE AgentTurn ------------------------------
(***************************************************************************)
(* Agent::turn (anvil-agent/src/agent.rs): one user prompt, then rounds of *)
(* request, reply and tool calls until the model answers without calling a *)
(* tool, the turn is cancelled, or an operation fails.  A step ends where  *)
(* the code awaits, so that a cancellation, a decision of the user, a read *)
(* tool finishing or a crash can come between any two steps.               *)
(*                                                                         *)
(* The message list, its log and their recovery are those of SessionLog,   *)
(* whose actions the steps below are built from.                           *)
(***************************************************************************)
EXTENDS Naturals, Sequences, FiniteSets

CONSTANTS
    Tools,         \* tool names, built-in and MCP
    ReadOnly,      \* PermissionHandler::is_read_only, never an MCP tool
    Models,        \* model names
    Base,          \* the model of the settings
    NoModel,       \* no route, nothing to restore
    Route,         \* ModelRouter::model_for_tool
    NoCall,        \* no call waits for the user
    Approver,      \* who holds the other end of permission_rx in each turn
    SystemPrompt, ContextNote, Summary, KeepRecent,   \* of SessionLog
    MaxTurns,      \* bound: prompts
    MaxRounds,     \* bound: replies with tool calls in one turn
    MaxCalls,      \* bound: tool calls in one reply
    MaxCrashes,    \* bound: crashes
    MaxFaults      \* bound: failed SQLite statements

ASSUME TurnConstants ==
    /\ ReadOnly \subseteq Tools
    /\ Base \in Models
    /\ NoModel \notin Models
    /\ Route \in [Tools -> Models \cup {NoModel}]
    /\ Approver \in [1 .. MaxTurns -> {"user", "auto", "closed", "silent"}]
    /\ MaxTurns \in Nat /\ MaxRounds \in Nat /\ MaxCalls \in Nat
    /\ MaxCrashes \in Nat /\ MaxFaults \in Nat

(* Names in the order of a reply; a call is known by its turn, its round   *)
(* and its place in the reply.                                             *)
ToolNames == UNION {[1 .. n -> Tools] : n \in 0 .. MaxCalls}

Call == [turn : 1 .. MaxTurns, round : 1 .. MaxRounds,
         index : 1 .. MaxCalls, tool : Tools]

UserMessage == [role : {"user"}, turn : 1 .. MaxTurns]
AssistantMessage == [role : {"assistant"}, turn : 1 .. MaxTurns,
                     round : 1 .. MaxRounds + 1, tools : ToolNames]
ToolMessage == [role : {"tool"}, call : Call, result : {"ran", "denied"}]

TurnMessage == UserMessage \cup AssistantMessage \cup ToolMessage

Decisions == {"Allow", "AllowAlways", "Deny"}

(* What SessionLog assumes of its constants.                               *)
ASSUME MessageConstants ==
    /\ {SystemPrompt, ContextNote, Summary} \cap TurnMessage = {}
    /\ SystemPrompt # ContextNote /\ Summary # ContextNote
    /\ KeepRecent \in Nat

VARIABLES
    up, messages, turn_messages, stored, conversation, cause,
    pc,        \* where the turn stands; "idle" outside a turn
    turn,      \* prompts so far
    round,     \* replies asked for in this turn
    outcome,   \* how the last turn ended
    reads,     \* read-only calls of the reply without a recorded result
    running,   \* read-only calls being executed by spawned tasks
    writes,    \* other calls of the reply without a recorded result
    last_tool_names,
    model,     \* the client's model
    original,  \* original_model, a local of the loop body
    always,    \* tools granted for the session
    asked,     \* the call the user is being asked about
    perms,     \* the permission channel
    cancel,    \* the turn's cancellation token
    begun,     \* history: the model when the turn began
    given,     \* history: every decision the user has taken
    executed,  \* history: calls that have run
    late,      \* history: mutating calls begun after the cancellation
    crashes, faults

logVars == <<up, messages, turn_messages, stored, conversation, cause>>
callVars == <<reads, running, writes>>
modelVars == <<model, original, last_tool_names, begun>>
permVars == <<always, asked, perms, given>>
histVars == <<executed, late>>
vars == <<logVars, pc, turn, round, outcome, callVars, modelVars, permVars,
          cancel, histVars, crashes, faults>>

Log == INSTANCE SessionLog WITH Message <- TurnMessage, Legacy <- {}

Locations == {"idle", "top", "compact", "request", "reads", "collect",
              "mutate", "wait", "exec", "record", "deny"}

-----------------------------------------------------------------------------
First(calls) == CHOOSE c \in calls : \A d \in calls : c.index <= d.index

CallsOf(tools) ==
    {[turn |-> turn, round |-> round, index |-> i, tool |-> tools[i]] :
        i \in DOMAIN tools}

Assistant(tools) ==
    [role |-> "assistant", turn |-> turn, round |-> round, tools |-> tools]

Result(c, r) == [role |-> "tool", call |-> c, result |-> r]

Fault == faults < MaxFaults /\ faults' = faults + 1

(* Mutant of Pushed: record_last_message is not called after the push.     *)
PushedUnrecorded(list, m) ==
    /\ Log!Extend(list, m)
    /\ Log!save_message(m)
    /\ UNCHANGED <<up, turn_messages, cause, faults>>

(* Push, record and save; a failed append is only logged, a failed save    *)
(* makes the turn return an error (see SaveFails).                         *)
Pushed(list, m) ==
    \/ Log!Push(list, m) /\ UNCHANGED faults
    \/ Fault /\ Log!PushUnlogged(list, m) /\ Log!save_message(m)

(* save_message fails in its INSERT or in the UPDATE after it, alone or    *)
(* together with the append.                                               *)
SaveFails(list, m) ==
    /\ Fault
    /\ \/ Log!PushUnsaved(list, m)
       \/ Log!Push(list, m)
       \/ Log!PushUnlogged(list, m)

(* The turn returns; its locals and its permission channel are dropped.    *)
EndTurn(how) ==
    /\ pc' = "idle"
    /\ outcome' = how
    /\ reads' = {} /\ writes' = {}
    /\ original' = NoModel
    /\ asked' = NoCall /\ perms' = <<>>

Goto(l) == pc' = l /\ UNCHANGED outcome

Init ==
    /\ Log!Init
    /\ pc = "idle" /\ turn = 0 /\ round = 1 /\ outcome = "none"
    /\ reads = {} /\ running = {} /\ writes = {}
    /\ last_tool_names = <<>>
    /\ model = Base /\ original = NoModel /\ begun = Base
    /\ always = {} /\ asked = NoCall /\ perms = <<>> /\ given = {}
    /\ cancel = FALSE
    /\ executed = {} /\ late = 0
    /\ crashes = 0 /\ faults = 0

-----------------------------------------------------------------------------
(* A prompt: a new token and a new permission channel, the context message *)
(* if the prompt names known files, and the user message.                  *)
NewTurn ==
    /\ up /\ pc = "idle"
    /\ turn < MaxTurns
    /\ turn' = turn + 1
    /\ round' = 1
    /\ last_tool_names' = <<>>
    /\ cancel' = FALSE
    /\ begun' = model
    /\ late' = 0
    /\ UNCHANGED <<running, model, always, given, executed, crashes>>

Prompt(list) ==
    /\ NewTurn
    /\ Pushed(list, [role |-> "user", turn |-> turn + 1])
    /\ pc' = "top"
    /\ outcome' = "none"
    /\ UNCHANGED <<reads, writes, original, asked, perms>>

PromptFails(list) ==
    /\ NewTurn
    /\ SaveFails(list, [role |-> "user", turn |-> turn + 1])
    /\ EndTurn("error")

(* The top of the loop: the cancellation check comes before the routing.   *)
TopCancelled ==
    /\ pc = "top" /\ cancel
    /\ EndTurn("cancelled")
    /\ UNCHANGED <<logVars, turn, round, running, model, last_tool_names, begun,
                   always, given, cancel, histVars, crashes, faults>>

(* The first called tool that has a route, in the order of the reply.      *)
Routed(names) ==
    LET hits == {i \in DOMAIN names : Route[names[i]] # NoModel}
    IN  IF hits = {} THEN NoModel
        ELSE Route[names[CHOOSE i \in hits : \A j \in hits : i <= j]]

(* Mutant of RouteModel: a tool without a route unsets the model.          *)
RouteUnchecked(over) ==
    /\ pc = "top" /\ ~cancel
    /\ model' = IF last_tool_names = <<>> THEN model ELSE Routed(last_tool_names)
    /\ original' = IF model' = model THEN NoModel ELSE model
    /\ last_tool_names' = <<>>
    /\ Goto(IF over THEN "compact" ELSE "request")
    /\ UNCHANGED <<logVars, turn, round, callVars, begun, permVars, cancel,
                   histVars, crashes, faults>>

(* Routing, then the context check: over says whether the estimate reaches *)
(* the auto-compaction threshold.                                          *)
RouteModel(over) ==
    /\ pc = "top" /\ ~cancel
    /\ LET target == Routed(last_tool_names)
       IN  IF target \in Models \ {model}
           THEN model' = target /\ original' = model
           ELSE original' = NoModel /\ UNCHANGED model
    /\ last_tool_names' = <<>>
    /\ Goto(IF over THEN "compact" ELSE "request")
    /\ UNCHANGED <<logVars, turn, round, callVars, begun, permVars, cancel,
                   histVars, crashes, faults>>

(* compact: the list is replaced unless there is too little to compact,    *)
(* the token fires, or the summary comes back empty.                       *)
Compacted ==
    /\ pc = "compact" /\ ~cancel
    /\ Log!Compact
    /\ Goto("request")
    /\ UNCHANGED <<turn, round, callVars, modelVars, permVars, cancel,
                   histVars, crashes, faults>>

(* The /compact command, between two turns.                                *)
CompactCommand ==
    /\ pc = "idle"
    /\ Log!Compact
    /\ UNCHANGED <<pc, turn, round, outcome, callVars, modelVars, permVars,
                   cancel, histVars, crashes, faults>>

NotCompacted ==
    /\ pc = "compact"
    /\ Goto("request")
    /\ UNCHANGED <<logVars, turn, round, callVars, modelVars, permVars, cancel,
                   histVars, crashes, faults>>

(* The request of a compaction or of the round itself fails for good: the  *)
(* `?` leaves the turn with the routed model still set.                    *)
RequestFails ==
    /\ \/ pc = "compact" /\ Log!Compactable
       \/ pc = "request"
    /\ EndTurn("error")
    /\ UNCHANGED <<logVars, turn, round, running, model, last_tool_names, begun,
                   always, given, cancel, histVars, crashes, faults>>

-----------------------------------------------------------------------------
(* Mutant of Replied: a cancelled reply returns before the model is put    *)
(* back.                                                                   *)
RepliedUnrestored(tools) ==
    /\ up /\ pc = "request"
    /\ tools # <<>> => round <= MaxRounds
    /\ model' = IF original = NoModel \/ cancel THEN model ELSE original
    /\ UNCHANGED <<turn, round, running, begun, always, given, cancel,
                   histVars, crashes>>

(* A reply has been streamed.  The routed model is put back, the assistant *)
(* message is saved, then pushed and recorded.                             *)
Replied(tools) ==
    /\ up /\ pc = "request"
    /\ tools # <<>> => round <= MaxRounds
    /\ model' = IF original = NoModel THEN model ELSE original
    /\ UNCHANGED <<turn, round, running, begun, always, given, cancel,
                   histVars, crashes>>

(* Stream error or cancellation: whatever arrived is kept, the calls in it *)
(* are never answered.                                                     *)
ReplyInterrupted(tools, broken) ==
    /\ Replied(tools)
    /\ broken \/ cancel
    /\ Pushed(messages, Assistant(tools))
    /\ EndTurn("cancelled")
    /\ UNCHANGED last_tool_names

ReplyText ==
    /\ Replied(<<>>)
    /\ ~cancel
    /\ Pushed(messages, Assistant(<<>>))
    /\ EndTurn("complete")
    /\ UNCHANGED last_tool_names

(* Mutant of ReplyCalls: read-only calls are not taken out of the list of  *)
(* the calls that run one after another.                                   *)
ReplyCallsTwice(tools) ==
    /\ Replied(tools)
    /\ tools # <<>>
    /\ ~cancel
    /\ Pushed(messages, Assistant(tools))
    /\ last_tool_names' = tools
    /\ reads' = {c \in CallsOf(tools) : c.tool \in ReadOnly}
    /\ writes' = CallsOf(tools)
    /\ Goto("reads")
    /\ original' = NoModel
    /\ UNCHANGED <<asked, perms>>

ReplyCalls(tools) ==
    /\ Replied(tools)
    /\ tools # <<>>
    /\ ~cancel
    /\ Pushed(messages, Assistant(tools))
    /\ last_tool_names' = tools
    /\ reads' = {c \in CallsOf(tools) : c.tool \in ReadOnly}
    /\ writes' = {c \in CallsOf(tools) : c.tool \notin ReadOnly}
    /\ Goto("reads")
    /\ original' = NoModel
    /\ UNCHANGED <<asked, perms>>

ReplyFails(tools) ==
    /\ Replied(tools)
    /\ Fault
    /\ EndTurn("error")
    /\ UNCHANGED logVars \/ Log!SaveUnpushed(Assistant(tools))
    /\ UNCHANGED last_tool_names

-----------------------------------------------------------------------------
(* Read-only calls run in parallel, unless the token has fired by now.     *)
StartReads ==
    /\ pc = "reads"
    /\ IF reads # {} /\ ~cancel
       THEN running' = running \cup reads /\ Goto("collect") /\ UNCHANGED reads
       ELSE reads' = {} /\ Goto("mutate") /\ UNCHANGED running
    /\ UNCHANGED <<logVars, turn, round, writes, modelVars, permVars, cancel,
                   histVars, crashes, faults>>

(* A spawned task finishes; it outlives a turn that returned early.        *)
FinishRead(c) ==
    /\ c \in running
    /\ running' = running \ {c}
    /\ executed' = executed \cup {c}
    /\ UNCHANGED <<logVars, pc, turn, round, outcome, reads, writes, modelVars,
                   permVars, cancel, late, crashes, faults>>

CollectRead ==
    /\ pc = "collect"
    /\ First(reads) \notin running
    /\ Pushed(messages, Result(First(reads), "ran"))
    /\ reads' = reads \ {First(reads)}
    /\ Goto(IF reads' = {} THEN "mutate" ELSE "collect")
    /\ UNCHANGED <<turn, round, running, writes, modelVars, permVars, cancel,
                   histVars, crashes>>

CollectFails ==
    /\ pc = "collect"
    /\ First(reads) \notin running
    /\ \/ Fault /\ UNCHANGED logVars
       \/ SaveFails(messages, Result(First(reads), "ran"))
    /\ EndTurn("error")
    /\ UNCHANGED <<turn, round, running, model, last_tool_names, begun,
                   always, given, cancel, histVars, crashes>>

-----------------------------------------------------------------------------
(* Mutant of EndRound: the loop ends with calls left unanswered.           *)
EndRoundEarly ==
    /\ pc = "mutate"
    /\ round' = round + 1
    /\ Goto("top")
    /\ UNCHANGED <<logVars, turn, callVars, modelVars, permVars, cancel,
                   histVars, crashes, faults>>

(* The other calls run one after another.                                  *)
EndRound ==
    /\ pc = "mutate" /\ writes = {}
    /\ round' = round + 1
    /\ Goto("top")
    /\ UNCHANGED <<logVars, turn, callVars, modelVars, permVars, cancel,
                   histVars, crashes, faults>>

CallCancelled ==
    /\ pc = "mutate" /\ writes # {} /\ cancel
    /\ EndTurn("cancelled")
    /\ UNCHANGED <<logVars, turn, round, running, model, last_tool_names, begun,
                   always, given, cancel, histVars, crashes, faults>>

(* Mutants of NextCall: the token is not checked between two calls; the    *)
(* permission event does not reach the user.                               *)
NextCallUnchecked ==
    /\ pc = "mutate" /\ writes # {}
    /\ IF First(writes).tool \in always
       THEN Goto("exec") /\ UNCHANGED asked
       ELSE Goto("wait") /\ asked' = First(writes)
    /\ UNCHANGED <<logVars, turn, round, callVars, modelVars, always, perms,
                   given, cancel, histVars, crashes, faults>>

NextCallUnasked ==
    /\ pc = "mutate" /\ writes # {} /\ ~cancel
    /\ Goto(IF First(writes).tool \in always THEN "exec" ELSE "wait")
    /\ UNCHANGED <<logVars, turn, round, callVars, modelVars, permVars, cancel,
                   histVars, crashes, faults>>

NextCall ==
    /\ pc = "mutate" /\ writes # {} /\ ~cancel
    /\ IF First(writes).tool \in always
       THEN Goto("exec") /\ UNCHANGED asked
       ELSE Goto("wait") /\ asked' = First(writes)
    /\ UNCHANGED <<logVars, turn, round, callVars, modelVars, always, perms,
                   given, cancel, histVars, crashes, faults>>

(* Mutant of Decided: any approval is granted for the session.             *)
DecidedForSession ==
    /\ pc = "wait" /\ perms # <<>>
    /\ LET d == Head(perms).decision
       IN  /\ always' = IF d = "Deny" THEN always ELSE always \cup {First(writes).tool}
           /\ Goto(IF d = "Deny" THEN "deny" ELSE "exec")
    /\ perms' = Tail(perms)
    /\ asked' = NoCall
    /\ UNCHANGED <<logVars, turn, round, callVars, modelVars, given, cancel,
                   histVars, crashes, faults>>

(* recv on the permission channel, which does not watch the token.         *)
Decided ==
    /\ pc = "wait" /\ perms # <<>>
    /\ LET d == Head(perms).decision
       IN  /\ always' = IF d = "AllowAlways" THEN always \cup {First(writes).tool}
                        ELSE always
           /\ Goto(IF d = "Deny" THEN "deny" ELSE "exec")
    /\ perms' = Tail(perms)
    /\ asked' = NoCall
    /\ UNCHANGED <<logVars, turn, round, callVars, modelVars, given, cancel,
                   histVars, crashes, faults>>

(* Mutant of ChannelClosed: no answer is taken for consent.                *)
ChannelClosedAllows ==
    /\ pc = "wait" /\ Approver[turn] = "closed"
    /\ Goto("exec")
    /\ asked' = NoCall
    /\ UNCHANGED <<logVars, turn, round, callVars, modelVars, always, perms,
                   given, cancel, histVars, crashes, faults>>

(* Every sender is gone and the channel is drained: recv returns None.     *)
ChannelClosed ==
    /\ pc = "wait" /\ Approver[turn] = "closed"
    /\ Goto("deny")
    /\ asked' = NoCall
    /\ UNCHANGED <<logVars, turn, round, callVars, modelVars, always, perms,
                   given, cancel, histVars, crashes, faults>>

(* The tool runs to its end; nothing interrupts it.                        *)
Execute ==
    /\ pc = "exec"
    /\ executed' = executed \cup {First(writes)}
    /\ late' = IF cancel THEN late + 1 ELSE late
    /\ Goto("record")
    /\ UNCHANGED <<logVars, turn, round, callVars, modelVars, permVars, cancel,
                   crashes, faults>>

(* Mutant of CallResult: a denied call reports a normal result.            *)
CallResultRan == Result(First(writes), "ran")

CallResult == Result(First(writes), IF pc = "record" THEN "ran" ELSE "denied")

RecordResult ==
    /\ pc \in {"record", "deny"}
    /\ Pushed(messages, CallResult)
    /\ writes' = writes \ {First(writes)}
    /\ Goto("mutate")
    /\ UNCHANGED <<turn, round, reads, running, modelVars, permVars, cancel,
                   histVars, crashes>>

(* Mutant of RecordFails: a token that fires while the tool runs makes the *)
(* turn return before the result is recorded.                              *)
RecordCancelled ==
    /\ pc \in {"record", "deny"}
    /\ \/ Fault /\ UNCHANGED logVars
       \/ SaveFails(messages, CallResult)
       \/ cancel /\ UNCHANGED <<logVars, faults>>
    /\ EndTurn("error")
    /\ UNCHANGED <<turn, round, running, model, last_tool_names, begun,
                   always, given, cancel, histVars, crashes>>

RecordFails ==
    /\ pc \in {"record", "deny"}
    /\ \/ Fault /\ UNCHANGED logVars
       \/ SaveFails(messages, CallResult)
    /\ EndTurn("error")
    /\ UNCHANGED <<turn, round, running, model, last_tool_names, begun,
                   always, given, cancel, histVars, crashes>>

-----------------------------------------------------------------------------
(* The user interface: the prompt for a pending call is answered once.     *)
Answer(d) ==
    /\ asked # NoCall /\ Approver[turn] = "user"
    /\ perms' = Append(perms, [call |-> asked, decision |-> d])
    /\ given' = given \cup {[call |-> asked, decision |-> d]}
    /\ asked' = NoCall
    /\ UNCHANGED <<logVars, pc, turn, round, outcome, callVars, modelVars,
                   always, cancel, histVars, crashes, faults>>

(* An auto-approver keeps the one-place channel filled with Allow.         *)
AutoAllow ==
    /\ pc # "idle" /\ Approver[turn] = "auto"
    /\ perms = <<>>
    /\ perms' = <<[call |-> NoCall, decision |-> "Allow"]>>
    /\ UNCHANGED <<logVars, pc, turn, round, outcome, callVars, modelVars,
                   always, asked, given, cancel, histVars, crashes, faults>>

Cancel ==
    /\ pc # "idle" /\ ~cancel
    /\ cancel' = TRUE
    /\ UNCHANGED <<logVars, pc, turn, round, outcome, callVars, modelVars,
                   permVars, histVars, crashes, faults>>

(* The process dies; only the database survives.  (Death between the save   *)
(* and the push of a reply leaves what ReplyFails and then Crash leave.)   *)
ProcessDies ==
    /\ crashes < MaxCrashes
    /\ crashes' = crashes + 1
    /\ EndTurn("none")
    /\ running' = {}
    /\ last_tool_names' = <<>>
    /\ model' = Base /\ begun' = Base
    /\ always' = {}
    /\ cancel' = FALSE
    /\ UNCHANGED <<turn, round, given, histVars, faults>>

Crash == Log!Crash /\ ProcessDies

Resume ==
    /\ Log!Resume
    /\ UNCHANGED <<pc, turn, round, outcome, callVars, modelVars, permVars,
                   cancel, histVars, crashes, faults>>

(* The bound on prompts: the user types no more.                           *)
NoMorePrompts ==
    /\ up /\ pc = "idle"
    /\ turn = MaxTurns
    /\ UNCHANGED vars

-----------------------------------------------------------------------------
TurnStep ==
    \/ TopCancelled
    \/ \E over \in BOOLEAN : RouteModel(over)
    \/ Compacted
    \/ NotCompacted
    \/ RequestFails
    \/ \E tools \in ToolNames, broken \in BOOLEAN : ReplyInterrupted(tools, broken)
    \/ ReplyText
    \/ \E tools \in ToolNames : ReplyCalls(tools)
    \/ \E tools \in ToolNames : ReplyFails(tools)
    \/ StartReads
    \/ CollectRead
    \/ CollectFails
    \/ EndRound
    \/ CallCancelled
    \/ NextCall
    \/ Decided
    \/ Execute
    \/ RecordResult
    \/ RecordFails

AgentStep == TurnStep \/ ChannelClosed

UserStep == \E d \in Decisions : Answer(d)

ReadStep == \E c \in running : FinishRead(c)

(* The steps of turns whose questions go to a user, if to anybody.         *)
UserNext ==
    \/ \E list \in Log!Lists : Prompt(list)
    \/ \E list \in Log!Lists : PromptFails(list)
    \/ CompactCommand
    \/ TurnStep
    \/ UserStep
    \/ ReadStep
    \/ Cancel
    \/ Crash
    \/ Resume
    \/ NoMorePrompts

Next == UserNext \/ ChannelClosed \/ AutoAllow

Spec == Init /\ [][Next]_vars

(* The runtime polls a runnable turn and the user answers the prompt in    *)
(* front of him.  That a request ends or fails, that a spawned read        *)
(* finishes and that a tool returns is assumed: of what a turn awaits only *)
(* shell commands and the answers of tool servers have a timeout in the    *)
(* code, the POST of a request, git and a write to a server have none.     *)
Fairness == /\ WF_vars(AgentStep)
            /\ WF_vars(UserStep)
            /\ WF_vars(ReadStep)
            /\ WF_vars(AutoAllow)

FairSpec == Spec /\ Fairness

-----------------------------------------------------------------------------
Decision == [call : Call \cup {NoCall}, decision : Decisions]

(* Type correctness of the turn's own state, then of all of the state.     *)
TurnTypeOK ==
    /\ pc \in Locations
    /\ turn \in 0 .. MaxTurns
    /\ round \in 1 .. MaxRounds + 1
    /\ outcome \in {"none", "complete", "cancelled", "error"}
    /\ reads \subseteq Call /\ running \subseteq Call
    /\ writes \subseteq Call /\ executed \subseteq Call
    /\ last_tool_names \in ToolNames
    /\ model \in Models /\ begun \in Models
    /\ original \in Models \cup {NoModel}
    /\ always \subseteq Tools
    /\ asked \in Call \cup {NoCall}
    /\ perms \in Seq(Decision)
    /\ given \subseteq Decision
    /\ cancel \in BOOLEAN
    /\ late \in Nat
    /\ crashes \in 0 .. MaxCrashes
    /\ faults \in 0 .. MaxFaults

TypeOK == Log!TypeOK /\ TurnTypeOK

-----------------------------------------------------------------------------
(* A decision of the user that covers a call: it was given for this very   *)
(* call, or it granted the call's tool for the session.                    *)
Consented(c) ==
    \E g \in given : \/ g.call = c /\ g.decision # "Deny"
                     \/ g.call.tool = c.tool /\ g.decision = "AllowAlways"

(* No tool that is not read-only runs without consent, however decisions,  *)
(* cancellations, turns and crashes interleave: not in a turn that asks,   *)
(* nor in one with nobody left to answer.                                  *)
NoUnapprovedMutation ==
    \A c \in executed :
        c.tool \in ReadOnly \/ Approver[c.turn] = "auto" \/ Consented(c)

(* The inductive invariants behind type correctness and consent: where the *)
(* turn stands bounds its counters and says which lists are not empty; a   *)
(* question and its answer are about the call the turn stands at, and die  *)
(* with it.                                                                *)
Progress ==
    /\ pc # "idle" => turn # 0
    /\ pc \in {"reads", "collect", "mutate", "wait", "exec", "record", "deny"}
          => round <= MaxRounds
    /\ pc = "collect" => reads # {}
    /\ pc \in {"wait", "exec", "record", "deny"} => writes # {}

TurnInv == TurnTypeOK /\ Progress

ConsentInv ==
    /\ \A c \in reads \cup running : c.tool \in ReadOnly
    /\ \A c \in writes : c.turn = turn
    /\ pc = "idle" => asked = NoCall /\ perms = <<>> /\ writes = {}
    /\ \A t \in always : \E g \in given : g.call.tool = t
                                         /\ g.decision = "AllowAlways"
    /\ asked # NoCall /\ Approver[turn] = "user" =>
          pc = "wait" /\ asked = First(writes) /\ perms = <<>>
    /\ \/ perms = <<>>
       \/ Approver[turn] = "auto" /\ perms = <<[call |-> NoCall, decision |-> "Allow"]>>
       \/ /\ pc = "wait" /\ Approver[turn] = "user"
          /\ \E g \in given : perms = <<g>> /\ g.call = First(writes)
    /\ pc = "exec" => Approver[turn] = "auto" \/ Consented(First(writes))
    /\ NoUnapprovedMutation

(* The position of the reply that made the calls answered at position p.   *)
LastReply(p) ==
    CHOOSE a \in 1 .. p :
        /\ conversation[a].role # "tool"
        /\ \A q \in a + 1 .. p : conversation[q].role = "tool"

(* The calls of the reply at position a, in the order the turn answers     *)
(* them: the read-only ones, then the others.                              *)
Answerable(a) == {c \in Call : /\ c.turn = conversation[a].turn
                               /\ c.round = conversation[a].round
                               /\ c.index \in DOMAIN conversation[a].tools
                               /\ c.tool = conversation[a].tools[c.index]}

AnsweredBefore(c, d) ==
    \/ c.tool \in ReadOnly /\ d.tool \notin ReadOnly
    \/ (c.tool \in ReadOnly <=> d.tool \in ReadOnly) /\ c.index < d.index

(* Every tool result in the conversation answers a call of the reply it    *)
(* follows, with nothing but results in between, and no call is skipped or *)
(* answered twice - except that a cancellation between the reply and the   *)
(* reads skips all of these, which ends the turn (CompleteIsAnswered).     *)
ResultsFollowCalls ==
    \A p \in DOMAIN conversation : conversation[p].role = "tool" =>
        LET a == LastReply(p)
        IN  /\ conversation[a].role = "assistant"
            /\ conversation[p].call \in Answerable(a)
            /\ {conversation[q].call : q \in a + 1 .. p - 1} =
               {c \in Answerable(a) : AnsweredBefore(c, conversation[p].call)}

(* What a result says is what happened: "denied" is said of calls that did *)
(* not run, anything else of calls that did.                               *)
ResultsAreTrue ==
    \A p \in DOMAIN conversation : conversation[p].role = "tool" =>
        (conversation[p].result = "ran" <=> conversation[p].call \in executed)

Answered == {conversation[p].call :
                p \in {q \in DOMAIN conversation : conversation[q].role = "tool"}}

(* A turn that reports TurnComplete has answered every call of its replies.*)
CompleteIsAnswered ==
    outcome = "complete" =>
        \A a \in DOMAIN conversation :
            conversation[a].role = "assistant" /\ conversation[a].turn = turn
                => Answerable(a) \subseteq Answered

(* A mutating call that has run but has no result in the conversation is   *)
(* the one being recorded, or was lost to a crash or a database failure,   *)
(* one each at most: a resumed model may call it again.                    *)
EffectsAreRecorded ==
    Cardinality({c \in executed : c.tool \notin ReadOnly} \ Answered)
        <= crashes + faults + (IF pc = "record" THEN 1 ELSE 0)

(* After the token has fired, at most the call already being decided runs. *)
OneLateCall == late <= 1

(* A turn that completes or is cancelled leaves the model as it found it.  *)
ModelRestored ==
    pc = "idle" /\ outcome \in {"complete", "cancelled"} => model = begun

(* Every step on the list and the log is a step SessionLog allows, so the  *)
(* properties proved of SessionLog hold of a session of turns.             *)
LogSpec == Log!Spec

(* A cancelled turn ends, wherever the token finds it.                     *)
CancelEndsTurn == (up /\ cancel) ~> (pc = "idle")

-----------------------------------------------------------------------------
(* What agent.rs says of routing: the switch is for one request.           *)
RoutingIsTemporary == pc = "idle" => model = begun

(* What daemon.rs says of a client that does not auto-approve: the channel *)
(* is closed, so the turn is never left waiting for a decision.            *)
UnansweredIsDenied == pc = "wait" ~> pc # "wait"
=============================================================================
