--------------------------- MODULE AgentTurn_proof ---------------------------
(***************************************************************************)
(* Proofs about AgentTurn.  TurnInv is inductive (type correctness, and    *)
(* which lists are not empty where); with it every step on the list and    *)
(* the log is a step of SessionLog, so that the theorems about SessionLog  *)
(* hold of a session of turns; and ConsentInv is inductive, so that no     *)
(* mutating tool runs without the user's consent.                          *)
(*                                                                         *)
(* On top of these: LocalInv (the routed model, the token), CallsInv       *)
(* (where each call of a turn stands), EffectsInv (what ran and left no    *)
(* result) and OrderInv (the order of replies and results).                *)
(***************************************************************************)
EXTENDS AgentTurn, FiniteSetTheorems, WellFoundedInduction, TLAPS

(* The theorems about SessionLog, for the messages of a turn.              *)
LogThms == INSTANCE SessionLog_proof WITH Message <- TurnMessage, Legacy <- {}

-----------------------------------------------------------------------------
(* A list of calls that is not empty has a first one.                      *)
LEMMA FirstIsIn ==
    ASSUME NEW calls, calls \subseteq Call, calls # {}
    PROVE  First(calls) \in calls /\ \A d \in calls : First(calls).index <= d.index
<1> DEFINE places == {c.index : c \in calls}
           less == {ss \in Nat \X Nat : ss[1] < ss[2]}
<1>1. \A c \in Call : c.index \in Nat
  BY TurnConstants DEF Call
<1>2. places \subseteq Nat /\ places # {}
  BY <1>1
<1>3. IsWellFoundedOn(less, Nat)
  BY NatLessThanWellFounded, Zenon DEF OpToRel
<1>4. PICK i \in places : \A j \in places : <<j, i>> \notin less
  <2> HIDE DEF places, less
  <2> QED BY <1>2, <1>3, WFMin, Zenon
<1>5. \A j \in places : i <= j
  <2> SUFFICES ASSUME NEW j \in places PROVE i <= j
    OBVIOUS
  <2>1. i \in Nat /\ j \in Nat
    BY <1>2
  <2>2. ~(j < i)
    BY <1>4, <2>1
  <2> QED BY <2>1, <2>2
<1>6. \E c \in calls : \A d \in calls : c.index <= d.index
  BY <1>5
<1> QED BY <1>6 DEF First

LEMMA NoToolsIsReply == <<>> \in ToolNames
<1>1. <<>> \in [1 .. 0 -> Tools]
  OBVIOUS
<1> QED BY <1>1, TurnConstants DEF ToolNames

(* The calls of a reply are calls, provided turn and round are in bounds.  *)
LEMMA CallsAreCalls ==
    ASSUME TurnTypeOK, turn # 0, round <= MaxRounds, NEW tools \in ToolNames
    PROVE  CallsOf(tools) \subseteq Call
<1>1. PICK n \in 0 .. MaxCalls : tools \in [1 .. n -> Tools]
  BY DEF ToolNames
<1>2. \A i \in DOMAIN tools : i \in 1 .. MaxCalls /\ tools[i] \in Tools
  BY <1>1, TurnConstants
<1>3. turn \in 1 .. MaxTurns /\ round \in 1 .. MaxRounds
  BY TurnConstants DEF TurnTypeOK
<1> QED BY <1>2, <1>3 DEF CallsOf, Call

(* A push touches the fault counter only within its bound.                 *)
LEMMA PushFaults ==
    ASSUME TurnTypeOK, NEW list, NEW m
    PROVE  /\ Pushed(list, m) => faults' \in 0 .. MaxFaults
           /\ SaveFails(list, m) => faults' \in 0 .. MaxFaults
           /\ Fault => faults' \in 0 .. MaxFaults
  BY TurnConstants DEF TurnTypeOK, Pushed, SaveFails, Fault

-----------------------------------------------------------------------------
LEMMA TurnInvInit == Init => TurnInv
<1> SUFFICES ASSUME Init PROVE TurnInv
  OBVIOUS
<1>1. <<>> \in ToolNames
  BY NoToolsIsReply
<1>2. <<>> \in Seq(Decision)
  OBVIOUS
<1>3. cancel \in BOOLEAN
  BY Zenon DEF Init
<1>4. TurnTypeOK
  BY <1>1, <1>2, <1>3, TurnConstants DEF Init, TurnTypeOK, Locations
<1> QED BY <1>4 DEF Init, TurnInv, Progress

LEMMA TurnInvStep == TurnInv /\ [Next]_vars => TurnInv'
<1> SUFFICES ASSUME TurnInv, [Next]_vars PROVE TurnInv'
  OBVIOUS
<1> USE TurnConstants DEF TurnInv, Progress, Locations
<1>e. <<>> \in ToolNames /\ <<>> \in Seq(Decision)
  BY NoToolsIsReply
<1>f. /\ pc \in {"wait", "exec", "record", "deny"} => First(writes) \in Call
      /\ First(writes) \in Call => First(writes).tool \in Tools
  BY FirstIsIn DEF TurnTypeOK, Call
<1>1. ASSUME NEW list \in Log!Lists, Prompt(list) PROVE TurnInv'
  <2>1. cancel' \in BOOLEAN
    BY <1>1, Zenon DEF Prompt, NewTurn
  <2> QED BY <1>1, <1>e, <2>1, PushFaults DEF Prompt, NewTurn, TurnTypeOK
<1>2. ASSUME NEW list \in Log!Lists, PromptFails(list) PROVE TurnInv'
  <2>1. cancel' \in BOOLEAN
    BY <1>2, Zenon DEF PromptFails, NewTurn
  <2> QED BY <1>2, <1>e, <2>1, PushFaults
          DEF PromptFails, NewTurn, EndTurn, TurnTypeOK
<1>3. CASE CompactCommand
  BY <1>3 DEF CompactCommand, TurnTypeOK, callVars, modelVars, permVars, histVars
<1>4. CASE TopCancelled
  BY <1>4, <1>e DEF TopCancelled, EndTurn, TurnTypeOK, histVars
<1>5. ASSUME NEW over \in BOOLEAN, RouteModel(over) PROVE TurnInv'
  BY <1>5, <1>e DEF RouteModel, Goto, TurnTypeOK, callVars, permVars, histVars
<1>6. CASE Compacted
  BY <1>6 DEF Compacted, Goto, TurnTypeOK, callVars, modelVars, permVars, histVars
<1>7. CASE NotCompacted
  BY <1>7 DEF NotCompacted, Goto, TurnTypeOK, callVars, modelVars, permVars, histVars
<1>8. CASE RequestFails
  BY <1>8, <1>e DEF RequestFails, EndTurn, TurnTypeOK, histVars
<1>9. ASSUME NEW tools \in ToolNames, NEW broken \in BOOLEAN,
             ReplyInterrupted(tools, broken)
      PROVE  TurnInv'
  BY <1>9, <1>e, PushFaults
     DEF ReplyInterrupted, Replied, EndTurn, TurnTypeOK, histVars
<1>10. CASE ReplyText
  BY <1>10, <1>e, PushFaults DEF ReplyText, Replied, EndTurn, TurnTypeOK, histVars
<1>11. ASSUME NEW tools \in ToolNames, ReplyCalls(tools) PROVE TurnInv'
  <2>1. turn # 0 /\ round <= MaxRounds
    BY <1>11 DEF ReplyCalls, Replied
  <2>2. CallsOf(tools) \subseteq Call
    BY <2>1, CallsAreCalls
  <2>3. reads' \subseteq Call /\ writes' \subseteq Call
    BY <1>11, <2>2 DEF ReplyCalls
  <2> QED BY <1>11, <2>1, <2>3, PushFaults
          DEF ReplyCalls, Replied, Goto, TurnTypeOK, histVars
<1>12. ASSUME NEW tools \in ToolNames, ReplyFails(tools) PROVE TurnInv'
  BY <1>12, <1>e, PushFaults DEF ReplyFails, Replied, EndTurn, TurnTypeOK, histVars
<1>13. CASE StartReads
  BY <1>13 DEF StartReads, Goto, TurnTypeOK, modelVars, permVars, histVars
<1>14. CASE CollectRead
  BY <1>14, PushFaults DEF CollectRead, Goto, TurnTypeOK, modelVars, permVars, histVars
<1>15. CASE CollectFails
  BY <1>15, <1>e, PushFaults DEF CollectFails, EndTurn, TurnTypeOK, histVars
<1>16. CASE EndRound
  BY <1>16 DEF EndRound, Goto, TurnTypeOK, callVars, modelVars, permVars, histVars
<1>17. CASE CallCancelled
  BY <1>17, <1>e DEF CallCancelled, EndTurn, TurnTypeOK, histVars
<1>18. CASE NextCall
  BY <1>18, FirstIsIn DEF NextCall, Goto, TurnTypeOK, callVars, modelVars, histVars
<1>19. CASE Decided
  <2>1. perms' \in Seq(Decision)
    BY <1>19 DEF Decided, TurnTypeOK
  <2>2. always' \subseteq Tools
    BY <1>19, <1>f DEF Decided, TurnTypeOK
  <2> QED BY <1>19, <2>1, <2>2
          DEF Decided, Goto, TurnTypeOK, callVars, modelVars, histVars
<1>20. CASE ChannelClosed
  BY <1>20 DEF ChannelClosed, Goto, TurnTypeOK, callVars, modelVars, histVars
<1>21. CASE Execute
  BY <1>21, <1>f DEF Execute, Goto, TurnTypeOK, callVars, modelVars, permVars
<1>22. CASE RecordResult
  BY <1>22, PushFaults DEF RecordResult, Goto, TurnTypeOK, modelVars, permVars, histVars
<1>23. CASE RecordFails
  BY <1>23, <1>e, PushFaults DEF RecordFails, EndTurn, TurnTypeOK, histVars
<1>24. ASSUME NEW d \in Decisions, Answer(d) PROVE TurnInv'
  <2>1. asked \in Call
    BY <1>24 DEF Answer, TurnTypeOK
  <2>2. [call |-> asked, decision |-> d] \in Decision
    BY <2>1 DEF Decision
  <2>3. perms' \in Seq(Decision) /\ given' \subseteq Decision
    BY <1>24, <2>2 DEF Answer, TurnTypeOK
  <2> QED BY <1>24, <2>3 DEF Answer, TurnTypeOK, callVars, modelVars, histVars
<1>25. ASSUME NEW c \in running, FinishRead(c) PROVE TurnInv'
  BY <1>25 DEF FinishRead, TurnTypeOK, modelVars, permVars
<1>26. CASE AutoAllow
  <2>1. [call |-> NoCall, decision |-> "Allow"] \in Decision
    BY DEF Decision, Decisions
  <2>2. perms' \in Seq(Decision)
    BY <1>26, <2>1 DEF AutoAllow
  <2> QED BY <1>26, <2>2 DEF AutoAllow, TurnTypeOK, callVars, modelVars, histVars
<1>27. CASE Cancel
  BY <1>27 DEF Cancel, TurnTypeOK, callVars, modelVars, permVars, histVars
<1>28. CASE ProcessDies
  <2>1. cancel' \in BOOLEAN
    BY <1>28, Zenon DEF ProcessDies
  <2> QED BY <1>28, <1>e, <2>1 DEF ProcessDies, EndTurn, TurnTypeOK, histVars
<1>29. CASE Resume
  BY <1>29 DEF Resume, TurnTypeOK, callVars, modelVars, permVars, histVars
<1>30. CASE UNCHANGED vars
  BY <1>30 DEF vars, TurnTypeOK, callVars, modelVars, permVars, histVars
<1> QED
  BY <1>1, <1>2, <1>3, <1>4, <1>5, <1>6, <1>7, <1>8, <1>9, <1>10, <1>11, <1>12,
     <1>13, <1>14, <1>15, <1>16, <1>17, <1>18, <1>19, <1>20, <1>21, <1>22, <1>23,
     <1>24, <1>25, <1>26, <1>27, <1>28, <1>29, <1>30
     DEF Next, UserNext, AgentStep, TurnStep, UserStep, ReadStep, Crash, NoMorePrompts

-----------------------------------------------------------------------------
(* The message of a push is one SessionLog knows.                          *)
LEMMA MessagesAreMessages ==
    ASSUME TurnInv
    PROVE  /\ turn < MaxTurns => [role |-> "user", turn |-> turn + 1] \in TurnMessage
           /\ pc = "request" =>
                 \A tools \in ToolNames : Assistant(tools) \in TurnMessage
           /\ \A c \in Call, r \in {"ran", "denied"} : Result(c, r) \in TurnMessage
<1> USE TurnConstants DEF TurnInv, TurnTypeOK, Progress, TurnMessage
<1>1. turn < MaxTurns => turn + 1 \in 1 .. MaxTurns
  OBVIOUS
<1>2. pc = "request" => turn \in 1 .. MaxTurns
  OBVIOUS
<1>3. turn < MaxTurns => [role |-> "user", turn |-> turn + 1] \in TurnMessage
  BY <1>1 DEF UserMessage
<1>4. ASSUME pc = "request", NEW tools \in ToolNames
      PROVE  Assistant(tools) \in TurnMessage
  BY <1>2, <1>4 DEF AssistantMessage, Assistant
<1>5. ASSUME NEW c \in Call, NEW r \in {"ran", "denied"}
      PROVE  Result(c, r) \in TurnMessage
  BY <1>5 DEF ToolMessage, Result
<1> QED BY <1>3, <1>4, <1>5

(* A push of the turn, complete or interrupted by a failed statement, is a *)
(* step of SessionLog.                                                     *)
LEMMA PushesAreLogged ==
    ASSUME NEW list \in Log!Lists, NEW m \in TurnMessage
    PROVE  Pushed(list, m) \/ SaveFails(list, m) => Log!Next
  BY DEF Pushed, SaveFails, Log!Next

LEMMA LogStep == TurnInv /\ [Next]_vars => [Log!Next]_logVars
<1> SUFFICES ASSUME TurnInv, [Next]_vars PROVE Log!Next \/ UNCHANGED logVars
  OBVIOUS
<1>m. messages \in Log!Lists
  BY DEF Log!Lists
<1>1. ASSUME NEW list \in Log!Lists, Prompt(list) \/ PromptFails(list)
      PROVE  Log!Next
  <2>1. [role |-> "user", turn |-> turn + 1] \in TurnMessage
    BY <1>1, MessagesAreMessages DEF Prompt, PromptFails, NewTurn
  <2> QED BY <1>1, <2>1, PushesAreLogged DEF Prompt, PromptFails
<1>2. CASE CompactCommand \/ Compacted
  BY <1>2 DEF CompactCommand, Compacted, Log!Next
<1>3. ASSUME NEW tools \in ToolNames, NEW broken \in BOOLEAN,
             ReplyInterrupted(tools, broken) \/ ReplyCalls(tools)
      PROVE  Log!Next
  <2>1. Assistant(tools) \in TurnMessage
    BY <1>3, MessagesAreMessages DEF ReplyInterrupted, ReplyCalls, Replied
  <2> QED BY <1>3, <2>1, <1>m, PushesAreLogged DEF ReplyInterrupted, ReplyCalls
<1>4. CASE ReplyText
  <2>1. Assistant(<<>>) \in TurnMessage
    BY <1>4, NoToolsIsReply, MessagesAreMessages DEF ReplyText, Replied
  <2> QED BY <1>4, <2>1, <1>m, PushesAreLogged DEF ReplyText
<1>5. CASE CollectRead \/ CollectFails
  <2>1. First(reads) \in Call
    BY <1>5, FirstIsIn
       DEF TurnInv, TurnTypeOK, Progress, CollectRead, CollectFails
  <2>2. Result(First(reads), "ran") \in TurnMessage
    BY <2>1, MessagesAreMessages
  <2> QED BY <1>5, <2>2, <1>m, PushesAreLogged DEF CollectRead, CollectFails, logVars
<1>6. CASE RecordResult \/ RecordFails
  <2>1. First(writes) \in Call
    BY <1>6, FirstIsIn
       DEF TurnInv, TurnTypeOK, Progress, RecordResult, RecordFails
  <2>2. CallResult \in TurnMessage
    BY <2>1, MessagesAreMessages DEF CallResult
  <2> QED BY <1>6, <2>2, <1>m, PushesAreLogged DEF RecordResult, RecordFails, logVars
<1>7. CASE Crash \/ Resume
  BY <1>7 DEF Crash, Resume, Log!Next
<1>8. ASSUME NEW tools \in ToolNames, ReplyFails(tools)
      PROVE  Log!Next \/ UNCHANGED logVars
  <2>1. Assistant(tools) \in TurnMessage
    BY <1>8, MessagesAreMessages DEF ReplyFails, Replied
  <2> QED BY <1>8, <2>1 DEF ReplyFails, Log!Next
<1>9. ASSUME \/ TopCancelled \/ (\E over \in BOOLEAN : RouteModel(over))
             \/ NotCompacted \/ RequestFails
             \/ StartReads \/ EndRound \/ CallCancelled
      PROVE  UNCHANGED logVars
  BY <1>9 DEF TopCancelled, RouteModel, NotCompacted, RequestFails,
              StartReads, EndRound, CallCancelled, logVars
<1>10. ASSUME \/ NextCall \/ Decided \/ ChannelClosed \/ Execute
              \/ UserStep \/ ReadStep \/ AutoAllow \/ Cancel
              \/ NoMorePrompts \/ UNCHANGED vars
       PROVE  UNCHANGED logVars
  BY <1>10 DEF NextCall, Decided, ChannelClosed, Execute, UserStep, Answer,
               ReadStep, FinishRead, AutoAllow, Cancel, NoMorePrompts, vars, logVars
<1> QED
  BY <1>1, <1>2, <1>3, <1>4, <1>5, <1>6, <1>7, <1>8, <1>9, <1>10
     DEF Next, UserNext, AgentStep, TurnStep

(* A turn's type invariant.                                                *)
THEOREM TurnInvariant == Spec => []TurnInv
<1>1. TurnInv /\ [Next]_vars => TurnInv'
  BY TurnInvStep
<1> QED BY TurnInvInit, <1>1, PTL DEF Spec

(* A session of turns writes its list and its log the way SessionLog says. *)
THEOREM TurnsImplementLog == Spec => LogSpec
<1>1. Init => Log!Init
  BY DEF Init
<1>2. TurnInv /\ [Next]_vars => [Log!Next]_logVars
  BY LogStep
<1>3. Log!Init /\ [][Log!Next]_logVars => Log!Spec
  BY DEF Log!Spec, Log!logVars, logVars
<1> QED BY <1>1, <1>2, <1>3, TurnInvariant, PTL DEF Spec, LogSpec

-----------------------------------------------------------------------------
(* The two instances of SessionLog - the one the turn is built from and    *)
(* the one its theorems are about - are the same specification.            *)
LEMMA SameInit == Log!Init => LogThms!Init
  BY DEF Log!Init, LogThms!Init, Log!NewSession, LogThms!NewSession,
         Log!OldSession, LogThms!OldSession

LEMMA SameNext == [Log!Next]_logVars => [LogThms!Next]_logVars
  BY DEF Log!Next, Log!Push, Log!PushUnsaved, Log!PushUnlogged, Log!SaveUnpushed,
         Log!Compact, Log!Crash, Log!Resume, Log!Lists, Log!WithContext, Log!Extend,
         Log!Record, Log!save_message, Log!Compactable, Log!Restored,
         Log!load_turn_messages, Log!RowsBefore, Log!Before, Log!HasContext,
         LogThms!Next, LogThms!Push, LogThms!PushUnsaved, LogThms!PushUnlogged,
         LogThms!SaveUnpushed, LogThms!Compact, LogThms!Crash, LogThms!Resume,
         LogThms!Lists, LogThms!WithContext, LogThms!Extend, LogThms!Record,
         LogThms!save_message, LogThms!Compactable, LogThms!Restored,
         LogThms!load_turn_messages, LogThms!RowsBefore, LogThms!Before,
         LogThms!HasContext, Log!Cardinality, LogThms!Cardinality,
         Log!IsFiniteSet, LogThms!IsFiniteSet

LEMMA LogAssumptions ==
    /\ SystemPrompt \notin TurnMessage
    /\ ContextNote \notin TurnMessage
    /\ Summary \notin TurnMessage
    /\ SystemPrompt # ContextNote
    /\ Summary # ContextNote
    /\ {} \subseteq Seq(TurnMessage)
    /\ KeepRecent \in Nat
  BY MessageConstants

LEMMA TurnsImplementThms == Spec => LogThms!Spec
<1>1. Init => LogThms!Init
  BY SameInit DEF Init
<1>2. TurnInv /\ [Next]_vars => [LogThms!Next]_logVars
  BY LogStep, SameNext
<1>3. LogThms!Init /\ [][LogThms!Next]_logVars => LogThms!Spec
  BY DEF LogThms!Spec, LogThms!logVars, logVars
<1> QED BY <1>1, <1>2, <1>3, TurnInvariant, PTL DEF Spec

(* All of the state is always of its type.                                 *)
THEOREM TurnTypeCorrect == Spec => []TypeOK
<1>1. LogThms!Spec => []LogThms!TypeOK
  BY LogThms!TypeCorrect, LogAssumptions
<1>2. LogThms!TypeOK /\ TurnInv => TypeOK
  BY DEF LogThms!TypeOK, LogThms!Row, LogThms!Causes, Log!TypeOK, Log!Row,
         Log!Causes, TurnInv, TypeOK
<1> QED BY <1>1, <1>2, TurnInvariant, TurnsImplementThms, PTL

(* What is said in turns is never lost from the log, however turns end.    *)
THEOREM TurnLogIsComplete == Spec => []Log!NothingLost
<1>1. LogThms!Spec => []LogThms!NothingLost
  BY LogThms!LogIsComplete, LogAssumptions
<1>2. LogThms!NothingLost => Log!NothingLost
  BY DEF LogThms!NothingLost, LogThms!Rooted, LogThms!RowsAreConversation,
         Log!NothingLost, Log!Rooted, Log!RowsAreConversation
<1> QED BY <1>1, <1>2, TurnsImplementThms, PTL

-----------------------------------------------------------------------------
LEMMA ConsentInit == Init => ConsentInv
  BY DEF Init, ConsentInv, NoUnapprovedMutation

LEMMA ConsentStep == TurnInv /\ ConsentInv /\ [Next]_vars => ConsentInv'
<1> SUFFICES ASSUME TurnInv, ConsentInv, [Next]_vars
             PROVE  ConsentInv'
  OBVIOUS
<1> USE DEF ConsentInv, Consented, NoUnapprovedMutation
(* Steps that end the turn drop the question and the answer.               *)
<1>1. ASSUME NEW how, EndTurn(how), UNCHANGED <<always, given, executed>>,
             running' \subseteq running
      PROVE  ConsentInv'
  BY <1>1 DEF EndTurn
<1>2. ASSUME EndTurn("none"), always' = {}, running' = {},
             UNCHANGED <<given, executed>>
      PROVE  ConsentInv'
  BY <1>2 DEF EndTurn
(* Steps elsewhere that leave the consent state alone.                     *)
<1>3. ASSUME UNCHANGED permVars, UNCHANGED <<executed, running, turn>>,
             reads' \subseteq reads, writes' \subseteq writes,
             pc \notin {"wait", "idle"}, pc' \notin {"wait", "exec", "idle"}
      PROVE  ConsentInv'
  BY <1>3 DEF permVars
<1>4. ASSUME UNCHANGED <<permVars, executed, running, reads, writes, turn, pc>>
      PROVE  ConsentInv'
  BY <1>4 DEF permVars
<1>5. ASSUME NEW list \in Log!Lists, Prompt(list) PROVE ConsentInv'
  BY <1>5 DEF Prompt, NewTurn
<1>6. ASSUME NEW list \in Log!Lists, PromptFails(list) PROVE ConsentInv'
  BY <1>6, <1>1 DEF PromptFails, NewTurn
<1>7. CASE CompactCommand \/ Cancel \/ Resume \/ NoMorePrompts \/ UNCHANGED vars
  BY <1>7, <1>4 DEF CompactCommand, Cancel, Resume, NoMorePrompts, vars,
                    callVars, histVars
<1>8. CASE TopCancelled \/ RequestFails \/ CallCancelled \/ CollectFails \/ RecordFails
  BY <1>8, <1>1 DEF TopCancelled, RequestFails, CallCancelled, CollectFails,
                    RecordFails, histVars
<1>9. CASE (\E over \in BOOLEAN : RouteModel(over)) \/ Compacted \/ NotCompacted
           \/ EndRound
  BY <1>9, <1>3 DEF RouteModel, Compacted, NotCompacted, EndRound, Goto,
                    callVars, histVars
<1>10. ASSUME NEW tools \in ToolNames,
              \/ \E broken \in BOOLEAN : ReplyInterrupted(tools, broken)
              \/ ReplyFails(tools)
              \/ ReplyText
       PROVE  ConsentInv'
  BY <1>10, <1>1 DEF ReplyInterrupted, ReplyFails, ReplyText, Replied, histVars
<1>11. ASSUME NEW tools \in ToolNames, ReplyCalls(tools) PROVE ConsentInv'
  BY <1>11 DEF ReplyCalls, Replied, Goto, CallsOf, histVars
<1>12. CASE StartReads
  BY <1>12 DEF StartReads, Goto, permVars, histVars
<1>13. CASE CollectRead
  BY <1>13, <1>3 DEF CollectRead, Goto, histVars
<1>14. CASE NextCall
  BY <1>14 DEF NextCall, Goto, callVars, histVars
<1>15. CASE Decided
  <2>1. CASE \E g \in given : perms = <<g>> /\ g.call = First(writes)
    <3>1. PICK g \in given : perms = <<g>> /\ g.call = First(writes)
      BY <2>1
    <3>2. Head(perms) = g /\ perms' = <<>>
      BY <1>15, <3>1 DEF Decided
    <3> QED BY <1>15, <3>1, <3>2 DEF Decided, Goto, callVars, histVars
  <2>2. CASE Approver[turn] = "auto" /\ perms = <<[call |-> NoCall, decision |-> "Allow"]>>
    <3>1. Head(perms).decision = "Allow" /\ perms' = <<>>
      BY <1>15, <2>2 DEF Decided
    <3> QED BY <1>15, <2>2, <3>1 DEF Decided, Goto, callVars, histVars
  <2> QED BY <1>15, <2>1, <2>2 DEF Decided
<1>16. CASE ChannelClosed
  BY <1>16 DEF ChannelClosed, Goto, callVars, histVars
<1>17. CASE AutoAllow
  BY <1>17 DEF AutoAllow, callVars, histVars
<1>18. CASE Execute
  <2>1. First(writes) \in writes
    BY <1>18, FirstIsIn DEF Execute, TurnInv, Progress, TurnTypeOK
  <2>2. First(writes).turn = turn
    BY <2>1
  <2> QED BY <1>18, <2>2 DEF Execute, Goto, callVars, permVars
<1>19. CASE RecordResult
  BY <1>19, <1>3 DEF RecordResult, Goto, histVars
<1>20. ASSUME NEW d \in Decisions, Answer(d) PROVE ConsentInv'
  <2> DEFINE g == [call |-> asked, decision |-> d]
  <2>1. perms' = <<g>> /\ g \in given' /\ given \subseteq given'
    BY <1>20 DEF Answer
  <2> QED BY <1>20, <2>1 DEF Answer, callVars, histVars
<1>21. ASSUME NEW c \in running, FinishRead(c) PROVE ConsentInv'
  BY <1>21 DEF FinishRead, permVars
<1>22. CASE Crash
  BY <1>22, <1>2 DEF Crash, ProcessDies, histVars
<1> HIDE DEF ConsentInv, Consented, NoUnapprovedMutation
<1>23. CASE AgentStep
  BY <1>23, NoToolsIsReply, <1>7, <1>8, <1>9, <1>10, <1>11, <1>12, <1>13, <1>14,
     <1>15, <1>16, <1>18, <1>19
     DEF AgentStep, TurnStep
<1>24. CASE UserStep \/ ReadStep
  BY <1>24, <1>20, <1>21 DEF UserStep, ReadStep
<1> QED
  BY <1>5, <1>6, <1>7, <1>17, <1>22, <1>23, <1>24 DEF Next, UserNext, AgentStep

(* Whoever is asked and answers, and whenever, no mutating tool runs       *)
(* without consent, except in a turn that approves everything.             *)
THEOREM ConsentIsAsked == Spec => []NoUnapprovedMutation
<1>1. ConsentInv => NoUnapprovedMutation
  BY DEF ConsentInv
<1> QED BY <1>1, ConsentInit, ConsentStep, TurnInvariant, PTL DEF Spec

-----------------------------------------------------------------------------
(* A routed model is set for one request and put back before the next      *)
(* location; at most one call runs after the token has fired.              *)
LocalInv ==
    /\ original # NoModel => pc \in {"compact", "request"} /\ original = begun
    /\ original = NoModel /\ pc # "idle" => model = begun
    /\ ModelRestored
    /\ OneLateCall
    /\ pc # "idle" /\ (~cancel \/ pc \in {"wait", "exec"}) => late = 0

(* The locations at which calls of the last reply may be waiting.          *)
InRound == {"reads", "collect", "mutate", "wait", "exec", "record", "deny"}

Pending == reads \cup writes

(* A call made in an earlier round than the one the turn now asks for.     *)
Past(c) ==
    \/ c.turn < turn
    \/ /\ c.turn = turn
       /\ pc = "idle" \/ c.round < round \/ (c.round = round /\ pc \in InRound)

(* What runs, has run or was answered is in the past; what waits belongs   *)
(* to this round, has no answer and, but for the call being recorded, has  *)
(* not run.                                                                *)
CallsInv ==
    /\ \A c \in executed \cup running \cup Answered : Past(c)
    /\ \A c \in Pending : c.turn = turn /\ c.round = round
    /\ \A c, d \in Pending : c.index = d.index => c = d
    /\ Pending # {} => pc \in InRound
    /\ pc \notin {"reads", "collect"} => reads = {}
    /\ \A c \in writes : c.tool \notin ReadOnly
    /\ pc = "collect" => reads \subseteq running \cup executed
    /\ Pending \cap Answered = {}
    /\ pc = "record" => First(writes) \in executed
    /\ \A c \in writes : c \in executed => pc = "record" /\ c = First(writes)
    /\ ResultsAreTrue
    /\ \A p \in DOMAIN conversation :
          conversation[p].role = "tool" /\ conversation[p].result = "denied"
              => conversation[p].call.tool \notin ReadOnly

Unrecorded == {c \in executed : c.tool \notin ReadOnly} \ Answered

EffectsInv == IsFiniteSet(executed) /\ EffectsAreRecorded

(* The reply whose calls are being answered ends the conversation but for  *)
(* the results so far, which come before those of the calls that wait.     *)
Standing(a) ==
    /\ conversation[a].role = "assistant"
    /\ conversation[a].turn = turn /\ conversation[a].round = round
    /\ \A q \in a + 1 .. Len(conversation) : conversation[q].role = "tool"
    /\ {conversation[q].call : q \in a + 1 .. Len(conversation)} \cup Pending = Answerable(a)
    /\ \A q \in a + 1 .. Len(conversation), d \in Pending :
          AnsweredBefore(conversation[q].call, d)

(* A result and the reply it answers (ResultsFollowCalls without the       *)
(* choice of that reply).                                                  *)
Follows(a, p) ==
    /\ a \in 1 .. p /\ conversation[a].role = "assistant"
    /\ \A q \in a + 1 .. p : conversation[q].role = "tool"
    /\ conversation[p].call \in Answerable(a)
    /\ {conversation[q].call : q \in a + 1 .. p - 1} =
       {c \in Answerable(a) : AnsweredBefore(c, conversation[p].call)}

FollowInv ==
    /\ \A p \in DOMAIN conversation :
          conversation[p].role = "tool" => \E a \in DOMAIN conversation : Follows(a, p)
    /\ \A p \in DOMAIN conversation :
          conversation[p].role = "assistant" => conversation[p].turn <= turn

StandInv ==
    pc \in InRound /\ (pc = "mutate" => ~cancel) =>
        \E a \in DOMAIN conversation : Standing(a)

(* Replies of the turn are answered but for the calls that still wait, as  *)
(* long as the turn can complete.                                          *)
CompleteInv ==
    /\ pc # "idle" => outcome = "none"
    /\ pc # "idle" /\ ~cancel =>
          \A a \in DOMAIN conversation :
              conversation[a].role = "assistant" /\ conversation[a].turn = turn
                  => Answerable(a) \subseteq Answered \cup Pending
    /\ CompleteIsAnswered

OrderInv == FollowInv /\ StandInv /\ CompleteInv

LEMMA LocalInit == Init => LocalInv
  BY DEF Init, LocalInv, ModelRestored, OneLateCall

LEMMA LocalStep == TurnInv /\ LocalInv /\ [Next]_vars => LocalInv'
<1> SUFFICES ASSUME TurnInv, LocalInv, [Next]_vars PROVE LocalInv'
  OBVIOUS
<1> USE DEF LocalInv, ModelRestored, OneLateCall
<1>t. /\ late \in Nat /\ model \in Models /\ NoModel \notin Models
  BY TurnConstants DEF TurnInv, TurnTypeOK
(* Steps that leave the model and the count alone, and go on or end.       *)
<1>1. ASSUME UNCHANGED <<pc, outcome, cancel, model, original, begun, late>>
      PROVE  LocalInv'
  BY <1>1
<1>2. ASSUME UNCHANGED <<outcome, cancel, model, original, begun, late>>,
             original = NoModel \/ pc' \in {"compact", "request"},
             pc # "idle", pc' \notin {"wait", "exec", "idle"}
      PROVE  LocalInv'
  BY <1>2
<1>3. ASSUME EndTurn("error") \/ EndTurn("none"),
             late' \in {0, late}
      PROVE  LocalInv'
  BY <1>3 DEF EndTurn
<1>4. ASSUME NEW list \in Log!Lists, Prompt(list) \/ PromptFails(list) PROVE LocalInv'
  <2>1. cancel' = FALSE /\ begun' = model /\ late' = 0 /\ UNCHANGED model
    BY <1>4 DEF Prompt, PromptFails, NewTurn
  <2>2. original' = NoModel
    BY <1>4 DEF Prompt, PromptFails, NewTurn, EndTurn
  <2> QED BY <1>4, <2>1, <2>2 DEF Prompt, PromptFails, EndTurn
<1>5. CASE CompactCommand \/ UserStep \/ ReadStep \/ AutoAllow \/ Resume \/ NoMorePrompts
           \/ UNCHANGED vars
  BY <1>5, <1>1 DEF CompactCommand, UserStep, Answer, ReadStep, FinishRead, AutoAllow, Resume,
                    NoMorePrompts, vars, modelVars, histVars
<1>6. CASE Cancel
  BY <1>6 DEF Cancel, modelVars, histVars
<1>7. CASE Crash
  BY <1>7, <1>3 DEF Crash, ProcessDies, histVars
<1>8. CASE RequestFails \/ CollectFails \/ RecordFails
  BY <1>8, <1>3 DEF RequestFails, CollectFails, RecordFails, histVars
<1>9. ASSUME NEW tools \in ToolNames, ReplyFails(tools) PROVE LocalInv'
  BY <1>9, <1>3 DEF ReplyFails, Replied, histVars
<1>10. CASE TopCancelled \/ CallCancelled
  BY <1>10 DEF TopCancelled, CallCancelled, EndTurn, histVars
<1>11. ASSUME NEW over \in BOOLEAN, RouteModel(over) PROVE LocalInv'
  BY <1>11, <1>t DEF RouteModel, Goto, histVars
<1>12. CASE Compacted \/ NotCompacted
  BY <1>12, <1>2 DEF Compacted, NotCompacted, Goto, modelVars, histVars
<1>13. ASSUME NEW tools \in ToolNames,
              \/ \E broken \in BOOLEAN : ReplyInterrupted(tools, broken)
              \/ ReplyCalls(tools)
              \/ ReplyText
       PROVE  LocalInv'
  <2>1. pc = "request" /\ UNCHANGED <<begun, late, cancel>> /\ model' = begun
    BY <1>13 DEF ReplyInterrupted, ReplyCalls, ReplyText, Replied, histVars
  <2>2. original' = NoModel /\ pc' \in {"idle", "reads"}
    BY <1>13 DEF ReplyInterrupted, ReplyCalls, ReplyText, EndTurn, Goto
  <2> QED BY <2>1, <2>2
<1>14. CASE StartReads \/ CollectRead \/ EndRound \/ RecordResult
  BY <1>14, <1>2 DEF StartReads, CollectRead, EndRound, RecordResult, Goto, modelVars, histVars
<1>15. CASE NextCall
  BY <1>15 DEF NextCall, Goto, modelVars, histVars
<1>16. CASE Decided \/ ChannelClosed
  BY <1>16 DEF Decided, ChannelClosed, Goto, modelVars, histVars
<1>17. CASE Execute
  <2>1. late' = (IF cancel THEN 1 ELSE 0) /\ late = 0
    BY <1>17 DEF Execute
  <2> QED BY <1>17, <2>1 DEF Execute, Goto, modelVars
<1> HIDE DEF LocalInv
<1> QED
  BY <1>4, <1>5, <1>6, <1>7, <1>8, <1>9, <1>10, <1>11, <1>12, <1>13, <1>14, <1>15, <1>16,
     <1>17, NoToolsIsReply
     DEF Next, UserNext, AgentStep, TurnStep

(* A turn that completes or is cancelled leaves the model as it found it,  *)
(* whatever has been routed in between.                                    *)
THEOREM ModelIsRestored == Spec => []ModelRestored
<1>1. LocalInv => ModelRestored
  BY DEF LocalInv
<1> QED BY <1>1, LocalInit, LocalStep, TurnInvariant, PTL DEF Spec

(* Whenever the token fires, at most the call already decided upon still   *)
(* runs.                                                                   *)
THEOREM LateCalls == Spec => []OneLateCall
<1>1. LocalInv => OneLateCall
  BY DEF LocalInv
<1> QED BY <1>1, LocalInit, LocalStep, TurnInvariant, PTL DEF Spec

-----------------------------------------------------------------------------
(* The conversation and the calls it answers.                              *)
Says(m) == conversation' = Append(conversation, m)

LEMMA SessionTypes ==
    ASSUME TypeOK
    PROVE  /\ conversation \in Seq(TurnMessage)
           /\ Len(conversation) \in Nat /\ DOMAIN conversation = 1 .. Len(conversation)
           /\ \A p \in DOMAIN conversation : conversation[p] \in TurnMessage
           /\ \A p \in DOMAIN conversation : conversation[p].role = "tool" =>
                 conversation[p].call \in Call /\ conversation[p].result \in {"ran", "denied"}
           /\ Answered \subseteq Call
<1>1. conversation \in Seq(TurnMessage)
  BY DEF TypeOK, Log!TypeOK
<1>2. /\ Len(conversation) \in Nat /\ DOMAIN conversation = 1 .. Len(conversation)
      /\ \A p \in DOMAIN conversation : conversation[p] \in TurnMessage
  BY <1>1
<1>3. ASSUME NEW m \in TurnMessage, m.role = "tool"
      PROVE  m.call \in Call /\ m.result \in {"ran", "denied"}
  BY <1>3 DEF TurnMessage, UserMessage, AssistantMessage, ToolMessage
<1> QED BY <1>1, <1>2, <1>3 DEF Answered

LEMMA Grown ==
    ASSUME TypeOK, NEW m \in TurnMessage, Says(m)
    PROVE  /\ Len(conversation') = Len(conversation) + 1
           /\ DOMAIN conversation' = 1 .. Len(conversation) + 1
           /\ DOMAIN conversation' = DOMAIN conversation \cup {Len(conversation) + 1}
           /\ \A p \in DOMAIN conversation : conversation'[p] = conversation[p]
           /\ conversation'[Len(conversation) + 1] = m
           /\ Answered' = Answered \cup (IF m.role = "tool" THEN {m.call} ELSE {})
<1>1. /\ Len(conversation') = Len(conversation) + 1
      /\ DOMAIN conversation' = 1 .. Len(conversation) + 1
      /\ \A p \in DOMAIN conversation : conversation'[p] = conversation[p]
      /\ conversation'[Len(conversation) + 1] = m
  BY SessionTypes DEF Says
<1>2. DOMAIN conversation' = DOMAIN conversation \cup {Len(conversation) + 1}
  BY <1>1, SessionTypes
<1> DEFINE n == Len(conversation) + 1
<1>3. /\ DOMAIN conversation' = DOMAIN conversation \cup {n} /\ conversation'[n] = m
      /\ \A p \in DOMAIN conversation : conversation'[p] = conversation[p]
  BY <1>1, <1>2
<1> HIDE DEF n
<1>4. Answered' = Answered \cup (IF m.role = "tool" THEN {m.call} ELSE {})
  BY <1>3 DEF Answered
<1> QED BY <1>1, <1>2, <1>4

LEMMA PushSays ==
    ASSUME NEW list, NEW m, Pushed(list, m) \/ SaveFails(list, m)
    PROVE  Says(m)
  BY DEF Pushed, SaveFails, Says, Log!Push, Log!PushUnlogged, Log!PushUnsaved, Log!Extend

(* A result that is said is as true as those before it.                    *)
LEMMA TrueResults ==
    ASSUME TypeOK, CallsInv, NEW m \in TurnMessage, Says(m), UNCHANGED executed,
           m.role = "tool" => /\ m.result = "ran" <=> m.call \in executed
                              /\ m.result = "denied" => m.call.tool \notin ReadOnly
    PROVE  /\ ResultsAreTrue'
           /\ \A p \in DOMAIN conversation' :
                 conversation'[p].role = "tool" /\ conversation'[p].result = "denied"
                     => conversation'[p].call.tool \notin ReadOnly
<1> DEFINE n == Len(conversation) + 1
<1>1. /\ DOMAIN conversation' = DOMAIN conversation \cup {n} /\ conversation'[n] = m
      /\ \A p \in DOMAIN conversation : conversation'[p] = conversation[p]
  BY Grown
<1> HIDE DEF n
<1>2. /\ ResultsAreTrue
      /\ \A p \in DOMAIN conversation :
            conversation[p].role = "tool" /\ conversation[p].result = "denied"
                => conversation[p].call.tool \notin ReadOnly
  BY DEF CallsInv
<1> QED BY <1>1, <1>2 DEF ResultsAreTrue

(* A call that runs belongs to no result that says it was denied.          *)
LEMMA TrueRuns ==
    ASSUME TypeOK, CallsInv, UNCHANGED conversation, NEW c, executed' = executed \cup {c},
           c.tool \in ReadOnly \/ c \notin Answered
    PROVE  ResultsAreTrue'
<1> SUFFICES ASSUME NEW p \in DOMAIN conversation, conversation[p].role = "tool"
             PROVE  conversation[p].result = "ran" <=> conversation[p].call \in executed'
  BY DEF ResultsAreTrue
<1>1. conversation[p].result = "ran" <=> conversation[p].call \in executed
  BY DEF CallsInv, ResultsAreTrue
<1>2. conversation[p].result \in {"ran", "denied"} /\ conversation[p].call \in Answered
  BY SessionTypes DEF Answered
<1>3. conversation[p].result = "denied" => conversation[p].call # c
  BY <1>2 DEF CallsInv
<1> QED BY <1>1, <1>2, <1>3

-----------------------------------------------------------------------------
LEMMA CallsInit == Init => CallsInv /\ OrderInv /\ EffectsInv
<1> SUFFICES ASSUME Init PROVE CallsInv /\ OrderInv /\ EffectsInv
  OBVIOUS
<1>1. conversation = <<>> /\ DOMAIN conversation = {}
  BY DEF Init, Log!Init, Log!NewSession, Log!OldSession
<1>2. Answered = {}
  BY <1>1 DEF Answered
<1>3. CallsInv
  BY <1>1, <1>2 DEF Init, CallsInv, Pending, ResultsAreTrue
<1>4. OrderInv
  BY <1>1 DEF Init, OrderInv, FollowInv, StandInv, CompleteInv, CompleteIsAnswered, InRound
<1>5. EffectsInv
  <2>1. {c \in executed : c.tool \notin ReadOnly} \ Answered = {}
    BY DEF Init
  <2>2. IsFiniteSet(executed) /\ Cardinality({}) = 0
    BY FS_EmptySet DEF Init
  <2> QED BY <2>1, <2>2 DEF Init, EffectsInv, EffectsAreRecorded
<1> QED BY <1>3, <1>4, <1>5

(* Steps that end the turn forget the calls that wait.                     *)
LEMMA EndKeepsCalls ==
    ASSUME TurnInv, TypeOK, CallsInv, NEW how, EndTurn(how), UNCHANGED executed,
           turn' = turn \/ turn' = turn + 1, running' \subseteq running,
           \/ UNCHANGED conversation
           \/ \E m \in TurnMessage :
                 /\ Says(m)
                 /\ m.role = "tool" => /\ m.call \in Pending
                                       /\ m.result = "ran" <=> m.call \in executed
                                       /\ m.result = "denied" => m.call.tool \notin ReadOnly
    PROVE  CallsInv'
<1>1. pc' = "idle" /\ reads' = {} /\ writes' = {}
  BY DEF EndTurn
<1>2. Answered' \subseteq Answered \cup Pending
  <2>1. CASE UNCHANGED conversation
    BY <2>1 DEF Answered
  <2>2. CASE ~UNCHANGED conversation
    BY <2>2, Grown
  <2> QED BY <2>1, <2>2
<1>3. ASSUME NEW c \in executed' \cup running' \cup Answered' PROVE Past(c)'
  <2>1. c \in Call
    BY <1>2, SessionTypes DEF TurnInv, TurnTypeOK, Pending
  <2>2. c.turn \in Nat /\ turn \in Nat
    BY <2>1, TurnConstants DEF Call, TurnInv, TurnTypeOK
  <2>3. c.turn < turn \/ c.turn = turn
    BY <1>2 DEF CallsInv, Past
  <2> QED BY <1>1, <2>2, <2>3 DEF Past
<1>4. /\ ResultsAreTrue'
      /\ \A p \in DOMAIN conversation' :
            conversation'[p].role = "tool" /\ conversation'[p].result = "denied"
                => conversation'[p].call.tool \notin ReadOnly
  <2>1. CASE UNCHANGED conversation
    BY <2>1 DEF CallsInv, ResultsAreTrue
  <2>2. CASE ~UNCHANGED conversation
    BY <2>2, TrueResults
  <2> QED BY <2>1, <2>2
<1> QED BY <1>1, <1>3, <1>4 DEF CallsInv, Pending, InRound

(* Steps that leave the calls alone, within a round or outside it.         *)
LEMMA MoveKeepsCalls ==
    ASSUME CallsInv, UNCHANGED <<conversation, executed, reads, writes, running, turn, round>>,
           \/ pc' = pc
           \/ pc \in {"top", "compact"} /\ pc' \in {"compact", "request"}
           \/ pc = "mutate" /\ pc' \in {"wait", "exec"}
           \/ pc = "wait" /\ pc' \in {"exec", "deny"}
    PROVE  CallsInv'
<1>1. UNCHANGED Answered /\ UNCHANGED Pending
  BY DEF Answered, Pending
<1>2. (pc' = "idle" <=> pc = "idle") /\ (pc' \in InRound <=> pc \in InRound)
  BY DEF InRound
<1>3. (ResultsAreTrue)'
  BY DEF CallsInv, ResultsAreTrue
<1>4. \A c \in executed' \cup running' \cup Answered' : Past(c)'
  BY <1>1, <1>2 DEF CallsInv, Past
<1>5. pc' = "record" <=> pc = "record"
  OBVIOUS
<1> QED BY <1>1, <1>2, <1>3, <1>4, <1>5 DEF CallsInv

(* A reply with calls: they are new, and each place names one.             *)
LEMMA RepliesKeepCalls ==
    ASSUME TurnInv, TypeOK, CallsInv, NEW tools \in ToolNames, ReplyCalls(tools)
    PROVE  CallsInv'
<1>1. /\ pc = "request" /\ pc' = "reads" /\ UNCHANGED <<turn, round, running, executed>>
      /\ round <= MaxRounds /\ Says(Assistant(tools))
      /\ reads' = {c \in CallsOf(tools) : c.tool \in ReadOnly}
      /\ writes' = {c \in CallsOf(tools) : c.tool \notin ReadOnly}
  BY PushSays DEF ReplyCalls, Replied, Goto, histVars
<1>2. Assistant(tools) \in TurnMessage /\ Assistant(tools).role = "assistant"
  BY <1>1, MessagesAreMessages DEF Assistant
<1>3. Answered' = Answered
  BY <1>1, <1>2, Grown
<1>4. Pending' = CallsOf(tools)
  BY <1>1 DEF Pending
<1>5. \A c \in CallsOf(tools) : /\ c.turn = turn /\ c.round = round
                                /\ c.tool = tools[c.index]
                                /\ c = [turn |-> turn, round |-> round, index |-> c.index,
                                        tool |-> tools[c.index]]
  BY DEF CallsOf
<1>6. ASSUME NEW c \in executed \cup running \cup Answered
      PROVE  Past(c)' /\ ~(c.turn = turn /\ c.round = round)
  <2>1. c \in Call
    BY SessionTypes DEF TurnInv, TurnTypeOK
  <2>2. /\ c.turn \in Nat /\ c.round \in Nat /\ turn \in Nat /\ round \in Nat
    BY <2>1, TurnConstants DEF Call, TurnInv, TurnTypeOK
  <2>3. Past(c) /\ pc = "request"
    BY <1>1 DEF CallsInv
  <2>4. c.turn < turn \/ (c.turn = turn /\ c.round < round)
    BY <2>3 DEF Past, InRound
  <2> QED BY <1>1, <2>2, <2>4 DEF Past
<1>7. \A c \in executed \cup running \cup Answered : c \notin CallsOf(tools)
  BY <1>5, <1>6
<1>8. /\ ResultsAreTrue'
      /\ \A p \in DOMAIN conversation' :
            conversation'[p].role = "tool" /\ conversation'[p].result = "denied"
                => conversation'[p].call.tool \notin ReadOnly
  BY <1>1, <1>2, TrueResults
<1>9. \A c \in executed' \cup running' \cup Answered' : Past(c)'
  BY <1>1, <1>3, <1>6
<1>10. \A c \in Pending' : c.turn = turn' /\ c.round = round'
  BY <1>1, <1>4, <1>5
<1>11. \A c, d \in Pending' : c.index = d.index => c = d
  BY <1>4, <1>5
<1>12. Pending' \cap Answered' = {} /\ \A c \in writes' : c \notin executed'
  BY <1>1, <1>3, <1>4, <1>7
<1> QED BY <1>1, <1>8, <1>9, <1>10, <1>11, <1>12 DEF CallsInv, InRound

(* The call whose result is recorded next.                                 *)
LEMMA FirstPending ==
    ASSUME TurnInv, ConsentInv, CallsInv
    PROVE  /\ pc = "collect" => First(reads) \in reads /\ First(reads) \in Call
           /\ pc \in {"wait", "exec", "record", "deny"} =>
                 First(writes) \in writes /\ First(writes) \in Call
           /\ reads \cap writes = {}
<1>1. pc = "collect" => First(reads) \in reads
  BY FirstIsIn DEF TurnInv, Progress, TurnTypeOK
<1>2. pc \in {"wait", "exec", "record", "deny"} => First(writes) \in writes
  BY FirstIsIn DEF TurnInv, Progress, TurnTypeOK
<1> QED BY <1>1, <1>2 DEF TurnInv, TurnTypeOK, ConsentInv, CallsInv

(* A result: the call it answers no longer waits.                          *)
LEMMA ResultsKeepCalls ==
    ASSUME TurnInv, TypeOK, ConsentInv, CallsInv, CollectRead \/ RecordResult
    PROVE  CallsInv'
<1>1. UNCHANGED <<turn, round, running, executed>>
  BY DEF CollectRead, RecordResult, histVars
<1>2. /\ reads \subseteq Call /\ writes \subseteq Call /\ reads \cap writes = {}
  BY FirstPending DEF TurnInv, TurnTypeOK
<1>3. PICK c \in Pending, r \in {"ran", "denied"} :
         /\ c \in Call /\ Says(Result(c, r))
         /\ r = "ran" <=> c \in executed
         /\ r = "denied" => c.tool \notin ReadOnly
         /\ Pending' = Pending \ {c} /\ reads' \subseteq reads /\ writes' = writes \ {c}
         /\ pc = "record" => c = First(writes)
  <2>1. CASE CollectRead
    <3>1. First(reads) \in reads /\ First(reads) \in Call /\ First(reads) \in executed
      BY <2>1, FirstPending DEF CollectRead, CallsInv
    <3>2. Says(Result(First(reads), "ran"))
      BY <2>1, PushSays DEF CollectRead
    <3>3. reads' = reads \ {First(reads)} /\ writes' = writes \ {First(reads)} /\ pc # "record"
      BY <1>2, <2>1, <3>1 DEF CollectRead
    <3>4. Pending' = Pending \ {First(reads)} /\ First(reads) \in Pending
      BY <3>1, <3>3 DEF Pending
    <3> QED BY <3>1, <3>2, <3>3, <3>4
  <2>2. CASE RecordResult
    <3> DEFINE r == IF pc = "record" THEN "ran" ELSE "denied"
    <3>1. First(writes) \in writes /\ First(writes) \in Call
      BY <2>2, FirstPending DEF RecordResult
    <3>2. Says(Result(First(writes), r)) /\ r \in {"ran", "denied"}
      BY <2>2, PushSays DEF RecordResult, CallResult
    <3>3. r = "ran" <=> First(writes) \in executed
      BY <2>2, <3>1 DEF RecordResult, CallsInv
    <3>4. First(writes).tool \notin ReadOnly
      BY <3>1 DEF CallsInv
    <3>5. writes' = writes \ {First(writes)} /\ reads' = reads /\ First(writes) \notin reads
      BY <1>2, <2>2, <3>1 DEF RecordResult
    <3>6. Pending' = Pending \ {First(writes)} /\ First(writes) \in Pending
      BY <3>1, <3>5 DEF Pending
    <3> HIDE DEF r
    <3> QED BY <3>1, <3>2, <3>3, <3>4, <3>5, <3>6
  <2> QED BY <2>1, <2>2
<1>4. /\ Result(c, r) \in TurnMessage /\ Result(c, r).role = "tool"
      /\ Result(c, r).call = c /\ Result(c, r).result = r
  BY <1>3, MessagesAreMessages DEF Result
<1>5. Answered' = Answered \cup {c}
  BY <1>3, <1>4, Grown
<1>6. pc \in InRound /\ pc' \in {"collect", "mutate"}
  BY DEF CollectRead, RecordResult, Goto, InRound
<1>7. /\ ResultsAreTrue'
      /\ \A p \in DOMAIN conversation' :
            conversation'[p].role = "tool" /\ conversation'[p].result = "denied"
                => conversation'[p].call.tool \notin ReadOnly
  BY <1>1, <1>3, <1>4, TrueResults
<1>8. \A d \in executed' \cup running' \cup Answered' : Past(d)'
  BY <1>1, <1>3, <1>5, <1>6 DEF CallsInv, Past, InRound, Pending
<1>9. pc' = "collect" => pc = "collect"
  BY DEF CollectRead, RecordResult, Goto
<1>10. pc' # "collect" => reads' = {}
  BY DEF CollectRead, RecordResult, Goto, CallsInv
<1>11. \A d \in writes' : d \notin executed'
  BY <1>1, <1>3 DEF CallsInv
<1>12. Pending' \cap Answered' = {}
  BY <1>3, <1>5 DEF CallsInv
<1>13. Pending' \subseteq Pending /\ reads' \subseteq reads /\ writes' \subseteq writes
  BY <1>3
<1> QED BY <1>1, <1>6, <1>7, <1>8, <1>9, <1>10, <1>11, <1>12, <1>13
        DEF CallsInv, InRound

(* The others: a call runs, reads start, a round ends.                     *)
LEMMA RunsKeepCalls ==
    ASSUME TurnInv, TypeOK, ConsentInv, CallsInv,
           Execute \/ ReadStep \/ StartReads \/ EndRound
    PROVE  CallsInv'
<1>1. UNCHANGED <<conversation, turn>> /\ UNCHANGED Answered
  BY DEF Execute, ReadStep, FinishRead, StartReads, EndRound, logVars, Answered
<1>2. CASE Execute
  <2> DEFINE c == First(writes)
  <2>1. c \in writes /\ pc = "exec" /\ pc' = "record" /\ executed' = executed \cup {c}
    BY <1>2, FirstPending DEF Execute, Goto
  <2>2. UNCHANGED <<round, reads, writes, running>> /\ UNCHANGED Pending
    BY <1>2 DEF Execute, callVars, Pending
  <2>3. c.tool \notin ReadOnly /\ c \notin Answered /\ c.turn = turn /\ c.round = round
    BY <2>1 DEF CallsInv, Pending
  <2>4. First(writes)' = c
    BY <2>2 DEF First
  <2> HIDE DEF c
  <2>5. ResultsAreTrue'
    BY <1>1, <2>1, <2>3, TrueRuns
  <2>6. \A d \in executed' \cup running' \cup Answered' : Past(d)'
    BY <1>1, <2>1, <2>2, <2>3 DEF CallsInv, Past, InRound
  <2> QED BY <1>1, <2>1, <2>2, <2>4, <2>5, <2>6 DEF CallsInv, InRound
<1>3. CASE ReadStep
  <2>1. PICK c \in running : FinishRead(c)
    BY <1>3 DEF ReadStep
  <2>2. /\ executed' = executed \cup {c} /\ running' = running \ {c}
        /\ UNCHANGED <<pc, round, reads, writes>> /\ UNCHANGED Pending
    BY <2>1 DEF FinishRead, Pending
  <2>3. c.tool \in ReadOnly /\ c \notin writes
    BY DEF ConsentInv, CallsInv
  <2>4. ResultsAreTrue'
    BY <1>1, <2>2, <2>3, TrueRuns
  <2>5. \A d \in executed' \cup running' \cup Answered' : Past(d)'
    BY <1>1, <2>2 DEF CallsInv, Past
  <2>6. First(writes)' = First(writes)
    BY <2>2 DEF First
  <2> QED BY <1>1, <2>2, <2>3, <2>4, <2>5, <2>6 DEF CallsInv
<1>4. CASE StartReads
  <2>1. /\ pc = "reads" /\ pc' \in {"collect", "mutate"}
        /\ reads' \subseteq reads /\ running' \subseteq running \cup reads
        /\ UNCHANGED <<executed, round, writes>>
        /\ pc' = "collect" => reads' \subseteq running'
        /\ pc' = "mutate" => reads' = {}
    BY <1>4 DEF StartReads, Goto, histVars
  <2>2. Pending' \subseteq Pending
    BY <2>1 DEF Pending
  <2>3. ResultsAreTrue'
    BY <1>1, <2>1 DEF CallsInv, ResultsAreTrue
  <2>4. \A d \in executed' \cup running' \cup Answered' : Past(d)'
    BY <1>1, <2>1 DEF CallsInv, Past, InRound, Pending
  <2> QED BY <1>1, <2>1, <2>2, <2>3, <2>4 DEF CallsInv, InRound
<1>5. CASE EndRound
  <2>1. /\ pc = "mutate" /\ pc' = "top" /\ round' = round + 1
        /\ UNCHANGED <<executed, reads, writes, running>> /\ writes = {}
    BY <1>5 DEF EndRound, Goto, callVars, histVars
  <2>2. reads = {} /\ Pending' = {}
    BY <2>1 DEF CallsInv, Pending
  <2>3. ResultsAreTrue'
    BY <1>1, <2>1 DEF CallsInv, ResultsAreTrue
  <2>4. ASSUME NEW d \in executed \cup running \cup Answered PROVE Past(d)'
    <3>1. d \in Call
      BY SessionTypes DEF TurnInv, TurnTypeOK
    <3>2. d.turn \in Nat /\ d.round \in Nat /\ turn \in Nat /\ round \in Nat
      BY <3>1, TurnConstants DEF Call, TurnInv, TurnTypeOK
    <3>3. d.turn < turn \/ (d.turn = turn /\ d.round <= round)
      <4>1. Past(d) /\ pc # "idle"
        BY <2>1 DEF CallsInv
      <4> QED BY <3>2, <4>1 DEF Past
    <3> QED BY <1>1, <2>1, <3>2, <3>3 DEF Past
  <2> QED BY <1>1, <2>1, <2>2, <2>3, <2>4 DEF CallsInv
<1> QED BY <1>2, <1>3, <1>4, <1>5

LEMMA CallsStep ==
    TypeOK /\ TurnInv /\ ConsentInv /\ CallsInv /\ [Next]_vars => CallsInv'
<1> SUFFICES ASSUME TypeOK, TurnInv, ConsentInv, CallsInv, [Next]_vars PROVE CallsInv'
  OBVIOUS
<1>1. ASSUME NEW list \in Log!Lists, Prompt(list) PROVE CallsInv'
  <2> DEFINE m == [role |-> "user", turn |-> turn + 1]
  <2>1. m \in TurnMessage /\ m.role = "user" /\ Says(m)
    BY <1>1, MessagesAreMessages, PushSays DEF Prompt, NewTurn
  <2> HIDE DEF m
  <2>2. /\ pc = "idle" /\ pc' = "top" /\ turn' = turn + 1
        /\ UNCHANGED <<reads, writes, running, executed>>
    BY <1>1 DEF Prompt, NewTurn
  <2>3. Answered' = Answered
    BY <2>1, Grown
  <2>4. reads = {} /\ writes = {} /\ Pending' = {}
    BY <2>2 DEF CallsInv, ConsentInv, Pending
  <2>5. ASSUME NEW c \in executed \cup running \cup Answered PROVE Past(c)'
    <3>1. c \in Call
      BY SessionTypes DEF TurnInv, TurnTypeOK
    <3>2. c.turn \in Nat /\ turn \in Nat
      BY <3>1, TurnConstants DEF Call, TurnInv, TurnTypeOK
    <3>3. c.turn < turn \/ c.turn = turn
      BY DEF CallsInv, Past
    <3> QED BY <2>2, <3>2, <3>3 DEF Past
  <2>6. /\ ResultsAreTrue'
        /\ \A p \in DOMAIN conversation' :
              conversation'[p].role = "tool" /\ conversation'[p].result = "denied"
                  => conversation'[p].call.tool \notin ReadOnly
    BY <2>1, <2>2, TrueResults
  <2> QED BY <2>2, <2>3, <2>4, <2>5, <2>6 DEF CallsInv
<1>2. ASSUME NEW list \in Log!Lists, PromptFails(list) PROVE CallsInv'
  <2> DEFINE m == [role |-> "user", turn |-> turn + 1]
  <2>1. m \in TurnMessage /\ m.role = "user" /\ Says(m)
    BY <1>2, MessagesAreMessages, PushSays DEF PromptFails, NewTurn
  <2> HIDE DEF m
  <2> QED BY <1>2, <2>1, EndKeepsCalls DEF PromptFails, NewTurn
<1>3. CASE \/ CompactCommand \/ UserStep \/ AutoAllow \/ Cancel \/ Resume \/ NoMorePrompts
           \/ UNCHANGED vars
  BY <1>3, MoveKeepsCalls
     DEF CompactCommand, UserStep, Answer, AutoAllow, Cancel, Resume, NoMorePrompts, vars,
         logVars, callVars, histVars, Log!Compact, Log!Resume
<1>4. CASE TopCancelled \/ RequestFails \/ CallCancelled
  BY <1>4, EndKeepsCalls DEF TopCancelled, RequestFails, CallCancelled, logVars, histVars
<1>5. CASE \/ \E over \in BOOLEAN : RouteModel(over)
           \/ Compacted \/ NotCompacted \/ NextCall \/ Decided \/ ChannelClosed
  BY <1>5, MoveKeepsCalls
     DEF RouteModel, Compacted, NotCompacted, NextCall, Decided, ChannelClosed, Goto,
         logVars, callVars, histVars, Log!Compact
<1>6. ASSUME NEW tools \in ToolNames,
             \/ \E broken \in BOOLEAN : ReplyInterrupted(tools, broken)
             \/ ReplyFails(tools)
             \/ ReplyText /\ tools = <<>>
      PROVE  CallsInv'
  <2>1. Assistant(tools) \in TurnMessage /\ Assistant(tools).role = "assistant"
    BY <1>6, MessagesAreMessages
       DEF ReplyInterrupted, ReplyFails, ReplyText, Replied, Assistant
  <2>2. Says(Assistant(tools)) \/ UNCHANGED conversation
    BY <1>6, PushSays DEF ReplyInterrupted, ReplyFails, ReplyText, logVars, Log!SaveUnpushed
  <2>3. UNCHANGED <<turn, running, executed>> /\ \E how : EndTurn(how)
    BY <1>6 DEF ReplyInterrupted, ReplyFails, ReplyText, Replied, histVars
  <2> QED BY <2>1, <2>2, <2>3, EndKeepsCalls
<1>7. CASE CollectFails
  <2>1. First(reads) \in Pending /\ First(reads) \in Call /\ First(reads) \in executed
    BY <1>7, FirstPending DEF CollectFails, CallsInv, Pending
  <2>2. Says(Result(First(reads), "ran")) \/ UNCHANGED conversation
    BY <1>7, PushSays DEF CollectFails, logVars
  <2>3. Result(First(reads), "ran") \in TurnMessage
    BY <2>1, MessagesAreMessages
  <2> QED BY <1>7, <2>1, <2>2, <2>3, EndKeepsCalls DEF CollectFails, histVars, Result
<1>8. CASE RecordFails
  <2> DEFINE r == IF pc = "record" THEN "ran" ELSE "denied"
  <2>1. First(writes) \in writes /\ First(writes) \in Pending /\ First(writes) \in Call
    BY <1>8, FirstPending DEF RecordFails, Pending
  <2>2. Says(Result(First(writes), r)) \/ UNCHANGED conversation
    BY <1>8, PushSays DEF RecordFails, CallResult, logVars
  <2>3. r \in {"ran", "denied"} /\ (r = "ran" <=> First(writes) \in executed)
    BY <1>8, <2>1 DEF RecordFails, CallsInv
  <2>4. First(writes).tool \notin ReadOnly
    BY <2>1 DEF CallsInv
  <2> HIDE DEF r
  <2>5. Result(First(writes), r) \in TurnMessage
    BY <2>1, <2>3, MessagesAreMessages
  <2> QED BY <1>8, <2>1, <2>2, <2>3, <2>4, <2>5, EndKeepsCalls
          DEF RecordFails, histVars, Result
<1>9. CASE Crash
  BY <1>9, EndKeepsCalls DEF Crash, ProcessDies, histVars, Log!Crash
<1> QED
  BY <1>1, <1>2, <1>3, <1>4, <1>5, <1>6, <1>7, <1>8, <1>9, RepliesKeepCalls,
     ResultsKeepCalls, RunsKeepCalls, NoToolsIsReply
     DEF Next, UserNext, AgentStep, TurnStep

-----------------------------------------------------------------------------
LEMMA ConsentInvariant == Spec => []ConsentInv
  BY ConsentInit, ConsentStep, TurnInvariant, PTL DEF Spec

(* Where the calls of a turn stand.                                        *)
THEOREM CallsInvariant == Spec => []CallsInv
<1>1. Init => CallsInv
  BY CallsInit
<1> QED BY <1>1, CallsStep, TurnInvariant, TurnTypeCorrect, ConsentInvariant, PTL DEF Spec

(* What a result says is what happened.                                    *)
THEOREM ResultsTell == Spec => []ResultsAreTrue
<1>1. CallsInv => ResultsAreTrue
  BY DEF CallsInv
<1> QED BY <1>1, CallsInvariant, PTL

-----------------------------------------------------------------------------
(* How many calls can have run without a result.                           *)
LEMMA FewerUnrecorded ==
    ASSUME IsFiniteSet(executed), UNCHANGED executed, Answered \subseteq Answered'
    PROVE  /\ IsFiniteSet(Unrecorded) /\ IsFiniteSet(Unrecorded')
           /\ Cardinality(Unrecorded) \in Nat /\ Cardinality(Unrecorded') \in Nat
           /\ Cardinality(Unrecorded') <= Cardinality(Unrecorded)
<1>1. Unrecorded \subseteq executed /\ Unrecorded' \subseteq Unrecorded
  BY DEF Unrecorded
<1> QED BY <1>1, FS_Subset, FS_CardinalityType

(* Arithmetic of losses: x calls of which y are left, m losses that became n. *)
LEMMA NoMoreThan ==
    ASSUME NEW x \in Nat, NEW y \in Nat, NEW m \in Nat, NEW n \in Nat, NEW k \in Nat,
           y <= x, x <= m + k, n >= m
    PROVE  y <= n + k
  OBVIOUS

LEMMA OneMoreLoss ==
    ASSUME NEW x \in Nat, NEW y \in Nat, NEW m \in Nat, NEW n \in Nat,
           y <= x, x <= m + 1, n >= m + 1
    PROVE  y <= n
  OBVIOUS

LEMMA SumOfLosses ==
    ASSUME NEW c \in Nat, NEW f \in Nat
    PROVE  c + f \in Nat
  OBVIOUS

LEMMA MoreFaults ==
    ASSUME NEW c \in Nat, NEW f \in Nat, NEW g \in {f, f + 1}
    PROVE  c + g >= c + f
  OBVIOUS

LEMMA EffectsStep ==
    TypeOK /\ TurnInv /\ ConsentInv /\ CallsInv /\ EffectsInv /\ [Next]_vars => EffectsInv'
<1> SUFFICES ASSUME TypeOK, TurnInv, ConsentInv, CallsInv, EffectsInv, [Next]_vars
             PROVE  EffectsInv'
  OBVIOUS
<1>t. crashes \in Nat /\ faults \in Nat /\ IsFiniteSet(executed)
  BY TurnConstants DEF TurnInv, TurnTypeOK, EffectsInv
<1>u. Cardinality(Unrecorded) <= crashes + faults + (IF pc = "record" THEN 1 ELSE 0)
  BY DEF EffectsInv, EffectsAreRecorded, Unrecorded
<1>v. ASSUME IsFiniteSet(executed'), Cardinality(Unrecorded') \in Nat,
             crashes' \in Nat, faults' \in Nat,
             \/ Cardinality(Unrecorded') <= crashes' + faults'
             \/ pc' = "record" /\ Cardinality(Unrecorded') <= crashes' + faults' + 1
      PROVE  EffectsInv'
  <2>1. Cardinality(Unrecorded') <= crashes' + faults' + (IF pc' = "record" THEN 1 ELSE 0)
    BY <1>v
  <2> QED BY <1>v, <2>1 DEF EffectsInv, EffectsAreRecorded, Unrecorded
(* Steps that run nothing, and record, fail or die where a call has run.   *)
<1>1. ASSUME UNCHANGED executed, Answered \subseteq Answered',
             crashes' \in Nat, faults' \in Nat,
             crashes' + faults' >= crashes + faults,
             \/ pc # "record" \/ pc' = "record"
             \/ crashes' + faults' >= crashes + faults + 1
      PROVE  EffectsInv'
  <2>1. Cardinality(Unrecorded) \in Nat /\ Cardinality(Unrecorded') \in Nat
        /\ Cardinality(Unrecorded') <= Cardinality(Unrecorded)
    BY <1>t, <1>1, FewerUnrecorded
  <2>2. IsFiniteSet(executed')
    BY <1>t, <1>1
  <2> DEFINE x == Cardinality(Unrecorded)
             y == Cardinality(Unrecorded')
             m == crashes + faults
             n == crashes' + faults'
  <2>n. m \in Nat /\ n \in Nat
    <3>1. m \in Nat
      BY <1>t
    <3>2. crashes' \in Nat /\ faults' \in Nat
      BY <1>1
    <3>3. n \in Nat
      BY <3>2, SumOfLosses
    <3> QED BY <3>1, <3>3
  <2>x. x \in Nat /\ y \in Nat /\ y <= x /\ n >= m
    BY <1>1, <2>1
  <2>3. CASE pc # "record"
    <3>1. x <= m + 0
      BY <1>u, <2>3, <2>n, <2>x
    <3> HIDE DEF x, y, m, n
    <3>2. y <= n + 0
      BY <2>n, <2>x, <3>1, NoMoreThan
    <3>3. y <= n
      BY <2>n, <3>2
    <3> USE DEF x, y, m, n
    <3> QED BY <1>v, <1>1, <2>1, <2>2, <3>3
  <2>4. CASE pc = "record"
    <3>1. x <= m + 1
      BY <1>u, <2>4
    <3>2. CASE pc' = "record"
      <4> HIDE DEF x, y, m, n
      <4>1. y <= n + 1
        BY <2>n, <2>x, <3>1, NoMoreThan
      <4> USE DEF x, y, m, n
      <4> QED BY <1>v, <1>1, <2>1, <2>2, <3>2, <4>1
    <3>3. CASE pc' # "record"
      <4>1. n >= m + 1
        BY <1>1, <2>4, <3>3
      <4> HIDE DEF x, y, m, n
      <4>2. y <= n
        BY <2>n, <2>x, <3>1, <4>1, OneMoreLoss
      <4> USE DEF x, y, m, n
      <4> QED BY <1>v, <1>1, <2>1, <2>2, <4>2
    <3> QED BY <3>2, <3>3
  <2> QED BY <2>3, <2>4
<1>2. ASSUME NEW list, NEW m, Pushed(list, m) \/ SaveFails(list, m) \/ Fault
      PROVE  /\ faults' \in Nat /\ faults' \in {faults, faults + 1}
             /\ SaveFails(list, m) \/ Fault => faults' = faults + 1
  BY <1>t, <1>2 DEF Pushed, SaveFails, Fault
<1>3. ASSUME UNCHANGED conversation PROVE Answered' = Answered
  BY <1>3 DEF Answered
<1>4. ASSUME NEW m \in TurnMessage, Says(m) PROVE Answered \subseteq Answered'
  BY <1>4, Grown
<1>5. ASSUME NEW list \in Log!Lists, Prompt(list) \/ PromptFails(list) PROVE EffectsInv'
  <2> DEFINE m == [role |-> "user", turn |-> turn + 1]
  <2>1. m \in TurnMessage /\ Says(m) /\ faults' \in Nat /\ faults' \in {faults, faults + 1}
    BY <1>2, <1>5, MessagesAreMessages, PushSays DEF Prompt, PromptFails, NewTurn
  <2> HIDE DEF m
  <2> QED BY <1>t, <1>1, <1>4, <1>5, <2>1 DEF Prompt, PromptFails, NewTurn
<1>6. CASE \/ CompactCommand \/ UserStep \/ AutoAllow \/ Cancel \/ Resume \/ NoMorePrompts
           \/ UNCHANGED vars
  <2>1. UNCHANGED <<conversation, executed, crashes, faults, pc>>
    BY <1>6 DEF CompactCommand, UserStep, Answer, AutoAllow, Cancel, Resume, NoMorePrompts,
                vars, logVars, histVars, Log!Compact, Log!Resume
  <2> QED BY <1>t, <1>1, <1>3, <2>1
<1>7. CASE TopCancelled \/ RequestFails \/ CallCancelled
  BY <1>t, <1>1, <1>3, <1>7 DEF TopCancelled, RequestFails, CallCancelled, logVars, histVars
<1>8. CASE \/ \E over \in BOOLEAN : RouteModel(over)
           \/ Compacted \/ NotCompacted \/ NextCall \/ Decided \/ ChannelClosed
           \/ StartReads \/ EndRound
  BY <1>t, <1>1, <1>3, <1>8
     DEF RouteModel, Compacted, NotCompacted, NextCall, Decided, ChannelClosed, StartReads,
         EndRound, logVars, histVars, Log!Compact
<1>9. ASSUME NEW tools \in ToolNames,
             \/ \E broken \in BOOLEAN : ReplyInterrupted(tools, broken)
             \/ ReplyFails(tools) \/ ReplyCalls(tools)
             \/ ReplyText /\ tools = <<>>
      PROVE  EffectsInv'
  <2>1. Assistant(tools) \in TurnMessage
    BY <1>9, MessagesAreMessages DEF ReplyInterrupted, ReplyFails, ReplyCalls, ReplyText, Replied
  <2>2. Says(Assistant(tools)) \/ UNCHANGED conversation
    BY <1>9, PushSays
       DEF ReplyInterrupted, ReplyFails, ReplyCalls, ReplyText, logVars, Log!SaveUnpushed
  <2>3. pc = "request" /\ UNCHANGED <<executed, crashes>>
    BY <1>9 DEF ReplyInterrupted, ReplyFails, ReplyCalls, ReplyText, Replied, histVars
  <2>4. faults' \in Nat /\ faults' \in {faults, faults + 1}
    BY <1>2, <1>9 DEF ReplyInterrupted, ReplyFails, ReplyCalls, ReplyText
  <2>5. Answered \subseteq Answered'
    BY <1>3, <1>4, <2>1, <2>2
  <2>6. crashes' + faults' >= crashes + faults
    <3>1. crashes' = crashes /\ crashes \in Nat /\ faults \in Nat
      BY <1>t, <2>3
    <3>2. crashes + faults' >= crashes + faults
      BY <2>4, <3>1, MoreFaults
    <3> QED BY <3>1, <3>2
  <2> QED BY <1>t, <1>1, <2>3, <2>4, <2>5, <2>6
<1>10. CASE CollectRead \/ CollectFails
  <2>1. First(reads) \in Call /\ Result(First(reads), "ran") \in TurnMessage
    BY <1>10, FirstPending, MessagesAreMessages DEF CollectRead, CollectFails
  <2>2. Says(Result(First(reads), "ran")) \/ UNCHANGED conversation
    BY <1>10, PushSays DEF CollectRead, CollectFails, logVars
  <2>3. pc = "collect" /\ UNCHANGED <<executed, crashes>>
    BY <1>10 DEF CollectRead, CollectFails, histVars
  <2>4. faults' \in Nat /\ faults' \in {faults, faults + 1}
    BY <1>2, <1>10 DEF CollectRead, CollectFails
  <2>5. Answered \subseteq Answered'
    BY <1>3, <1>4, <2>1, <2>2
  <2>6. crashes' + faults' >= crashes + faults
    <3>1. crashes' = crashes /\ crashes \in Nat /\ faults \in Nat
      BY <1>t, <2>3
    <3>2. crashes + faults' >= crashes + faults
      BY <2>4, <3>1, MoreFaults
    <3> QED BY <3>1, <3>2
  <2> QED BY <1>t, <1>1, <2>3, <2>4, <2>5, <2>6
<1>11. CASE RecordFails
  <2>1. First(writes) \in Call /\ CallResult \in TurnMessage
    BY <1>11, FirstPending, MessagesAreMessages DEF RecordFails, CallResult
  <2>2. Says(CallResult) \/ UNCHANGED conversation
    BY <1>11, PushSays DEF RecordFails, logVars
  <2>3. UNCHANGED <<executed, crashes>> /\ faults' = faults + 1
    BY <1>2, <1>11 DEF RecordFails, histVars
  <2>4. Answered \subseteq Answered'
    BY <1>3, <1>4, <2>1, <2>2
  <2> QED BY <1>t, <1>1, <2>3, <2>4
<1>12. CASE Crash
  <2>1. UNCHANGED <<executed, faults, conversation>> /\ crashes' = crashes + 1
    BY <1>12 DEF Crash, ProcessDies, histVars, Log!Crash
  <2> QED BY <1>t, <1>1, <1>3, <2>1
(* A call runs: it is the one to be recorded.                              *)
<1>13. CASE Execute
  <2> DEFINE c == First(writes)
  <2>1. /\ pc = "exec" /\ pc' = "record" /\ executed' = executed \cup {c}
        /\ UNCHANGED <<conversation, crashes, faults>>
    BY <1>13 DEF Execute, Goto, logVars
  <2> HIDE DEF c
  <2>2. Unrecorded' \subseteq Unrecorded \cup {c} /\ IsFiniteSet(executed')
    BY <1>t, <1>3, <2>1, FS_AddElement DEF Unrecorded
  <2>3. IsFiniteSet(Unrecorded)
    BY <1>t, FS_Subset DEF Unrecorded
  <2>4. /\ IsFiniteSet(Unrecorded \cup {c}) /\ Cardinality(Unrecorded) \in Nat
        /\ Cardinality(Unrecorded \cup {c}) \in
               {Cardinality(Unrecorded), Cardinality(Unrecorded) + 1}
    BY <2>3, FS_AddElement, FS_CardinalityType
  <2>5. /\ Cardinality(Unrecorded') <= Cardinality(Unrecorded \cup {c})
        /\ Cardinality(Unrecorded') \in Nat
    BY <2>2, <2>4, FS_Subset, FS_CardinalityType
  <2>6. Cardinality(Unrecorded') <= crashes' + faults' + 1
    BY <1>t, <1>u, <2>1, <2>4, <2>5
  <2> QED BY <2>1, <2>2, <2>6 DEF EffectsInv, EffectsAreRecorded, Unrecorded
<1>14. CASE ReadStep
  <2>1. PICK c \in running : FinishRead(c)
    BY <1>14 DEF ReadStep
  <2>2. executed' = executed \cup {c} /\ UNCHANGED <<conversation, crashes, faults, pc>>
    BY <2>1 DEF FinishRead, logVars
  <2>3. c.tool \in ReadOnly /\ IsFiniteSet(executed')
    BY <1>t, <2>2, FS_AddElement DEF ConsentInv
  <2>4. Unrecorded' = Unrecorded
    BY <1>3, <2>2, <2>3 DEF Unrecorded
  <2> QED BY <1>u, <2>2, <2>3, <2>4 DEF EffectsInv, EffectsAreRecorded, Unrecorded
(* Its result is said: one fewer.                                          *)
<1>15. CASE RecordResult
  <2> DEFINE c == First(writes)
  <2>1. c \in writes /\ c \in Call /\ CallResult \in TurnMessage
        /\ CallResult.role = "tool" /\ CallResult.call = c
    BY <1>15, FirstPending, MessagesAreMessages DEF RecordResult, CallResult, Result
  <2>2. /\ Says(CallResult) /\ faults' \in Nat /\ faults' \in {faults, faults + 1}
        /\ pc \in {"record", "deny"} /\ pc' = "mutate" /\ UNCHANGED <<executed, crashes>>
    BY <1>2, <1>15, PushSays DEF RecordResult, Goto, histVars
  <2>3. c \notin Answered /\ c.tool \notin ReadOnly /\ (pc = "record" => c \in executed)
    BY <2>1 DEF CallsInv, Pending
  <2> HIDE DEF c
  <2>4. Answered' = Answered \cup {c}
    BY <2>1, <2>2, Grown
  <2>5. CASE pc = "deny"
    <3>1. crashes' + faults' >= crashes + faults
      <4>1. crashes' = crashes /\ crashes \in Nat /\ faults \in Nat
        BY <1>t, <2>2
      <4>2. crashes + faults' >= crashes + faults
        BY <2>2, <4>1, MoreFaults
      <4> QED BY <4>1, <4>2
    <3> QED BY <1>t, <1>1, <2>2, <2>4, <2>5, <3>1
  <2>6. CASE pc = "record"
    <3>1. c \in Unrecorded /\ Unrecorded' = Unrecorded \ {c}
      BY <2>2, <2>3, <2>4, <2>6 DEF Unrecorded
    <3>2. IsFiniteSet(Unrecorded)
      BY <1>t, FS_Subset DEF Unrecorded
    <3>3. /\ Cardinality(Unrecorded') = Cardinality(Unrecorded) - 1
          /\ Cardinality(Unrecorded) \in Nat
      BY <3>1, <3>2, FS_RemoveElement, FS_CardinalityType
    <3>4. Cardinality(Unrecorded') <= crashes' + faults'
      BY <1>t, <1>u, <2>2, <2>6, <3>3
    <3>5. Cardinality(Unrecorded') <= crashes' + faults' + (IF pc' = "record" THEN 1 ELSE 0)
      BY <1>t, <2>2, <3>4
    <3> QED BY <1>t, <2>2, <3>5 DEF EffectsInv, EffectsAreRecorded, Unrecorded
  <2> QED BY <2>2, <2>5, <2>6
<1> HIDE DEF EffectsInv
<1> QED
  BY <1>5, <1>6, <1>7, <1>8, <1>9, <1>10, <1>11, <1>12, <1>13, <1>14, <1>15, NoToolsIsReply
     DEF Next, UserNext, AgentStep, TurnStep

(* A call that has run and left no result was lost to a crash or a failed  *)
(* statement, one each at most, or is the one being recorded.              *)
THEOREM Effects == Spec => []EffectsAreRecorded
<1>1. Init => EffectsInv
  BY CallsInit
<1>2. EffectsInv => EffectsAreRecorded
  BY DEF EffectsInv
<1> QED BY <1>1, <1>2, EffectsStep, CallsInvariant, TurnInvariant, TurnTypeCorrect,
           ConsentInvariant, PTL DEF Spec

-----------------------------------------------------------------------------
(* What a step says: nothing, a prompt or reply of the turn, or the result *)
(* of the call that is first in line.                                      *)
NextInLine(c) ==
    /\ c \in Pending
    /\ \/ pc = "collect" /\ c \in reads /\ c = First(reads)
       \/ pc \in {"record", "deny"} /\ c \in writes /\ c = First(writes)

SaysResult(c, r) ==
    /\ NextInLine(c) /\ c \in Call /\ r \in {"ran", "denied"}
    /\ Result(c, r) \in TurnMessage /\ Says(Result(c, r))
    /\ UNCHANGED <<turn, round>>

SaysTurn(m) == m \in TurnMessage /\ m.role # "tool" /\ m.turn = turn' /\ Says(m)

LEMMA StepSays ==
    ASSUME TypeOK, TurnInv, ConsentInv, CallsInv, [Next]_vars
    PROVE  \/ UNCHANGED <<conversation, turn>>
           \/ \E m : SaysTurn(m) /\ turn' \in {turn, turn + 1}
           \/ \E c \in Pending, r \in {"ran", "denied"} : SaysResult(c, r)
<1> DEFINE Goal == \/ UNCHANGED <<conversation, turn>>
                   \/ \E m : SaysTurn(m) /\ turn' \in {turn, turn + 1}
                   \/ \E c \in Pending, r \in {"ran", "denied"} : SaysResult(c, r)
<1> SUFFICES Goal
  OBVIOUS
<1>1. ASSUME NEW list \in Log!Lists, Prompt(list) \/ PromptFails(list) PROVE Goal
  <2> DEFINE m == [role |-> "user", turn |-> turn + 1]
  <2>1. /\ m \in TurnMessage /\ Says(m) /\ turn' = turn + 1
        /\ m.role = "user" /\ m.turn = turn + 1
    BY <1>1, MessagesAreMessages, PushSays DEF Prompt, PromptFails, NewTurn
  <2> HIDE DEF m
  <2> QED BY <2>1 DEF SaysTurn
<1>2. ASSUME NEW tools \in ToolNames,
             \/ \E broken \in BOOLEAN : ReplyInterrupted(tools, broken)
             \/ ReplyFails(tools) \/ ReplyCalls(tools)
             \/ ReplyText /\ tools = <<>>
      PROVE  Goal
  <2>1. Assistant(tools) \in TurnMessage /\ turn' = turn
    BY <1>2, MessagesAreMessages DEF ReplyInterrupted, ReplyFails, ReplyCalls, ReplyText, Replied
  <2>2. Says(Assistant(tools)) \/ UNCHANGED conversation
    BY <1>2, PushSays
       DEF ReplyInterrupted, ReplyFails, ReplyCalls, ReplyText, logVars, Log!SaveUnpushed
  <2>3. Assistant(tools).role = "assistant" /\ Assistant(tools).turn = turn
    BY DEF Assistant
  <2> QED BY <2>1, <2>2, <2>3 DEF SaysTurn
<1>3. CASE CollectRead \/ CollectFails
  <2>1. /\ First(reads) \in reads /\ First(reads) \in Call /\ pc = "collect"
        /\ First(reads) \in Pending /\ UNCHANGED <<turn, round>>
    BY <1>3, FirstPending DEF CollectRead, CollectFails, Pending
  <2>2. Says(Result(First(reads), "ran")) \/ UNCHANGED conversation
    BY <1>3, PushSays DEF CollectRead, CollectFails, logVars
  <2>3. Result(First(reads), "ran") \in TurnMessage
    BY <2>1, MessagesAreMessages
  <2> QED BY <2>1, <2>2, <2>3 DEF SaysResult, NextInLine
<1>4. CASE RecordResult \/ RecordFails
  <2> DEFINE r == IF pc = "record" THEN "ran" ELSE "denied"
  <2>1. /\ First(writes) \in writes /\ First(writes) \in Call /\ pc \in {"record", "deny"}
        /\ First(writes) \in Pending /\ UNCHANGED <<turn, round>>
    BY <1>4, FirstPending DEF RecordResult, RecordFails, Pending
  <2>2. (Says(Result(First(writes), r)) \/ UNCHANGED conversation) /\ r \in {"ran", "denied"}
    BY <1>4, PushSays DEF RecordResult, RecordFails, CallResult, logVars
  <2> HIDE DEF r
  <2>3. Result(First(writes), r) \in TurnMessage
    BY <2>1, <2>2, MessagesAreMessages
  <2> QED BY <2>1, <2>2, <2>3 DEF SaysResult, NextInLine
<1>5. ASSUME UNCHANGED <<conversation, turn>> PROVE Goal
  BY <1>5
<1> HIDE DEF Goal
<1>6. CASE \/ CompactCommand \/ UserStep \/ ReadStep \/ AutoAllow \/ Cancel \/ Crash \/ Resume
           \/ NoMorePrompts \/ UNCHANGED vars
  BY <1>6, <1>5
     DEF CompactCommand, UserStep, Answer, ReadStep, FinishRead, AutoAllow, Cancel, Crash,
         ProcessDies, Resume, NoMorePrompts, vars, logVars, Log!Compact, Log!Resume, Log!Crash
<1>7. CASE \/ TopCancelled \/ (\E over \in BOOLEAN : RouteModel(over))
           \/ Compacted \/ NotCompacted \/ RequestFails \/ StartReads \/ EndRound
           \/ CallCancelled \/ NextCall \/ Decided \/ ChannelClosed \/ Execute
  BY <1>7, <1>5
     DEF TopCancelled, RouteModel, Compacted, NotCompacted, RequestFails, StartReads, EndRound,
         CallCancelled, NextCall, Decided, ChannelClosed, Execute, logVars, Log!Compact
<1>8. CASE ReplyText
  BY <1>2, <1>8, NoToolsIsReply
<1>9. ASSUME NEW tools \in ToolNames,
             (\E broken \in BOOLEAN : ReplyInterrupted(tools, broken))
                \/ ReplyFails(tools) \/ ReplyCalls(tools)
      PROVE  Goal
  BY <1>2, <1>9
<1>10. Goal
  <2>1. CASE AgentStep
    BY <1>3, <1>4, <1>7, <1>8, <1>9, <2>1 DEF AgentStep, TurnStep
  <2> QED BY <1>1, <1>6, <2>1 DEF Next, UserNext, AgentStep
<1> QED BY <1>10

-----------------------------------------------------------------------------
(* Nothing that is said changes which reply an earlier result follows.     *)
LEMMA FollowsStays ==
    ASSUME TypeOK, NEW m \in TurnMessage, Says(m),
           NEW p \in DOMAIN conversation, NEW a \in DOMAIN conversation
    PROVE  /\ Follows(a, p) => Follows(a, p)'
           /\ Answerable(a)' = Answerable(a)
           /\ \A q \in a + 1 .. p : conversation'[q] = conversation[q]
<1>1. \A q \in 1 .. p : q \in DOMAIN conversation /\ conversation'[q] = conversation[q]
  BY SessionTypes, Grown
<1>2. conversation'[a] = conversation[a]
  BY Grown
<1>3. p \in Nat /\ a \in Nat /\ a >= 1
  BY SessionTypes
<1>4. \A q \in a + 1 .. p : conversation'[q] = conversation[q]
  BY <1>1, <1>3
<1>5. Answerable(a)' = Answerable(a)
  BY <1>2 DEF Answerable
<1>6. ASSUME Follows(a, p) PROVE Follows(a, p)'
  <2>1. conversation'[p] = conversation[p]
    BY Grown
  <2>2. \A q \in a + 1 .. p - 1 : q \in a + 1 .. p
    BY <1>3
  <2>3. {conversation'[q].call : q \in a + 1 .. p - 1}
          = {conversation[q].call : q \in a + 1 .. p - 1}
    BY <1>4, <2>2
  <2> QED BY <1>2, <1>4, <1>5, <1>6, <2>1, <2>3 DEF Follows
<1> QED BY <1>4, <1>5, <1>6

(* The call first in line comes before the others that wait, and after no  *)
(* other.                                                                  *)
LEMMA LineIsOrdered ==
    ASSUME TypeOK, TurnInv, ConsentInv, CallsInv, NEW c, NextInLine(c), NEW d \in Pending, d # c
    PROVE  AnsweredBefore(c, d) /\ ~AnsweredBefore(d, c)
<1>1. c.index # d.index /\ c \in Pending
  BY DEF CallsInv, NextInLine
<1>2. c.index \in Nat /\ d.index \in Nat
  BY <1>1, TurnConstants DEF TurnInv, TurnTypeOK, Pending, Call
<1>3. CASE c \in reads /\ c = First(reads) /\ pc = "collect"
  <2>1. c.tool \in ReadOnly
    BY <1>3 DEF ConsentInv
  <2>2. CASE d \in reads
    <3>1. d.tool \in ReadOnly
      BY <2>2 DEF ConsentInv
    <3>2. c.index <= d.index
      BY <1>3, <2>2, FirstIsIn DEF TurnInv, TurnTypeOK
    <3> QED BY <1>1, <1>2, <2>1, <3>1, <3>2 DEF AnsweredBefore
  <2>3. CASE d \in writes
    <3>1. d.tool \notin ReadOnly
      BY <2>3 DEF CallsInv
    <3> QED BY <2>1, <3>1 DEF AnsweredBefore
  <2> QED BY <2>2, <2>3 DEF Pending
<1>4. CASE c \in writes /\ c = First(writes) /\ pc \in {"record", "deny"}
  <2>1. d \in writes
    BY <1>4 DEF CallsInv, Pending
  <2>2. c.tool \notin ReadOnly /\ d.tool \notin ReadOnly
    BY <1>4, <2>1 DEF CallsInv
  <2>3. c.index <= d.index
    BY <1>4, <2>1, FirstIsIn DEF TurnInv, TurnTypeOK
  <2> QED BY <1>1, <1>2, <2>2, <2>3 DEF AnsweredBefore
<1> QED BY <1>3, <1>4 DEF NextInLine

(* The result of the call first in line follows the reply that made it.    *)
LEMMA ResultFollows ==
    ASSUME TypeOK, TurnInv, ConsentInv, CallsInv, NEW a \in DOMAIN conversation, Standing(a),
           NEW c \in Pending, NEW r \in {"ran", "denied"}, SaysResult(c, r)
    PROVE  /\ Follows(a, Len(conversation))'
           /\ conversation'[a] = conversation[a] /\ Answerable(a)' = Answerable(a)
           /\ \A q \in a + 1 .. Len(conversation') : conversation'[q].role = "tool"
           /\ {conversation'[q].call : q \in a + 1 .. Len(conversation')} =
              {conversation[q].call : q \in a + 1 .. Len(conversation)} \cup {c}
<1> DEFINE n == Len(conversation)
           said == {conversation[q].call : q \in a + 1 .. n}
<1>1. /\ n \in Nat /\ a \in 1 .. n /\ n \in DOMAIN conversation
  BY SessionTypes
<1>2. /\ Result(c, r) \in TurnMessage /\ Says(Result(c, r))
      /\ Result(c, r).role = "tool" /\ Result(c, r).call = c
  BY DEF SaysResult, Result
<1>3. /\ Len(conversation') = n + 1 /\ conversation'[n + 1].role = "tool"
      /\ conversation'[n + 1].call = c /\ conversation'[a] = conversation[a]
  BY <1>2, Grown
<1>4. /\ Answerable(a)' = Answerable(a)
      /\ \A q \in a + 1 .. n : conversation'[q] = conversation[q]
  BY <1>1, <1>2, FollowsStays
<1>5. \A q \in a + 1 .. n : conversation[q].role = "tool"
  BY DEF Standing
<1>6. a \in 1 .. n + 1 /\ n + 1 - 1 = n
      /\ \A q : q \in a + 1 .. n + 1 <=> (q \in a + 1 .. n \/ q = n + 1)
  BY <1>1
<1>7. said \cup Pending = Answerable(a) /\ \A e \in said, d \in Pending : AnsweredBefore(e, d)
  BY DEF Standing
<1>8. {conversation'[q].call : q \in a + 1 .. n} = said
  BY <1>4
<1>9. said = {e \in Answerable(a) : AnsweredBefore(e, c)}
  <2> HIDE DEF said
  <2>1. ~AnsweredBefore(c, c)
    <3>1. c.index \in Nat
      BY TurnConstants DEF SaysResult, Call
    <3>2. ~(c.index < c.index)
      BY <3>1
    <3> QED BY <3>2 DEF AnsweredBefore
  <2>2. \A d \in Pending : ~AnsweredBefore(d, c)
    BY <2>1, LineIsOrdered DEF SaysResult
  <2> QED BY <1>7, <2>2
<1>10. \A q \in a + 1 .. n + 1 : conversation'[q].role = "tool"
  BY <1>3, <1>4, <1>5, <1>6
<1>11. {conversation'[q].call : q \in a + 1 .. n + 1} = said \cup {c}
  BY <1>3, <1>6, <1>8
<1>12. conversation'[a].role = "assistant"
  BY <1>3 DEF Standing
<1>13. c \in Answerable(a)'
  BY <1>4, <1>7
<1>14. {conversation'[q].call : q \in a + 1 .. n + 1 - 1} =
       {e \in Answerable(a)' : AnsweredBefore(e, conversation'[n + 1].call)}
  BY <1>3, <1>4, <1>6, <1>8, <1>9
<1> HIDE DEF said
<1>15. Follows(a, Len(conversation))'
  BY <1>3, <1>6, <1>10, <1>12, <1>13, <1>14 DEF Follows
<1> QED BY <1>3, <1>4, <1>10, <1>11, <1>15

(* The call whose result is said waits no longer.                          *)
LEMMA ResultLeaves ==
    ASSUME TypeOK, TurnInv, ConsentInv, CallsInv, CollectRead \/ RecordResult
    PROVE  \E c \in Pending, r \in {"ran", "denied"} :
              SaysResult(c, r) /\ Pending' = Pending \ {c}
<1>1. reads \cap writes = {} /\ UNCHANGED <<turn, round>>
  BY FirstPending DEF CollectRead, RecordResult
<1>2. CASE CollectRead
  <2>1. /\ First(reads) \in reads /\ First(reads) \in Call /\ pc = "collect"
        /\ Says(Result(First(reads), "ran"))
        /\ reads' = reads \ {First(reads)} /\ writes' = writes
    BY <1>2, FirstPending, PushSays DEF CollectRead
  <2>2. /\ First(reads) \in Pending /\ Pending' = Pending \ {First(reads)}
        /\ Result(First(reads), "ran") \in TurnMessage
    BY <1>1, <2>1, MessagesAreMessages DEF Pending
  <2> QED BY <1>1, <2>1, <2>2 DEF SaysResult, NextInLine
<1>3. CASE RecordResult
  <2> DEFINE r == IF pc = "record" THEN "ran" ELSE "denied"
  <2>1. /\ First(writes) \in writes /\ First(writes) \in Call /\ pc \in {"record", "deny"}
        /\ Says(Result(First(writes), r)) /\ r \in {"ran", "denied"}
        /\ writes' = writes \ {First(writes)} /\ reads' = reads
    BY <1>3, FirstPending, PushSays DEF RecordResult, CallResult
  <2> HIDE DEF r
  <2>2. /\ First(writes) \in Pending /\ Pending' = Pending \ {First(writes)}
        /\ Result(First(writes), r) \in TurnMessage
    BY <1>1, <2>1, MessagesAreMessages DEF Pending
  <2> QED BY <1>1, <2>1, <2>2 DEF SaysResult, NextInLine
<1> QED BY <1>2, <1>3

LEMMA FollowStep ==
    TypeOK /\ TurnInv /\ ConsentInv /\ CallsInv /\ OrderInv /\ [Next]_vars => FollowInv'
<1> SUFFICES ASSUME TypeOK, TurnInv, ConsentInv, CallsInv, OrderInv, [Next]_vars
             PROVE  FollowInv'
  OBVIOUS
<1>1. FollowInv /\ StandInv
  BY DEF OrderInv
<1>2. turn \in Nat /\ \A p \in DOMAIN conversation :
         conversation[p].role = "assistant" => conversation[p].turn \in Nat
  <2>1. \A m \in TurnMessage : m.role = "assistant" => m.turn \in Nat
    BY TurnConstants DEF TurnMessage, UserMessage, AssistantMessage, ToolMessage
  <2> QED BY <2>1, SessionTypes, TurnConstants DEF TurnInv, TurnTypeOK
<1>3. CASE UNCHANGED <<conversation, turn>>
  BY <1>1, <1>3 DEF FollowInv, Follows, Answerable
<1>4. ASSUME NEW m \in TurnMessage, Says(m), turn' \in {turn, turn + 1},
             m.role = "assistant" => m.turn <= turn',
             m.role = "tool" => \E a \in DOMAIN conversation : Follows(a, Len(conversation))'
      PROVE  FollowInv'
  <2>n. PICK n : n = Len(conversation')
    OBVIOUS
  <2>1. /\ DOMAIN conversation' = DOMAIN conversation \cup {n} /\ conversation'[n] = m
        /\ \A p \in DOMAIN conversation : conversation'[p] = conversation[p]
    BY <1>4, <2>n, Grown
  <2>2. \A p, a \in DOMAIN conversation : Follows(a, p) => Follows(a, p)'
    BY <1>4, FollowsStays
  <2>3. m.role = "tool" => \E a \in DOMAIN conversation : Follows(a, n)'
    BY <1>4, <2>n
  <2>4. ASSUME NEW p \in DOMAIN conversation', conversation'[p].role = "tool"
        PROVE  \E a \in DOMAIN conversation' : Follows(a, p)'
    <3>1. CASE p = n
      BY <2>1, <2>3, <2>4, <3>1
    <3>2. CASE p \in DOMAIN conversation
      <4>1. PICK a \in DOMAIN conversation : Follows(a, p)
        BY <1>1, <2>1, <2>4, <3>2 DEF FollowInv
      <4>2. Follows(a, p)'
        BY <2>2, <3>2, <4>1
      <4> QED BY <2>1, <4>2
    <3> QED BY <2>1, <3>1, <3>2
  <2>5. ASSUME NEW p \in DOMAIN conversation', conversation'[p].role = "assistant"
        PROVE  conversation'[p].turn <= turn'
    <3>1. CASE p = n
      BY <1>4, <2>1, <2>5, <3>1
    <3>2. CASE p \in DOMAIN conversation
      <4>1. conversation[p].turn <= turn /\ conversation[p].turn \in Nat
        BY <1>1, <1>2, <2>1, <2>5, <3>2 DEF FollowInv
      <4> QED BY <1>2, <1>4, <2>1, <3>2, <4>1
    <3> QED BY <2>1, <3>1, <3>2
  <2> QED BY <2>4, <2>5 DEF FollowInv
<1>5. CASE \E m : SaysTurn(m) /\ turn' \in {turn, turn + 1}
  <2>1. PICK m : SaysTurn(m) /\ turn' \in {turn, turn + 1}
    BY <1>5
  <2> QED BY <1>2, <1>4, <2>1 DEF SaysTurn
<1>6. CASE \E c \in Pending, r \in {"ran", "denied"} : SaysResult(c, r)
  <2>1. PICK c \in Pending, r \in {"ran", "denied"} : SaysResult(c, r)
    BY <1>6
  <2>2. PICK a \in DOMAIN conversation : Standing(a)
    BY <1>1, <2>1 DEF StandInv, SaysResult, NextInLine, InRound
  <2>3. Follows(a, Len(conversation))'
    BY <2>1, <2>2, ResultFollows
  <2>4. /\ Result(c, r) \in TurnMessage /\ Result(c, r).role = "tool"
        /\ Says(Result(c, r)) /\ turn' = turn
    BY <2>1 DEF SaysResult, Result
  <2> QED BY <1>4, <2>3, <2>4
<1> QED BY <1>3, <1>5, <1>6, StepSays

(* A step that leaves the line of waiting calls as it is.                  *)
LEMMA SameLineStands ==
    ASSUME UNCHANGED <<conversation, turn, round>>, UNCHANGED Pending, StandInv,
           pc \in InRound, pc = "mutate" => ~cancel
    PROVE  StandInv'
  BY DEF StandInv, Standing, Answerable

(* A reply with calls: these are the calls that wait.                      *)
LEMMA ReplyStands ==
    ASSUME TypeOK, TurnInv, CallsInv, NEW tools \in ToolNames, ReplyCalls(tools)
    PROVE  /\ Assistant(tools) \in TurnMessage /\ Says(Assistant(tools)) /\ pc = "request"
           /\ UNCHANGED <<turn, round, cancel>> /\ pc' = "reads" /\ outcome' = outcome /\ ~cancel
           /\ Pending = {} /\ Pending' = CallsOf(tools)
           /\ Answerable(Len(conversation))' = CallsOf(tools)
           /\ Standing(Len(conversation))'
<1>1. /\ pc = "request" /\ ~cancel /\ pc' = "reads" /\ UNCHANGED <<turn, round, cancel, outcome>>
      /\ Says(Assistant(tools)) /\ round <= MaxRounds
      /\ reads' = {c \in CallsOf(tools) : c.tool \in ReadOnly}
      /\ writes' = {c \in CallsOf(tools) : c.tool \notin ReadOnly}
      /\ tools # <<>>
  BY PushSays DEF ReplyCalls, Replied, Goto
<1>2. Pending' = CallsOf(tools) /\ Pending = {}
  <2>1. Pending = {}
    BY <1>1 DEF CallsInv, InRound
  <2>2. Pending' = CallsOf(tools)
    BY <1>1 DEF Pending
  <2> QED BY <2>1, <2>2
<1>3. /\ Assistant(tools) \in TurnMessage
      /\ Assistant(tools).role = "assistant" /\ Assistant(tools).turn = turn
      /\ Assistant(tools).round = round /\ Assistant(tools).tools = tools
  BY <1>1, MessagesAreMessages DEF Assistant
<1>4. CallsOf(tools) \subseteq Call
  BY <1>1, CallsAreCalls DEF TurnInv, Progress
<1>5. PICK n : n = Len(conversation')
  OBVIOUS
<1>6. conversation'[n] = Assistant(tools) /\ n \in Nat
  BY <1>1, <1>3, <1>5, Grown, SessionTypes
<1>7. Answerable(n)' = CallsOf(tools)
  <2>1. ASSUME NEW c \in Call, c.turn = turn, c.round = round, c.index \in DOMAIN tools,
               c.tool = tools[c.index]
        PROVE  c \in CallsOf(tools)
    <3>1. c = [turn |-> c.turn, round |-> c.round, index |-> c.index, tool |-> c.tool]
      BY DEF Call
    <3>2. c = [turn |-> turn, round |-> round, index |-> c.index, tool |-> tools[c.index]]
      BY <2>1, <3>1
    <3> QED BY <2>1, <3>2 DEF CallsOf
  <2>2. ASSUME NEW c \in CallsOf(tools)
        PROVE  /\ c \in Call /\ c.turn = turn /\ c.round = round
               /\ c.index \in DOMAIN tools /\ c.tool = tools[c.index]
    BY <1>4 DEF CallsOf
  <2> QED BY <1>1, <1>3, <1>6, <2>1, <2>2 DEF Answerable
<1>8. \A q : q \notin n + 1 .. n
  BY <1>6
<1>9. {conversation'[q].call : q \in n + 1 .. n} = {}
  BY <1>8
<1>10. Standing(n)'
  BY <1>1, <1>2, <1>3, <1>5, <1>6, <1>7, <1>8, <1>9 DEF Standing
<1> QED BY <1>1, <1>2, <1>3, <1>5, <1>7, <1>10

LEMMA StandStep ==
    TypeOK /\ TurnInv /\ ConsentInv /\ CallsInv /\ OrderInv /\ [Next]_vars => StandInv'
<1> SUFFICES ASSUME TypeOK, TurnInv, ConsentInv, CallsInv, OrderInv, [Next]_vars
             PROVE  StandInv'
  OBVIOUS
<1>1. StandInv
  BY DEF OrderInv
<1>2. ASSUME pc' \notin InRound PROVE StandInv'
  BY <1>2 DEF StandInv
<1>3. ASSUME NEW list \in Log!Lists, Prompt(list) \/ PromptFails(list) PROVE StandInv'
  BY <1>2, <1>3 DEF Prompt, PromptFails, EndTurn, InRound
<1>4. CASE \/ TopCancelled \/ RequestFails \/ CollectFails \/ CallCancelled \/ RecordFails
           \/ (\E over \in BOOLEAN : RouteModel(over)) \/ Compacted \/ NotCompacted
           \/ EndRound \/ Crash
  BY <1>2, <1>4
     DEF TopCancelled, RequestFails, CollectFails, CallCancelled, RecordFails, RouteModel,
         Compacted, NotCompacted, EndRound, Crash, ProcessDies, EndTurn, Goto, InRound
<1>5. ASSUME NEW tools \in ToolNames,
             \/ \E broken \in BOOLEAN : ReplyInterrupted(tools, broken)
             \/ ReplyFails(tools) \/ ReplyText
      PROVE  StandInv'
  BY <1>2, <1>5 DEF ReplyInterrupted, ReplyFails, ReplyText, EndTurn, InRound
<1>6. ASSUME NEW tools \in ToolNames, ReplyCalls(tools) PROVE StandInv'
  <2>1. PICK n : n = Len(conversation')
    OBVIOUS
  <2>2. Standing(n)'
    BY <1>6, <2>1, ReplyStands
  <2>3. n \in DOMAIN conversation'
    BY <1>6, <2>1, ReplyStands, Grown, SessionTypes
  <2> QED BY <2>2, <2>3 DEF StandInv
<1>7. CASE CompactCommand \/ UserStep \/ ReadStep \/ AutoAllow \/ Cancel \/ Resume
           \/ NoMorePrompts \/ UNCHANGED vars
  <2>1. UNCHANGED <<conversation, turn, round, reads, writes, pc>>
    BY <1>7 DEF CompactCommand, UserStep, Answer, ReadStep, FinishRead, AutoAllow, Cancel, Resume,
                NoMorePrompts, vars, logVars, callVars, Log!Compact, Log!Resume
  <2>2. UNCHANGED Pending
    BY <2>1 DEF Pending
  <2>3. cancel => cancel'
    BY <1>7 DEF CompactCommand, UserStep, Answer, ReadStep, FinishRead, AutoAllow, Cancel, Resume,
                NoMorePrompts, vars
  <2>4. CASE pc' \in InRound /\ (pc' = "mutate" => ~cancel')
    BY <1>1, <2>1, <2>2, <2>3, <2>4, SameLineStands
  <2> QED BY <2>4 DEF StandInv
<1>8. CASE NextCall \/ Decided \/ ChannelClosed \/ Execute
  <2>1. /\ UNCHANGED <<conversation, turn, round>> /\ UNCHANGED Pending
        /\ pc \in InRound /\ (pc = "mutate" => ~cancel)
    BY <1>8 DEF NextCall, Decided, ChannelClosed, Execute, logVars, callVars, Pending, InRound
  <2> QED BY <1>1, <2>1, SameLineStands
<1>9. CASE StartReads
  <2>1. /\ UNCHANGED <<conversation, turn, round, writes, cancel>> /\ pc = "reads"
        /\ reads' = reads \/ (pc' = "mutate" /\ cancel)
    BY <1>9 DEF StartReads, logVars, Goto
  <2>2. CASE reads' = reads
    <3>1. UNCHANGED Pending /\ pc \in InRound
      BY <2>1, <2>2 DEF Pending, InRound
    <3> QED BY <1>1, <2>1, <3>1, SameLineStands
  <2>3. CASE pc' = "mutate" /\ cancel
    BY <2>1, <2>3 DEF StandInv
  <2> QED BY <2>1, <2>2, <2>3
<1>10. CASE CollectRead \/ RecordResult
  <2>1. PICK c \in Pending, r \in {"ran", "denied"} :
           SaysResult(c, r) /\ Pending' = Pending \ {c}
    BY <1>10, ResultLeaves
  <2>2. PICK a \in DOMAIN conversation : Standing(a)
    BY <1>1, <2>1 DEF StandInv, SaysResult, NextInLine, InRound
  <2> DEFINE said == {conversation[q].call : q \in a + 1 .. Len(conversation)}
  <2>3. /\ conversation'[a] = conversation[a] /\ Answerable(a)' = Answerable(a)
        /\ \A q \in a + 1 .. Len(conversation') : conversation'[q].role = "tool"
        /\ {conversation'[q].call : q \in a + 1 .. Len(conversation')} = said \cup {c}
    BY <2>1, <2>2, ResultFollows
  <2>4. /\ said \cup Pending = Answerable(a)
        /\ \A e \in said, d \in Pending : AnsweredBefore(e, d)
    BY <2>2 DEF Standing
  <2>5. \A d \in Pending' : AnsweredBefore(c, d)
    BY <2>1, LineIsOrdered DEF SaysResult
  <2> HIDE DEF said
  <2>6. (said \cup {c}) \cup Pending' = Answerable(a)'
    BY <2>1, <2>3, <2>4
  <2>7. \A e \in said \cup {c}, d \in Pending' : AnsweredBefore(e, d)
    BY <2>1, <2>4, <2>5
  <2>8. \A q \in a + 1 .. Len(conversation'), d \in Pending' :
           AnsweredBefore(conversation'[q].call, d)
    BY <2>3, <2>7
  <2>9. turn' = turn /\ round' = round
    BY <2>1 DEF SaysResult
  <2>10. Standing(a)'
    BY <2>2, <2>3, <2>6, <2>8, <2>9 DEF Standing
  <2>11. a \in DOMAIN conversation'
    BY <2>1, Grown DEF SaysResult
  <2> QED BY <2>10, <2>11 DEF StandInv
<1>11. CASE AgentStep
  BY <1>4, <1>5, <1>6, <1>8, <1>9, <1>10, <1>11, NoToolsIsReply DEF AgentStep, TurnStep
<1> QED BY <1>3, <1>4, <1>7, <1>11 DEF Next, UserNext, AgentStep

(* What is answered stays answered, and a result moves its call there.     *)
LEMMA AnsweredGrows ==
    ASSUME TypeOK, TurnInv, ConsentInv, CallsInv, CollectRead \/ RecordResult
    PROVE  /\ Answered' \cup Pending' = Answered \cup Pending
           /\ DOMAIN conversation \subseteq DOMAIN conversation'
           /\ \A a \in DOMAIN conversation : conversation'[a] = conversation[a]
           /\ \A a \in DOMAIN conversation' :
                 conversation'[a].role = "assistant" => a \in DOMAIN conversation
<1>1. PICK c \in Pending, r \in {"ran", "denied"} :
         SaysResult(c, r) /\ Pending' = Pending \ {c}
  BY ResultLeaves
<1>2. /\ Result(c, r) \in TurnMessage /\ Says(Result(c, r))
      /\ Result(c, r).role = "tool" /\ Result(c, r).call = c
  BY <1>1 DEF SaysResult, Result
<1>3. PICK n : n = Len(conversation) + 1
  OBVIOUS
<1>4. /\ DOMAIN conversation' = DOMAIN conversation \cup {n}
      /\ conversation'[n].role = "tool"
      /\ \A a \in DOMAIN conversation : conversation'[a] = conversation[a]
      /\ Answered' = Answered \cup {c}
  BY <1>2, <1>3, Grown
<1> QED BY <1>1, <1>4

LEMMA CompleteStep ==
    TypeOK /\ TurnInv /\ ConsentInv /\ CallsInv /\ OrderInv /\ [Next]_vars => CompleteInv'
<1> SUFFICES ASSUME TypeOK, TurnInv, ConsentInv, CallsInv, OrderInv, [Next]_vars
             PROVE  CompleteInv'
  OBVIOUS
<1>1. CompleteInv /\ FollowInv
  BY DEF OrderInv
(* Steps that leave the turn idle without completing it.                   *)
<1>2. ASSUME EndTurn("error") \/ EndTurn("none") \/ EndTurn("cancelled") PROVE CompleteInv'
  BY <1>2 DEF EndTurn, CompleteInv, CompleteIsAnswered
(* Steps on no message that leave the calls of the turn alone.             *)
<1>3. ASSUME UNCHANGED <<conversation, turn, outcome>>, UNCHANGED Pending,
             pc' = "idle" <=> pc = "idle", cancel => cancel'
      PROVE  CompleteInv'
  BY <1>1, <1>3 DEF CompleteInv, CompleteIsAnswered, Answered, Answerable
<1>4. ASSUME NEW list \in Log!Lists, PromptFails(list) PROVE CompleteInv'
  BY <1>2, <1>4 DEF PromptFails
<1>5. CASE \/ TopCancelled \/ RequestFails \/ CollectFails \/ CallCancelled \/ RecordFails
           \/ Crash
  BY <1>2, <1>5
     DEF TopCancelled, RequestFails, CollectFails, CallCancelled, RecordFails, Crash, ProcessDies
<1>6. ASSUME NEW tools \in ToolNames,
             \/ \E broken \in BOOLEAN : ReplyInterrupted(tools, broken)
             \/ ReplyFails(tools)
      PROVE  CompleteInv'
  BY <1>2, <1>6 DEF ReplyInterrupted, ReplyFails
<1>7. CASE \/ CompactCommand \/ UserStep \/ ReadStep \/ AutoAllow \/ Cancel \/ Resume
           \/ NoMorePrompts \/ UNCHANGED vars
  <2>1. UNCHANGED <<conversation, turn, outcome, reads, writes, pc>>
    BY <1>7 DEF CompactCommand, UserStep, Answer, ReadStep, FinishRead, AutoAllow, Cancel, Resume,
                NoMorePrompts, vars, logVars, callVars, Log!Compact, Log!Resume
  <2>2. UNCHANGED Pending
    BY <2>1 DEF Pending
  <2>3. cancel => cancel'
    BY <1>7 DEF CompactCommand, UserStep, Answer, ReadStep, FinishRead, AutoAllow, Cancel, Resume,
                NoMorePrompts, vars
  <2> QED BY <1>3, <2>1, <2>2, <2>3
<1>8. CASE \/ (\E over \in BOOLEAN : RouteModel(over)) \/ Compacted \/ NotCompacted
           \/ EndRound \/ NextCall \/ Decided \/ ChannelClosed \/ Execute
  <2>1. /\ UNCHANGED <<conversation, turn, outcome, reads, writes, cancel>>
        /\ pc # "idle" /\ pc' # "idle"
    BY <1>8 DEF RouteModel, Compacted, NotCompacted, EndRound, NextCall, Decided, ChannelClosed,
                Execute, Goto, logVars, callVars, Log!Compact
  <2>2. UNCHANGED Pending
    BY <2>1 DEF Pending
  <2> QED BY <1>3, <2>1, <2>2
<1>9. CASE StartReads
  <2>1. /\ UNCHANGED <<conversation, turn, outcome, writes, cancel>>
        /\ pc # "idle" /\ pc' # "idle" /\ (reads' = reads \/ cancel)
    BY <1>9 DEF StartReads, logVars, Goto
  <2>2. CASE reads' = reads
    <3>1. UNCHANGED Pending
      BY <2>1, <2>2 DEF Pending
    <3> QED BY <1>3, <2>1, <3>1
  <2>3. CASE cancel
    BY <1>1, <2>1, <2>3 DEF CompleteInv, CompleteIsAnswered
  <2> QED BY <2>1, <2>2, <2>3
<1>10. ASSUME NEW list \in Log!Lists, Prompt(list) PROVE CompleteInv'
  <2> DEFINE m == [role |-> "user", turn |-> turn + 1]
  <2>1. /\ m \in TurnMessage /\ m.role = "user" /\ Says(m) /\ turn' = turn + 1
        /\ outcome' = "none"
    BY <1>10, MessagesAreMessages, PushSays DEF Prompt, NewTurn
  <2> HIDE DEF m
  <2>2. ASSUME NEW a \in DOMAIN conversation', conversation'[a].role = "assistant",
               conversation'[a].turn = turn'
        PROVE  FALSE
    <3>1. /\ a \in DOMAIN conversation /\ conversation'[a] = conversation[a]
      BY <2>1, <2>2, Grown
    <3>2. conversation[a].turn <= turn
      BY <1>1, <2>2, <3>1 DEF FollowInv
    <3>3. turn \in Nat
      BY TurnConstants DEF TurnInv, TurnTypeOK
    <3> QED BY <2>1, <2>2, <3>1, <3>2, <3>3
  <2> QED BY <2>1, <2>2 DEF CompleteInv, CompleteIsAnswered
<1>11. ASSUME NEW m \in TurnMessage, Says(m), m.role = "assistant", turn' = turn,
              pc # "idle", ~cancel, NEW n, n = Len(conversation'),
              Answerable(n)' \subseteq Pending', Pending \subseteq Pending',
              pc' # "idle" \/ Pending' = {}, outcome' = "none" \/ pc' = "idle"
       PROVE  CompleteInv'
  <2>1. /\ DOMAIN conversation' = DOMAIN conversation \cup {n}
        /\ \A a \in DOMAIN conversation : conversation'[a] = conversation[a]
        /\ Answered' = Answered
    BY <1>11, Grown
  <2>2. ASSUME NEW a \in DOMAIN conversation', conversation'[a].role = "assistant",
               conversation'[a].turn = turn'
        PROVE  Answerable(a)' \subseteq Answered' \cup Pending'
    <3>1. CASE a = n
      BY <1>11, <3>1
    <3>2. CASE a \in DOMAIN conversation
      <4>1. Answerable(a)' = Answerable(a)
        BY <1>11, <3>2, FollowsStays
      <4>2. Answerable(a) \subseteq Answered \cup Pending
        BY <1>1, <1>11, <2>1, <2>2, <3>2 DEF CompleteInv
      <4> QED BY <1>11, <2>1, <4>1, <4>2
    <3> QED BY <2>1, <3>1, <3>2
  <2>3. ASSUME pc' = "idle", NEW a \in DOMAIN conversation',
               conversation'[a].role = "assistant", conversation'[a].turn = turn'
        PROVE  Answerable(a)' \subseteq Answered'
    BY <1>11, <2>2, <2>3
  <2>4. pc' # "idle" => outcome' = "none"
    BY <1>11
  <2> QED BY <2>2, <2>3, <2>4 DEF CompleteInv, CompleteIsAnswered
<1>12. ASSUME NEW tools \in ToolNames, ReplyCalls(tools) PROVE CompleteInv'
  <2>1. PICK n : n = Len(conversation')
    OBVIOUS
  <2>2. Answerable(n)' = CallsOf(tools) /\ Pending' = CallsOf(tools)
    BY <1>12, <2>1, ReplyStands
  <2>3. /\ Assistant(tools) \in TurnMessage /\ Says(Assistant(tools)) /\ turn' = turn
        /\ Assistant(tools).role = "assistant" /\ pc = "request" /\ ~cancel
        /\ Pending = {} /\ pc' = "reads" /\ outcome' = outcome
    BY <1>12, ReplyStands DEF Assistant
  <2>4. outcome' = "none"
    BY <1>1, <2>3 DEF CompleteInv
  <2> QED BY <1>11, <2>1, <2>2, <2>3, <2>4
<1>13. CASE ReplyText
  <2>1. PICK n : n = Len(conversation')
    OBVIOUS
  <2>2. /\ pc = "request" /\ ~cancel /\ turn' = turn /\ Says(Assistant(<<>>))
        /\ pc' = "idle" /\ reads' = {} /\ writes' = {}
    BY <1>13, PushSays DEF ReplyText, Replied, EndTurn
  <2>3. Pending = {} /\ Pending' = {}
    BY <2>2 DEF CallsInv, InRound, Pending
  <2>4. /\ Assistant(<<>>) \in TurnMessage /\ Assistant(<<>>).role = "assistant"
        /\ Assistant(<<>>).tools = <<>>
    BY <2>2, MessagesAreMessages, NoToolsIsReply DEF Assistant
  <2>5. conversation'[n] = Assistant(<<>>)
    BY <2>1, <2>2, <2>4, Grown
  <2>6. Answerable(n)' = {}
    BY <2>4, <2>5 DEF Answerable
  <2> QED BY <1>11, <2>1, <2>2, <2>3, <2>4, <2>6
<1>14. CASE CollectRead \/ RecordResult
  <2>1. UNCHANGED <<turn, outcome, cancel>> /\ pc # "idle" /\ pc' # "idle"
    BY <1>14 DEF CollectRead, RecordResult, Goto
  <2>2. outcome = "none"
    BY <1>1, <2>1 DEF CompleteInv
  <2>3. ASSUME ~cancel', NEW a \in DOMAIN conversation', conversation'[a].role = "assistant",
               conversation'[a].turn = turn'
        PROVE  Answerable(a)' \subseteq Answered' \cup Pending'
    <3>1. a \in DOMAIN conversation /\ conversation'[a] = conversation[a]
      BY <1>14, <2>3, AnsweredGrows
    <3>2. Answerable(a)' = Answerable(a)
      BY <3>1 DEF Answerable
    <3>3. Answerable(a) \subseteq Answered \cup Pending
      BY <1>1, <2>1, <2>3, <3>1 DEF CompleteInv
    <3> QED BY <1>14, <3>2, <3>3, AnsweredGrows
  <2> QED BY <2>1, <2>2, <2>3 DEF CompleteInv, CompleteIsAnswered
<1>15. CASE AgentStep
  BY <1>5, <1>6, <1>8, <1>9, <1>12, <1>13, <1>14, <1>15 DEF AgentStep, TurnStep
<1> QED BY <1>4, <1>5, <1>7, <1>10, <1>15 DEF Next, UserNext, AgentStep

-----------------------------------------------------------------------------
LEMMA OrderInvariant == Spec => []OrderInv
<1>1. Init => OrderInv
  BY CallsInit
<1>2. TypeOK /\ TurnInv /\ ConsentInv /\ CallsInv /\ OrderInv /\ [Next]_vars => OrderInv'
  BY FollowStep, StandStep, CompleteStep DEF OrderInv
<1> QED BY <1>1, <1>2, CallsInvariant, TurnInvariant, TurnTypeCorrect, ConsentInvariant, PTL
        DEF Spec

(* The reply a result follows is the last message before it that is no     *)
(* result.                                                                 *)
LEMMA FollowsLast ==
    ASSUME TypeOK, NEW p \in DOMAIN conversation, conversation[p].role = "tool",
           NEW a \in DOMAIN conversation, Follows(a, p)
    PROVE  LastReply(p) = a
<1> DEFINE Last(b) == /\ conversation[b].role # "tool"
                      /\ \A q \in b + 1 .. p : conversation[q].role = "tool"
<1>1. p \in Nat /\ a \in 1 .. p
  BY SessionTypes DEF Follows
<1>2. Last(a)
  BY DEF Follows
<1>3. ASSUME NEW b \in 1 .. p, Last(b) PROVE b = a
  <2>1. ~(b < a)
    <3>1. b < a => a \in b + 1 .. p
      BY <1>1
    <3> QED BY <1>2, <1>3, <3>1
  <2>2. ~(a < b)
    <3>1. a < b => b \in a + 1 .. p
      BY <1>1
    <3> QED BY <1>2, <1>3, <3>1
  <2> QED BY <1>1, <2>1, <2>2
<1>4. LastReply(p) = CHOOSE b \in 1 .. p : Last(b)
  BY DEF LastReply
<1> HIDE DEF Last
<1> QED BY <1>1, <1>2, <1>3, <1>4

(* Every result answers a call of the reply it follows, in order, with     *)
(* none skipped and none answered twice.                                   *)
THEOREM ResultsFollow == Spec => []ResultsFollowCalls
<1>1. TypeOK /\ OrderInv => ResultsFollowCalls
  <2> SUFFICES ASSUME TypeOK, OrderInv, NEW p \in DOMAIN conversation,
                      conversation[p].role = "tool"
               PROVE  LET a == LastReply(p)
                      IN  /\ conversation[a].role = "assistant"
                          /\ conversation[p].call \in Answerable(a)
                          /\ {conversation[q].call : q \in a + 1 .. p - 1} =
                             {c \in Answerable(a) : AnsweredBefore(c, conversation[p].call)}
    BY DEF ResultsFollowCalls
  <2>1. PICK a \in DOMAIN conversation : Follows(a, p)
    BY DEF OrderInv, FollowInv
  <2>2. LastReply(p) = a
    BY <2>1, FollowsLast
  <2> QED BY <2>1, <2>2 DEF Follows
<1> QED BY <1>1, OrderInvariant, TurnTypeCorrect, PTL

(* A turn that reports TurnComplete has answered every call it made.       *)
THEOREM CompleteAnswers == Spec => []CompleteIsAnswered
<1>1. OrderInv => CompleteIsAnswered
  BY DEF OrderInv, CompleteInv
<1> QED BY <1>1, OrderInvariant, PTL
=============================================================================
