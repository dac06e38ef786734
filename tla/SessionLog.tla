------------------------------ MODULE SessionLog ------------------------------
(***************************************************************************)
(* The agent's message list and its crash-recovery log: the list           *)
(* Agent::messages (anvil-agent/src/agent.rs), the two SQLite tables that  *)
(* mirror it (turn_messages and messages, anvil-agent/src/session.rs), and *)
(* the operations that touch them: push and record, the auto-context       *)
(* message, compaction, a crash, and Agent::resume.                        *)
(*                                                                         *)
(* The contents of messages are abstract: Message is the set of messages   *)
(* that are recorded (user, assistant and tool messages).  System messages *)
(* and the compaction summary are three distinguished values.              *)
(***************************************************************************)
EXTENDS Naturals, Sequences, FiniteSets

CONSTANTS
    Message,       \* the user, assistant and tool messages
    SystemPrompt,  \* messages[0], regenerated on resume
    ContextNote,   \* the system message of files auto-included for a query
    Summary,       \* the user message compaction puts in place of old ones
    Legacy,        \* conversations of sessions written before turn_messages
    KeepRecent     \* messages compaction keeps (4 in the code)

ASSUME LogConstants ==
    /\ SystemPrompt \notin Message
    /\ ContextNote \notin Message
    /\ Summary \notin Message
    /\ SystemPrompt # ContextNote
    /\ Summary # ContextNote
    /\ Legacy \subseteq Seq(Message)
    /\ KeepRecent \in Nat

VARIABLES
    up,             \* is a process running this session?
    messages,       \* its list; when down, the list the dead process had
    turn_messages,  \* rows of the log, in insertion (rowid) order
    stored,         \* rows of the decomposed messages table
    conversation,   \* history: every message ever pushed, in push order
    cause           \* history: what has set the list and the log apart

logVars == <<up, messages, turn_messages, stored, conversation, cause>>

Causes == {"compacted", "context dropped", "append failed", "legacy"}

Row == [seq : Nat, message : Message]

-----------------------------------------------------------------------------
(* Reading the log back: SELECT ... ORDER BY seq.  Rows with equal seq come *)
(* in rowid order, as the index on (session_id, seq) delivers them.         *)

(* Mutant of Before: ORDER BY seq DESC.                                    *)
BeforeDescending(rows, i, j) == \/ rows[i].seq > rows[j].seq
                                \/ rows[i].seq = rows[j].seq /\ i < j

Before(rows, i, j) == \/ rows[i].seq < rows[j].seq
                      \/ rows[i].seq = rows[j].seq /\ i < j

RowsBefore(rows, i) == {j \in DOMAIN rows : Before(rows, j, i)}

load_turn_messages(rows) ==
    [k \in 1 .. Len(rows) |->
        rows[CHOOSE i \in DOMAIN rows :
                Cardinality(RowsBefore(rows, i)) = k - 1].message]

(* Mutant of Restored: the system prompt is not put back in front.         *)
RestoredWithoutPrompt ==
    IF turn_messages # <<>> THEN load_turn_messages(turn_messages) ELSE stored

(* The list a resumed process starts from; the decomposed table is the     *)
(* fallback for a session whose log is empty.                              *)
Restored == <<SystemPrompt>> \o
    (IF turn_messages # <<>> THEN load_turn_messages(turn_messages) ELSE stored)

HasContext(list) == \E p \in DOMAIN list : list[p] = ContextNote

-----------------------------------------------------------------------------
NewSession ==
    /\ up = TRUE
    /\ messages = <<SystemPrompt>>
    /\ stored = <<>>
    /\ conversation = <<>>

(* A session of an older version, opened after the migration created an    *)
(* empty turn_messages table.                                              *)
OldSession ==
    /\ up = FALSE
    /\ stored \in Legacy
    /\ messages = <<SystemPrompt>> \o stored
    /\ conversation = stored

Init ==
    /\ NewSession \/ OldSession
    /\ turn_messages = <<>>
    /\ cause = {}

(* The lists a message may be pushed on: the current one, or the current    *)
(* one after a context message, which a turn adds just before its user     *)
(* message when the query names known files.                               *)
WithContext == Append(messages, ContextNote)
Lists == {messages, WithContext}

(* self.messages.push(m): the list and the history grow together.          *)
Extend(list, m) ==
    /\ up
    /\ messages' = Append(list, m)
    /\ conversation' = Append(conversation, m)

(* Mutant of Record: called before the push.                               *)
RecordBeforePush(list, m) == turn_messages' =
    Append(turn_messages, [seq |-> Len(list) - 1, message |-> list[Len(list)]])

(* record_last_message: seq is the index of the message just pushed; the   *)
(* context message before it is never recorded.                            *)
Record(list, m) == turn_messages' =
    Append(turn_messages, [seq |-> Len(list), message |-> m])

save_message(m) == stored' = Append(stored, m)

Push(list, m) ==
    /\ Extend(list, m)
    /\ Record(list, m)
    /\ save_message(m)
    /\ UNCHANGED <<up, cause>>

(* save_message fails, or the process dies, after the row was appended.    *)
PushUnsaved(list, m) ==
    /\ Extend(list, m)
    /\ Record(list, m)
    /\ UNCHANGED <<up, stored, cause>>

(* append_turn_message fails: record_last_message only logs a warning.     *)
(* save_message may fail with it.                                          *)
PushUnlogged(list, m) ==
    /\ Extend(list, m)
    /\ save_message(m) \/ UNCHANGED stored
    /\ cause' = cause \cup {"append failed"}
    /\ UNCHANGED <<up, turn_messages>>

Compactable == Len(messages) > KeepRecent + 1

(* Mutant of Compact: clear_turn_messages is called, as its doc comment    *)
(* says it is.                                                             *)
CompactAndClear ==
    /\ up
    /\ Compactable
    /\ messages' = <<messages[1], Summary>> \o
                   SubSeq(messages, Len(messages) - KeepRecent + 1, Len(messages))
    /\ turn_messages' = <<>>
    /\ cause' = cause \cup {"compacted"}
    /\ UNCHANGED <<up, stored, conversation>>

(* compact: [system, summary] and the last KeepRecent messages; neither    *)
(* table is touched.                                                       *)
Compact ==
    /\ up
    /\ Compactable
    /\ messages' = <<messages[1], Summary>> \o
                   SubSeq(messages, Len(messages) - KeepRecent + 1, Len(messages))
    /\ cause' = cause \cup {"compacted"}
    /\ UNCHANGED <<up, turn_messages, stored, conversation>>

Crash ==
    /\ up
    /\ up' = FALSE
    /\ UNCHANGED <<messages, turn_messages, stored, conversation, cause>>

(* An assistant message is saved first and pushed afterwards: save_message *)
(* may insert it and fail in its UPDATE, or the process may die between    *)
(* the two.  Its turn has recorded a user message by then.                 *)
SaveUnpushed(m) ==
    /\ up
    /\ turn_messages # <<>> \/ "append failed" \in cause
    /\ save_message(m)
    /\ UNCHANGED <<up, messages, turn_messages, conversation, cause>>

Resume ==
    /\ ~up
    /\ up' = TRUE
    /\ messages' = Restored
    /\ cause' = cause
         \cup (IF HasContext(messages) THEN {"context dropped"} ELSE {})
         \cup (IF turn_messages = <<>> /\ stored # <<>> THEN {"legacy"} ELSE {})
    /\ UNCHANGED <<turn_messages, stored, conversation>>

Next ==
    \/ \E m \in Message, list \in Lists : Push(list, m)
    \/ \E m \in Message, list \in Lists : PushUnsaved(list, m)
    \/ \E m \in Message, list \in Lists : PushUnlogged(list, m)
    \/ \E m \in Message : SaveUnpushed(m)
    \/ Compact
    \/ Crash
    \/ Resume

Spec == Init /\ [][Next]_logVars

-----------------------------------------------------------------------------
(* Type correctness of the list, the two tables and the history.           *)
TypeOK ==
    /\ up \in BOOLEAN
    /\ messages \in Seq(Message \cup {SystemPrompt, ContextNote, Summary})
    /\ messages # <<>>
    /\ turn_messages \in Seq(Row)
    /\ stored \in Seq(Message)
    /\ conversation \in Seq(Message)
    /\ cause \in SUBSET Causes

(* Nothing recorded is ever lost: unless an append failed or the session   *)
(* predates the log, its rows are the whole conversation in insertion      *)
(* order, whatever compaction, context messages and resumes have happened. *)
Rooted == cause \cap {"append failed", "legacy"} = {}

RowsAreConversation ==
    /\ Len(turn_messages) = Len(conversation)
    /\ \A i \in DOMAIN conversation :
          turn_messages[i].message = conversation[i]

NothingLost ==
    Rooted => RowsAreConversation \/ (turn_messages = <<>> /\ conversation = stored)

(* A new message always gets a seq above every recorded one, so ORDER BY   *)
(* seq is the insertion order, as long as the list has not been shortened. *)
SeqIsFresh ==
    cause = {} => \A i \in DOMAIN turn_messages :
                      turn_messages[i].seq < Len(messages)

(* A resume rebuilds the conversation message for message, in order, in    *)
(* every history without a compaction, a context message dropped by an     *)
(* earlier resume, a failed append or a pre-v2.1 session resumed before.   *)
ExactRecovery ==
    [][Resume /\ cause = {} => messages' = <<SystemPrompt>> \o conversation]_logVars

-----------------------------------------------------------------------------
(* The inductive invariant behind the properties above.  While nothing has *)
(* set list and log apart, seq grows along the log, and in a list without  *)
(* context messages row i is the message after the system prompt and i - 1 *)
(* others.                                                                 *)
SeqIncreases ==
    \A i, j \in DOMAIN turn_messages :
        i < j => turn_messages[i].seq < turn_messages[j].seq

Dense ==
    /\ Len(messages) = Len(conversation) + 1
    /\ \A i \in DOMAIN turn_messages : turn_messages[i].seq = i

LogInv ==
    /\ TypeOK
    /\ Rooted /\ (up \/ turn_messages # <<>>) => RowsAreConversation
    /\ Rooted /\ turn_messages = <<>> =>
          conversation = stored /\ (up => stored = <<>>)
    /\ cause = {} => SeqIncreases
    /\ SeqIsFresh
    /\ cause = {} /\ ~HasContext(messages) => Dense

-----------------------------------------------------------------------------
(* What MANUAL.md and session.rs promise for a compacted session: the      *)
(* recorded messages come back in the order in which they were said.       *)
CompactedRecovery ==
    [][Resume /\ cause \subseteq {"compacted"} =>
         messages' = <<SystemPrompt>> \o conversation]_logVars
=============================================================================
