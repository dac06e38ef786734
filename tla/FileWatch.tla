------------------------------ MODULE FileWatch ------------------------------
(***************************************************************************)
(* File watching: the loop of run_file_watcher (anvil/src/watcher.rs), the *)
(* write ledger it consults (anvil-tools/src/ledger.rs), the executor that *)
(* fills the ledger (anvil-tools/src/executor.rs), and the dispatch loop   *)
(* that turns the reported files into agent turns.                         *)
(*                                                                         *)
(* Three threads meet here: the agent writes a file and records its mtime  *)
(* in two steps; others write, delete and open files when they like; the   *)
(* watcher takes the events of all of them off one queue.  File is the set *)
(* of paths is_relevant accepts, the others have no effect at all.  A file *)
(* is known by its modification time, 0 when there is no such file.        *)
(***************************************************************************)
EXTENDS Naturals, Sequences, FiniteSets

CONSTANTS
    File,        \* the relevant paths of the workspace
    NoFile,
    Capacity,    \* of the channel to the dispatch loop (32 in the code)
    MaxEvents,   \* events the kernel reports for one change (truncate, write, close)
    MaxWrites,   \* bound: writes of the agent
    MaxChanges,  \* bound: changes made by others
    MaxOpens     \* bound: files opened without being changed

ASSUME WatchConstants ==
    /\ IsFiniteSet(File) /\ NoFile \notin File
    /\ Capacity \in Nat \ {0} /\ MaxEvents \in Nat \ {0}
    /\ {MaxWrites, MaxChanges, MaxOpens} \subseteq Nat

VARIABLES
    clock,       \* the file system's clock, coarser than its changes
    mtime,       \* modification time of each file
    events,      \* notify_rx: events the watcher has not received
    ledger,      \* WriteLedger: the recorded mtime, 0 for no entry
    pending,     \* the batch being collected
    quiet,       \* debounce has elapsed since the last relevant event
    sending,     \* the batch in blocking_send
    channel,     \* batches the dispatch loop has not taken
    busy,        \* a turn is running
    written,     \* the file a tool has written and not yet recorded
    unreviewed,  \* history: files changed by others since the last turn on them
    recorded,    \* history: every mtime ever recorded for a file
    records, suppressed,   \* history: entries made, events dropped for one
    writes, changes, opens

watchVars == <<pending, quiet, sending>>
agentVars == <<busy, written, writes>>
ledgerVars == <<ledger, recorded, records, suppressed>>
vars == <<clock, mtime, events, ledgerVars, watchVars, channel, agentVars,
          unreviewed, changes, opens>>

Time == 0 .. MaxWrites + MaxChanges + 1

Init ==
    /\ clock = 1
    /\ mtime \in [File -> {0, 1}]
    /\ events = <<>>
    /\ ledger = [f \in File |-> 0]
    /\ pending = {} /\ quiet = FALSE /\ sending = {}
    /\ channel = <<>>
    /\ busy = FALSE /\ written = NoFile
    /\ unreviewed = {}
    /\ recorded = [f \in File |-> {}]
    /\ records = 0 /\ suppressed = 0
    /\ writes = 0 /\ changes = 0 /\ opens = 0

-----------------------------------------------------------------------------
(* The kernel reports n events for a file, and merges one that equals the  *)
(* last unread one into it.                                                *)
Report(f, n) ==
    \/ events' = events \o [i \in 1 .. n |-> f]
    \/ /\ events # <<>> /\ events[Len(events)] = f
       /\ UNCHANGED events

(* A change gets the time of the clock, which may not have moved since the *)
(* change before it.                                                       *)
Change(f) ==
    /\ clock' \in {clock, clock + 1}
    /\ mtime' = [mtime EXCEPT ![f] = clock']
    /\ \E n \in 1 .. MaxEvents : Report(f, n)

OtherChanges(f) ==
    /\ changes < MaxChanges
    /\ changes' = changes + 1
    /\ Change(f)
    /\ unreviewed' = unreviewed \cup {f}
    /\ UNCHANGED <<ledgerVars, watchVars, channel, agentVars, opens>>

OtherDeletes(f) ==
    /\ changes < MaxChanges /\ mtime[f] # 0
    /\ changes' = changes + 1
    /\ mtime' = [mtime EXCEPT ![f] = 0]
    /\ Report(f, 1)
    /\ unreviewed' = unreviewed \cup {f}
    /\ UNCHANGED <<clock, ledgerVars, watchVars, channel, agentVars, opens>>

(* The watcher does not look at the kind of an event: opening a file is as *)
(* good as changing it.                                                    *)
Open(f) ==
    /\ opens < MaxOpens
    /\ opens' = opens + 1
    /\ Report(f, 1)
    /\ UNCHANGED <<clock, mtime, ledgerVars, watchVars, channel, agentVars,
                   unreviewed, changes>>

-----------------------------------------------------------------------------
(* The agent: file_write, file_edit, or a shell command that writes.       *)
Write(f) ==
    /\ busy /\ written = NoFile
    /\ writes < MaxWrites
    /\ writes' = writes + 1
    /\ Change(f)
    /\ written' = f
    /\ UNCHANGED <<ledgerVars, watchVars, channel, busy, unreviewed, changes, opens>>

(* record_write: the mtime is read after the write has returned, whoever   *)
(* has changed the file since.                                             *)
Record ==
    /\ written # NoFile /\ mtime[written] # 0
    /\ ledger' = [ledger EXCEPT ![written] = mtime[written]]
    /\ recorded' = [recorded EXCEPT ![written] = @ \cup {mtime[written]}]
    /\ records' = records + 1
    /\ written' = NoFile
    /\ UNCHANGED <<clock, mtime, events, suppressed, watchVars, channel, busy, writes,
                   unreviewed, changes, opens>>

(* Shell commands record nothing, nor does a write that fails half-way, a  *)
(* file that is gone, or a path that is not spelt as the watcher spells it.*)
RecordNothing ==
    /\ written # NoFile
    /\ written' = NoFile
    /\ UNCHANGED <<clock, mtime, events, ledgerVars, watchVars, channel, busy, writes,
                   unreviewed, changes, opens>>

-----------------------------------------------------------------------------
(* Mutants of OwnWrite and Consume: the time is not compared; a matching   *)
(* entry stays.                                                            *)
InLedger(f) == ledger[f] # 0

ConsumeStale(f) ==
    ledger' = IF ledger[f] = mtime[f] THEN ledger ELSE [ledger EXCEPT ![f] = 0]

(* check_and_consume: the entry goes, whether or not it matches.           *)
OwnWrite(f) == ledger[f] # 0 /\ ledger[f] = mtime[f]

Consume(f) == ledger' = [ledger EXCEPT ![f] = 0]

Suppress ==
    /\ sending = {} /\ events # <<>>
    /\ OwnWrite(Head(events))
    /\ Consume(Head(events))
    /\ suppressed' = suppressed + 1
    /\ events' = Tail(events)
    /\ UNCHANGED <<clock, mtime, recorded, records, watchVars, channel, agentVars,
                   unreviewed, changes, opens>>

Collect ==
    /\ sending = {} /\ events # <<>>
    /\ ~OwnWrite(Head(events))
    /\ Consume(Head(events))
    /\ pending' = pending \cup {Head(events)}
    /\ quiet' = FALSE
    /\ events' = Tail(events)
    /\ UNCHANGED <<clock, mtime, recorded, records, suppressed, sending, channel,
                   agentVars, unreviewed, changes, opens>>

Debounce ==
    /\ pending # {} /\ ~quiet
    /\ quiet' = TRUE
    /\ UNCHANGED <<clock, mtime, events, ledgerVars, pending, sending, channel,
                   agentVars, unreviewed, changes, opens>>

(* Mutant of Fire: the batch is cleared before it is taken.                *)
FireCleared ==
    /\ sending = {} /\ pending # {} /\ quiet
    /\ pending' = {} /\ quiet' = FALSE
    /\ UNCHANGED <<clock, mtime, events, ledgerVars, sending, channel, agentVars,
                   unreviewed, changes, opens>>

Fire ==
    /\ sending = {} /\ pending # {} /\ quiet
    /\ sending' = pending
    /\ pending' = {} /\ quiet' = FALSE
    /\ UNCHANGED <<clock, mtime, events, ledgerVars, channel, agentVars,
                   unreviewed, changes, opens>>

(* Mutants of Send: an unbounded channel; try_send.                        *)
SendUnbounded ==
    /\ sending # {}
    /\ channel' = Append(channel, sending)
    /\ sending' = {}
    /\ UNCHANGED <<clock, mtime, events, ledgerVars, pending, quiet, agentVars,
                   unreviewed, changes, opens>>

TrySend ==
    /\ sending # {}
    /\ channel' = IF Len(channel) < Capacity THEN Append(channel, sending) ELSE channel
    /\ sending' = {}
    /\ UNCHANGED <<clock, mtime, events, ledgerVars, pending, quiet, agentVars,
                   unreviewed, changes, opens>>

(* blocking_send: nothing is received while the channel is full.           *)
Send ==
    /\ sending # {} /\ Len(channel) < Capacity
    /\ channel' = Append(channel, sending)
    /\ sending' = {}
    /\ UNCHANGED <<clock, mtime, events, ledgerVars, pending, quiet, agentVars,
                   unreviewed, changes, opens>>

-----------------------------------------------------------------------------
(* The dispatch loop: a turn on a batch of files, or on a prompt.          *)
Review ==
    /\ ~busy /\ channel # <<>>
    /\ busy' = TRUE
    /\ unreviewed' = unreviewed \ Head(channel)
    /\ channel' = Tail(channel)
    /\ UNCHANGED <<clock, mtime, events, ledgerVars, watchVars, written, writes,
                   changes, opens>>

Prompt ==
    /\ ~busy
    /\ busy' = TRUE
    /\ UNCHANGED <<clock, mtime, events, ledgerVars, watchVars, channel, written,
                   writes, unreviewed, changes, opens>>

EndTurn ==
    /\ busy /\ written = NoFile
    /\ busy' = FALSE
    /\ UNCHANGED <<clock, mtime, events, ledgerVars, watchVars, channel, written,
                   writes, unreviewed, changes, opens>>

WatcherStep == Suppress \/ Collect \/ Fire \/ Send

Next ==
    \/ \E f \in File : OtherChanges(f) \/ OtherDeletes(f) \/ Open(f)
    \/ \E f \in File : Write(f)
    \/ Record \/ RecordNothing
    \/ WatcherStep \/ Debounce
    \/ Review \/ Prompt \/ EndTurn

Spec == Init /\ [][Next]_vars

(* The watcher thread and the dispatch loop run, time passes, turns end;   *)
(* the loop takes a waiting batch in its turn among the prompts (tokio     *)
(* hands out the places of the channel, and its tasks, in order).          *)
Fairness ==
    /\ WF_vars(WatcherStep) /\ WF_vars(Debounce)
    /\ WF_vars(Record \/ RecordNothing)
    /\ SF_vars(EndTurn) /\ SF_vars(Review)

FairSpec == Spec /\ Fairness

-----------------------------------------------------------------------------
(* Type correctness and the bound of the channel.                          *)
TypeOK ==
    /\ clock \in Time /\ mtime \in [File -> Time]
    /\ events \in Seq(File)
    /\ ledger \in [File -> Time]
    /\ pending \subseteq File /\ quiet \in BOOLEAN /\ sending \subseteq File
    /\ channel \in Seq(SUBSET File) /\ Len(channel) <= Capacity
    /\ busy \in BOOLEAN /\ written \in File \cup {NoFile}
    /\ unreviewed \subseteq File
    /\ recorded \in [File -> SUBSET Time]
    /\ records \in 0 .. MaxWrites /\ suppressed \in Nat
    /\ writes \in 0 .. MaxWrites /\ changes \in 0 .. MaxChanges
    /\ opens \in 0 .. MaxOpens

(* On its way to a turn: in the queue, in a batch, or in the channel.      *)
OnTheWay(f) ==
    \/ \E i \in DOMAIN events : events[i] = f
    \/ f \in pending \cup sending
    \/ \E i \in DOMAIN channel : f \in channel[i]

(* A change made by someone else is never swallowed by the ledger or by a  *)
(* full channel, whatever the agent wrote before it or meanwhile - unless  *)
(* the file carries a time that was recorded as the agent's own.           *)
Missable(f) == mtime[f] \in recorded[f]

ChangesAreSeen == \A f \in unreviewed : OnTheWay(f) \/ Missable(f)

(* One write of the agent hides one event at most.                         *)
Entries == {f \in File : ledger[f] # 0}

SuppressionIsPaid == suppressed + Cardinality(Entries) <= records

(* The inductive invariant behind these: entries are recorded times, and   *)
(* the counters run ahead of what they bound.                              *)
LedgerIsRecorded == \A f \in Entries : ledger[f] \in recorded[f]

CountersAgree ==
    /\ clock <= writes + changes + 1
    /\ records + (IF written = NoFile THEN 0 ELSE 1) <= writes

WatchInv ==
    TypeOK /\ CountersAgree /\ LedgerIsRecorded /\ SuppressionIsPaid /\ ChangesAreSeen

(* Such a change comes to a turn, however busy the watcher and the loop,   *)
(* once the files are left alone: each event restarts the debounce, and    *)
(* nothing bounds how long changes can put off the batch.                  *)
FilesComeToRest == <>[][FALSE]_<<writes, changes, opens>>

ChangesAreReviewed ==
    FilesComeToRest =>
        \A f \in File : (f \in unreviewed) ~> (f \notin unreviewed \/ Missable(f))
=============================================================================
