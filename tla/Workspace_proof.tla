---------------------------- MODULE Workspace_proof ----------------------------
(***************************************************************************)
(* Proofs about Workspace: each of its parts has an inductive invariant,   *)
(* which the steps of the other parts leave alone, and what the parts      *)
(* promise follows from these, for any constants.                          *)
(***************************************************************************)
EXTENDS Workspace, FiniteSetTheorems, FunctionTheorems, SequenceTheorems, TLAPS

-----------------------------------------------------------------------------
(* The file watcher.  WatchInv is inductive, so that the types and the     *)
(* channel's bound hold, one write hides one event at most, and no change  *)
(* of someone else is swallowed.                                           *)

(* What a report leaves in the queue.                                      *)
LEMMA ReportQueues ==
    ASSUME events \in Seq(File), NEW f \in File, NEW n \in Nat \ {0}, Report(f, n)
    PROVE  /\ events' \in Seq(File)
           /\ \A i \in DOMAIN events : \E j \in DOMAIN events' : events'[j] = events[i]
           /\ \E j \in DOMAIN events' : events'[j] = f
<1> DEFINE more == [i \in 1 .. n |-> f]
<1>1. CASE events' = events \o more
  <2>1. more \in Seq(File) /\ Len(more) = n
    <3>1. more \in [1 .. n -> File]
      OBVIOUS
    <3> QED BY <3>1
  <2>2. \A i \in 1 .. n : more[i] = f
    OBVIOUS
  <2> HIDE DEF more
  <2>3. Len(events) \in Nat /\ n \in Nat /\ 1 \in 1 .. n
    BY LenProperties
  <2>4. events \o more \in Seq(File) /\ Len(events \o more) = Len(events) + n
    BY <2>1, ConcatProperties
  <2>5. \A i \in 1 .. Len(events) + n :
           (events \o more)[i] = IF i <= Len(events) THEN events[i] ELSE more[i - Len(events)]
    BY <2>1, ConcatProperties
  <2>6. /\ events' \in Seq(File)
        /\ Len(events') = Len(events) + n
        /\ \A i \in 1 .. Len(events) : events'[i] = events[i]
        /\ events'[Len(events) + 1] = more[1]
    BY <1>1, <2>3, <2>4, <2>5
  <2>7. /\ DOMAIN events = 1 .. Len(events) /\ Len(events) \in Nat
        /\ DOMAIN events' = 1 .. Len(events) + n
    BY <2>6, LenProperties
  <2>8. Len(events) + 1 \in DOMAIN events' /\ events'[Len(events) + 1] = f
    BY <2>2, <2>6, <2>7
  <2>9. \A i \in DOMAIN events : i \in DOMAIN events' /\ events'[i] = events[i]
    BY <2>6, <2>7
  <2> QED BY <2>6, <2>8, <2>9
<1>2. CASE events # <<>> /\ events[Len(events)] = f /\ UNCHANGED events
  <2>1. Len(events) \in DOMAIN events
    BY <1>2, LenProperties, EmptySeq
  <2> QED BY <1>2, <2>1
<1> QED BY <1>1, <1>2 DEF Report

LEMMA ReportKeeps ==
    ASSUME events \in Seq(File), NEW f \in File, NEW n \in Nat \ {0}, Report(f, n),
           UNCHANGED <<watchVars, channel>>
    PROVE  /\ OnTheWay(f)'
           /\ \A g \in File : OnTheWay(g) => OnTheWay(g)'
<1>1. /\ \A i \in DOMAIN events : \E j \in DOMAIN events' : events'[j] = events[i]
      /\ \E j \in DOMAIN events' : events'[j] = f
  BY ReportQueues
<1> QED BY <1>1 DEF OnTheWay, watchVars

-----------------------------------------------------------------------------
LEMMA WatchInit == Init => WatchInv
<1> SUFFICES ASSUME Init PROVE WatchInv
  OBVIOUS
<1> USE WatchConstants
<1>1. 0 \in Time /\ 1 \in Time
  BY DEF Time
<1>2. TypeOK
  <2>1. /\ MaxWrites \in Nat /\ MaxChanges \in Nat /\ MaxOpens \in Nat
        /\ Capacity \in Nat /\ 0 <= Capacity
    OBVIOUS
  <2>2. /\ mtime \in [File -> Time] /\ ledger \in [File -> Time]
        /\ recorded \in [File -> SUBSET Time]
    BY <1>1 DEF Init
  <2>3. /\ events \in Seq(File) /\ channel \in Seq(SUBSET File) /\ Len(channel) = 0
    BY EmptySeq DEF Init
  <2>4. 0 \in 0 .. MaxWrites /\ 0 \in 0 .. MaxChanges /\ 0 \in 0 .. MaxOpens /\ 0 \in Nat
    BY <2>1
  <2> QED BY <1>1, <2>1, <2>2, <2>3, <2>4 DEF Init, TypeOK
<1>3. Entries = {}
  BY DEF Init, Entries
<1>4. SuppressionIsPaid /\ LedgerIsRecorded
  BY <1>3, FS_EmptySet DEF Init, SuppressionIsPaid, LedgerIsRecorded
<1>5. CountersAgree /\ ChangesAreSeen
  BY DEF Init, CountersAgree, ChangesAreSeen
<1> QED BY <1>2, <1>4, <1>5 DEF WatchInv

(* A change by anyone: the file system's part.                             *)
LEMMA ChangeStep ==
    ASSUME TypeOK, CountersAgree, NEW f \in File,
           Change(f), UNCHANGED <<watchVars, channel>>,
           writes + changes < MaxWrites + MaxChanges
    PROVE  /\ clock' \in Time /\ clock' <= clock + 1
           /\ mtime' \in [File -> Time]
           /\ events' \in Seq(File)
           /\ \A g \in File \ {f} : mtime'[g] = mtime[g]
           /\ OnTheWay(f)'
           /\ \A g \in File : OnTheWay(g) => OnTheWay(g)'
<1> USE WatchConstants
<1>1. PICK n \in 1 .. MaxEvents : Report(f, n)
  BY DEF Change
<1>2. n \in Nat \ {0} /\ events \in Seq(File)
  BY DEF TypeOK
<1>3. clock' \in Time /\ clock' <= clock + 1
  BY DEF Change, TypeOK, CountersAgree, Time
<1>4. /\ mtime' \in [File -> Time]
      /\ \A g \in File \ {f} : mtime'[g] = mtime[g]
  BY <1>3 DEF Change, TypeOK
<1>5. events' \in Seq(File)
  BY <1>1, <1>2, ReportQueues
<1>6. OnTheWay(f)' /\ \A g \in File : OnTheWay(g) => OnTheWay(g)'
  BY <1>1, <1>2, ReportKeeps
<1> QED BY <1>3, <1>4, <1>5, <1>6

(* Steps that leave the ledger alone leave what is said of it.             *)
LEMMA LedgerKept ==
    ASSUME WatchInv, UNCHANGED ledgerVars
    PROVE  SuppressionIsPaid' /\ LedgerIsRecorded'
BY DEF WatchInv, ledgerVars, SuppressionIsPaid, LedgerIsRecorded, Entries

LEMMA OtherStep ==
    ASSUME WatchInv, NEW f \in File,
           OtherChanges(f) \/ OtherDeletes(f) \/ Open(f)
    PROVE  WatchInv'
<1> USE WatchConstants
<1>1. TypeOK /\ CountersAgree /\ ChangesAreSeen
  BY DEF WatchInv
<1>2. UNCHANGED <<watchVars, channel>> /\ UNCHANGED ledgerVars
  BY DEF OtherChanges, OtherDeletes, Open
<1>3. SuppressionIsPaid' /\ LedgerIsRecorded'
  BY <1>2, LedgerKept
<1>4. CASE OtherChanges(f)
  <2>1. Change(f) /\ writes + changes < MaxWrites + MaxChanges
    BY <1>1, <1>4 DEF OtherChanges, TypeOK
  <2>2. /\ clock' \in Time /\ clock' <= clock + 1
        /\ mtime' \in [File -> Time]
        /\ events' \in Seq(File)
        /\ \A g \in File \ {f} : mtime'[g] = mtime[g]
        /\ OnTheWay(f)'
        /\ \A g \in File : OnTheWay(g) => OnTheWay(g)'
    BY <1>1, <1>2, <2>1, ChangeStep
  <2>3. TypeOK'
    BY <1>1, <1>4, <2>2
       DEF TypeOK, OtherChanges, ledgerVars, watchVars, agentVars
  <2>4. CountersAgree'
    BY <1>1, <1>4, <2>2 DEF TypeOK, CountersAgree, OtherChanges, ledgerVars, agentVars, Time
  <2>5. ChangesAreSeen'
    BY <1>1, <1>4, <2>2 DEF ChangesAreSeen, Missable, OtherChanges, ledgerVars, TypeOK
  <2> QED BY <1>3, <2>3, <2>4, <2>5 DEF WatchInv
<1>5. CASE OtherDeletes(f) \/ Open(f)
  <2>1. Report(f, 1) /\ events \in Seq(File)
    BY <1>1, <1>5 DEF OtherDeletes, Open, TypeOK
  <2>2. events' \in Seq(File)
    BY <2>1, ReportQueues
  <2>3. OnTheWay(f)' /\ \A g \in File : OnTheWay(g) => OnTheWay(g)'
    BY <1>2, <2>1, ReportKeeps
  <2>4. 0 \in Time /\ MaxChanges \in Nat /\ MaxOpens \in Nat
    BY DEF Time
  <2>5. /\ mtime' \in [File -> Time]
        /\ changes' \in 0 .. MaxChanges /\ opens' \in 0 .. MaxOpens
        /\ unreviewed' \subseteq File /\ clock' = clock
    BY <1>1, <1>5, <2>4 DEF TypeOK, OtherDeletes, Open
  <2>6. TypeOK'
    BY <1>1, <1>2, <1>5, <2>2, <2>5
       DEF TypeOK, OtherDeletes, Open, ledgerVars, watchVars, agentVars
  <2>7. CountersAgree'
    BY <1>1, <1>5 DEF TypeOK, CountersAgree, OtherDeletes, Open, ledgerVars, agentVars, Time
  <2>8. ChangesAreSeen'
    BY <1>1, <1>5, <2>3 DEF ChangesAreSeen, Missable, OtherDeletes, Open, ledgerVars, TypeOK
  <2> QED BY <1>3, <2>6, <2>7, <2>8 DEF WatchInv
<1> QED BY <1>4, <1>5

LEMMA WriteStep ==
    ASSUME WatchInv, NEW f \in File, Write(f)
    PROVE  WatchInv'
<1> USE WatchConstants
<1>1. TypeOK /\ CountersAgree /\ ChangesAreSeen
  BY DEF WatchInv
<1>2. UNCHANGED <<watchVars, channel>> /\ UNCHANGED ledgerVars
  BY DEF Write
<1>3. SuppressionIsPaid' /\ LedgerIsRecorded'
  BY <1>2, LedgerKept
<1>4. Change(f) /\ writes + changes < MaxWrites + MaxChanges
  BY <1>1 DEF Write, TypeOK
<1>5. /\ clock' \in Time /\ clock' <= clock + 1
      /\ mtime' \in [File -> Time]
      /\ events' \in Seq(File)
      /\ \A g \in File \ {f} : mtime'[g] = mtime[g]
      /\ OnTheWay(f)'
      /\ \A g \in File : OnTheWay(g) => OnTheWay(g)'
  BY <1>1, <1>2, <1>4, ChangeStep
<1>6. TypeOK'
  BY <1>1, <1>5 DEF TypeOK, Write, ledgerVars, watchVars
<1>7. CountersAgree'
  BY <1>1, <1>5 DEF TypeOK, CountersAgree, Write, ledgerVars, Time
<1>8. ChangesAreSeen'
  BY <1>1, <1>5 DEF ChangesAreSeen, Missable, Write, ledgerVars, TypeOK
<1> QED BY <1>3, <1>6, <1>7, <1>8 DEF WatchInv

LEMMA EntriesFinite ==
    /\ IsFiniteSet(Entries) /\ Cardinality(Entries) \in Nat
    /\ \A some \in SUBSET Entries :
          IsFiniteSet(some) /\ Cardinality(some) \in Nat
          /\ Cardinality(some) <= Cardinality(Entries)
<1>1. Entries \in SUBSET File
  BY DEF Entries
<1>2. IsFiniteSet(Entries)
  BY <1>1, FS_Subset, WatchConstants
<1>3. \A some \in SUBSET Entries :
         IsFiniteSet(some) /\ Cardinality(some) <= Cardinality(Entries)
  BY <1>2, FS_Subset
<1> QED BY <1>2, <1>3, FS_CardinalityType

LEMMA RecordStep ==
    ASSUME WatchInv, Record
    PROVE  WatchInv'
<1>1. TypeOK /\ CountersAgree /\ ChangesAreSeen /\ LedgerIsRecorded /\ SuppressionIsPaid
  BY DEF WatchInv
<1>2. written \in File /\ written # NoFile
  BY <1>1 DEF Record, TypeOK
<1>3. records' \in 0 .. MaxWrites /\ CountersAgree'
  BY <1>1, <1>2, WatchConstants DEF TypeOK, CountersAgree, Record
<1>4. /\ ledger' \in [File -> Time] /\ recorded' \in [File -> SUBSET Time]
      /\ written' \in File \cup {NoFile}
  BY <1>1, <1>2 DEF TypeOK, Record
<1>5. TypeOK' /\ CountersAgree'
  BY <1>1, <1>3, <1>4 DEF TypeOK, Record, watchVars
<1>6. Entries' = Entries \cup {written}
  BY <1>1, <1>2 DEF Entries, Record, TypeOK
<1>7. /\ IsFiniteSet(Entries) /\ Cardinality(Entries) \in Nat
  BY EntriesFinite
<1>8. Cardinality(Entries \cup {written}) =
         IF written \in Entries THEN Cardinality(Entries) ELSE Cardinality(Entries) + 1
  BY <1>7, FS_AddElement
<1>9. Cardinality(Entries') <= Cardinality(Entries) + 1 /\ Cardinality(Entries') \in Nat
  BY <1>6, <1>7, <1>8
<1>10. SuppressionIsPaid'
  BY <1>1, <1>9, EntriesFinite DEF SuppressionIsPaid, Record, TypeOK
<1>11. LedgerIsRecorded'
  BY <1>1, <1>2, <1>6 DEF LedgerIsRecorded, Record, TypeOK
<1>12. ChangesAreSeen'
  BY <1>1, <1>2
     DEF ChangesAreSeen, Missable, OnTheWay, Record, TypeOK, watchVars
<1> QED BY <1>5, <1>10, <1>11, <1>12 DEF WatchInv

-----------------------------------------------------------------------------
(* Taking an event off the queue.                                          *)
LEMMA TailQueue ==
    ASSUME events \in Seq(File), events # <<>>, events' = Tail(events)
    PROVE  /\ Head(events) \in File
           /\ events' \in Seq(File)
           /\ \A i \in DOMAIN events : events[i] # Head(events) =>
                 \E j \in DOMAIN events' : events'[j] = events[i]
<1>1. /\ Head(events) \in File /\ Head(events) = events[1]
      /\ events' \in Seq(File) /\ Len(events') = Len(events) - 1
      /\ \A i \in 1 .. Len(events') : events'[i] = events[i + 1]
  BY HeadTailProperties
<1>2. /\ DOMAIN events = 1 .. Len(events) /\ DOMAIN events' = 1 .. Len(events')
      /\ Len(events) \in Nat
  BY <1>1, LenProperties
<1>3. ASSUME NEW i \in DOMAIN events, events[i] # Head(events)
      PROVE  i - 1 \in DOMAIN events' /\ events'[i - 1] = events[i]
  BY <1>1, <1>2, <1>3
<1> QED BY <1>1, <1>3

LEMMA ConsumeStep ==
    ASSUME WatchInv, NEW f \in File, Consume(f), UNCHANGED recorded
    PROVE  /\ ledger' \in [File -> Time]
           /\ Entries' = Entries \ {f}
           /\ LedgerIsRecorded'
           /\ Cardinality(Entries') \in Nat
           /\ Cardinality(Entries') =
                 IF f \in Entries THEN Cardinality(Entries) - 1 ELSE Cardinality(Entries)
<1>1. 0 \in Time
  BY WatchConstants DEF Time
<1>2. ledger' \in [File -> Time] /\ Entries' = Entries \ {f}
  BY <1>1 DEF WatchInv, TypeOK, Consume, Entries
<1>3. LedgerIsRecorded'
  BY <1>2 DEF WatchInv, LedgerIsRecorded, Entries, Consume, TypeOK
<1>4. Cardinality(Entries') =
         IF f \in Entries THEN Cardinality(Entries) - 1 ELSE Cardinality(Entries)
  BY <1>2, EntriesFinite, FS_RemoveElement
<1>5. Cardinality(Entries') \in Nat
  BY <1>2, EntriesFinite
<1> QED BY <1>2, <1>3, <1>4, <1>5

LEMMA SuppressStep ==
    ASSUME WatchInv, Suppress
    PROVE  WatchInv'
<1> DEFINE f == Head(events)
<1>1. TypeOK /\ CountersAgree /\ ChangesAreSeen /\ LedgerIsRecorded /\ SuppressionIsPaid
  BY DEF WatchInv
<1>2. /\ f \in File /\ events' \in Seq(File)
      /\ \A i \in DOMAIN events : events[i] # f =>
            \E j \in DOMAIN events' : events'[j] = events[i]
  BY <1>1, TailQueue DEF Suppress, TypeOK
<1>3. /\ OwnWrite(f) /\ Consume(f) /\ suppressed' = suppressed + 1
      /\ UNCHANGED <<clock, mtime, recorded, records, watchVars, channel, agentVars,
                     unreviewed, changes, opens>>
  BY DEF Suppress
<1> HIDE DEF f
<1>4. f \in Entries /\ mtime[f] \in recorded[f]
  BY <1>1, <1>2, <1>3 DEF OwnWrite, Entries, LedgerIsRecorded
<1>5. /\ ledger' \in [File -> Time] /\ LedgerIsRecorded'
      /\ Cardinality(Entries') = Cardinality(Entries) - 1
  BY <1>2, <1>3, <1>4, ConsumeStep
<1>6. SuppressionIsPaid'
  BY <1>1, <1>3, <1>5, EntriesFinite DEF SuppressionIsPaid, TypeOK
<1>7. TypeOK' /\ CountersAgree'
  BY <1>1, <1>2, <1>3, <1>5 DEF TypeOK, CountersAgree, watchVars, agentVars
<1>8. ChangesAreSeen'
  <2>1. ASSUME NEW g \in File, OnTheWay(g), g # f PROVE OnTheWay(g)'
    BY <1>2, <1>3, <2>1 DEF OnTheWay, watchVars
  <2>2. \A g \in File : Missable(g)' <=> Missable(g)
    BY <1>3 DEF Missable
  <2>3. Missable(f)
    BY <1>4 DEF Missable
  <2> QED BY <1>1, <1>3, <2>1, <2>2, <2>3 DEF ChangesAreSeen, TypeOK
<1> QED BY <1>5, <1>6, <1>7, <1>8 DEF WatchInv

LEMMA CollectStep ==
    ASSUME WatchInv, Collect
    PROVE  WatchInv'
<1> DEFINE f == Head(events)
<1>1. TypeOK /\ CountersAgree /\ ChangesAreSeen /\ LedgerIsRecorded /\ SuppressionIsPaid
  BY DEF WatchInv
<1>2. /\ f \in File /\ events' \in Seq(File)
      /\ \A i \in DOMAIN events : events[i] # f =>
            \E j \in DOMAIN events' : events'[j] = events[i]
  BY <1>1, TailQueue DEF Collect, TypeOK
<1>3. /\ Consume(f) /\ pending' = pending \cup {f} /\ quiet' = FALSE
      /\ UNCHANGED <<clock, mtime, recorded, records, suppressed, sending, channel,
                     agentVars, unreviewed, changes, opens>>
  BY DEF Collect
<1> HIDE DEF f
<1>5. /\ ledger' \in [File -> Time] /\ LedgerIsRecorded'
      /\ Cardinality(Entries') <= Cardinality(Entries) /\ Cardinality(Entries') \in Nat
  BY <1>2, <1>3, ConsumeStep, EntriesFinite
<1>6. SuppressionIsPaid'
  BY <1>1, <1>3, <1>5, EntriesFinite DEF SuppressionIsPaid, TypeOK
<1>7. TypeOK' /\ CountersAgree'
  BY <1>1, <1>2, <1>3, <1>5 DEF TypeOK, CountersAgree, agentVars
<1>8. ChangesAreSeen'
  <2>1. ASSUME NEW g \in File, OnTheWay(g) PROVE OnTheWay(g)'
    BY <1>2, <1>3, <2>1 DEF OnTheWay
  <2>2. \A g \in File : Missable(g)' <=> Missable(g)
    BY <1>3 DEF Missable
  <2> QED BY <1>1, <1>3, <2>1, <2>2 DEF ChangesAreSeen, TypeOK
<1> QED BY <1>5, <1>6, <1>7, <1>8 DEF WatchInv

(* The rest of the watcher and the dispatch loop.                          *)
LEMMA HandOverStep ==
    ASSUME WatchInv, Fire \/ Send \/ Review
    PROVE  WatchInv'
<1>1. TypeOK /\ CountersAgree /\ ChangesAreSeen
  BY DEF WatchInv
<1>2. SuppressionIsPaid' /\ LedgerIsRecorded'
  BY LedgerKept DEF Fire, Send, Review
<1>3. CountersAgree'
  BY <1>1 DEF CountersAgree, Fire, Send, Review, ledgerVars, agentVars
<1>4. \A g \in File : Missable(g)' <=> Missable(g)
  BY DEF Missable, Fire, Send, Review, ledgerVars
<1>5. CASE Fire
  <2>1. TypeOK'
    BY <1>1, <1>5 DEF TypeOK, Fire, ledgerVars, agentVars
  <2>2. \A g \in File : OnTheWay(g) => OnTheWay(g)'
    BY <1>5 DEF OnTheWay, Fire
  <2>3. ChangesAreSeen'
    BY <1>1, <1>4, <1>5, <2>2 DEF ChangesAreSeen, Fire, TypeOK
  <2> QED BY <1>2, <1>3, <2>1, <2>3 DEF WatchInv
<1>6. CASE Send
  <2>1. /\ channel' \in Seq(SUBSET File) /\ Len(channel') = Len(channel) + 1
        /\ \A i \in 1 .. Len(channel) : channel'[i] = channel[i]
        /\ channel'[Len(channel) + 1] = sending
    BY <1>1, <1>6, AppendProperties DEF TypeOK, Send
  <2>2. /\ DOMAIN channel = 1 .. Len(channel) /\ Len(channel) \in Nat
        /\ DOMAIN channel' = 1 .. Len(channel) + 1
    BY <1>1, <2>1, LenProperties DEF TypeOK
  <2>3. Len(channel') <= Capacity
    BY <1>6, <2>1, <2>2, WatchConstants DEF Send
  <2>4. TypeOK'
    BY <1>1, <1>6, <2>1, <2>3 DEF TypeOK, Send, ledgerVars, agentVars
  <2>5. ASSUME NEW g \in File, OnTheWay(g) PROVE OnTheWay(g)'
    <3>1. CASE \E i \in DOMAIN channel : g \in channel[i]
      <4>1. PICK i \in DOMAIN channel : g \in channel[i]
        BY <3>1
      <4>2. i \in DOMAIN channel' /\ g \in channel'[i]
        BY <2>1, <2>2, <4>1
      <4> QED BY <4>2 DEF OnTheWay
    <3>2. CASE g \in sending
      <4>1. Len(channel) + 1 \in DOMAIN channel' /\ g \in channel'[Len(channel) + 1]
        BY <2>1, <2>2, <3>2
      <4> QED BY <4>1 DEF OnTheWay
    <3>3. CASE g \in pending \/ \E i \in DOMAIN events : events[i] = g
      BY <1>6, <3>3 DEF OnTheWay, Send
    <3> QED BY <2>5, <3>1, <3>2, <3>3 DEF OnTheWay
  <2>6. ChangesAreSeen'
    BY <1>1, <1>4, <1>6, <2>5 DEF ChangesAreSeen, Send, TypeOK
  <2> QED BY <1>2, <1>3, <2>4, <2>6 DEF WatchInv
<1>7. CASE Review
  <2>1. /\ Head(channel) = channel[1]
        /\ channel' \in Seq(SUBSET File) /\ Len(channel') = Len(channel) - 1
        /\ \A i \in 1 .. Len(channel') : channel'[i] = channel[i + 1]
    BY <1>1, <1>7, HeadTailProperties DEF TypeOK, Review
  <2>2. /\ DOMAIN channel = 1 .. Len(channel) /\ Len(channel) \in Nat
        /\ DOMAIN channel' = 1 .. Len(channel')
    BY <1>1, <2>1, LenProperties DEF TypeOK
  <2>3. TypeOK'
    BY <1>1, <1>7, <2>1, <2>2, WatchConstants
       DEF TypeOK, Review, ledgerVars, watchVars
  <2>4. ASSUME NEW g \in File, OnTheWay(g), g \notin Head(channel) PROVE OnTheWay(g)'
    <3>1. CASE \E i \in DOMAIN channel : g \in channel[i]
      <4>1. PICK i \in DOMAIN channel : g \in channel[i]
        BY <3>1
      <4>2. i - 1 \in DOMAIN channel' /\ g \in channel'[i - 1]
        BY <2>1, <2>2, <2>4, <4>1
      <4> QED BY <4>2 DEF OnTheWay
    <3>2. CASE g \in pending \cup sending \/ \E i \in DOMAIN events : events[i] = g
      BY <1>7, <3>2 DEF OnTheWay, Review, watchVars
    <3> QED BY <2>4, <3>1, <3>2 DEF OnTheWay
  <2>5. ChangesAreSeen'
    BY <1>1, <1>4, <1>7, <2>4 DEF ChangesAreSeen, Review, TypeOK
  <2> QED BY <1>2, <1>3, <2>3, <2>5 DEF WatchInv
<1> QED BY <1>5, <1>6, <1>7

(* Steps that move nothing.                                                *)
LEMMA IdleStep ==
    ASSUME WatchInv, RecordNothing \/ Debounce \/ Prompt \/ EndTurn \/ UNCHANGED vars
    PROVE  WatchInv'
<1>1. TypeOK /\ CountersAgree /\ ChangesAreSeen
  BY DEF WatchInv
<1>2. /\ UNCHANGED ledgerVars
      /\ UNCHANGED <<clock, mtime, events, pending, sending, channel, writes,
                     unreviewed, changes, opens>>
      /\ busy' \in BOOLEAN /\ quiet' \in BOOLEAN
      /\ written' \in {written, NoFile}
  BY <1>1 DEF RecordNothing, Debounce, Prompt, EndTurn, vars, watchVars, agentVars, TypeOK
<1>3. SuppressionIsPaid' /\ LedgerIsRecorded'
  BY <1>2, LedgerKept
<1>4. TypeOK'
  BY <1>1, <1>2 DEF TypeOK, ledgerVars
<1>5. CountersAgree'
  BY <1>1, <1>2 DEF CountersAgree, ledgerVars, TypeOK
<1>6. ChangesAreSeen'
  BY <1>1, <1>2 DEF ChangesAreSeen, OnTheWay, Missable, ledgerVars
<1> QED BY <1>3, <1>4, <1>5, <1>6 DEF WatchInv

LEMMA WatchStepInv == WatchInv /\ [Next]_vars => WatchInv'
BY OtherStep, WriteStep, RecordStep, SuppressStep, CollectStep, HandOverStep, IdleStep
   DEF Next, WatcherStep

-----------------------------------------------------------------------------
(* The watcher's inductive invariant.                                      *)
THEOREM WatchInvariant == Spec => []WatchInv
BY WatchInit, WatchStepInv, PTL DEF Spec

(* The state keeps its types, and the channel its bound.                   *)
THEOREM WatchTypeCorrect == Spec => []TypeOK
<1>1. WatchInv => TypeOK
  BY DEF WatchInv
<1> QED BY <1>1, WatchInvariant, PTL

(* No change of someone else is swallowed by the ledger or the channel.    *)
THEOREM NoChangeIsSwallowed == Spec => []ChangesAreSeen
<1>1. WatchInv => ChangesAreSeen
  BY DEF WatchInv
<1> QED BY <1>1, WatchInvariant, PTL

(* A recorded write of the agent hides one event at most.                  *)
THEOREM OneEventPerWrite == Spec => []SuppressionIsPaid
<1>1. WatchInv => SuppressionIsPaid
  BY DEF WatchInv
<1> QED BY <1>1, WatchInvariant, PTL

-----------------------------------------------------------------------------
(* Interactive sessions.  First the agents: every operation yields one     *)
(* that agrees with itself.                                                *)
ProcessStates == {"off", "prompt", "starting", "turn", "closing", "batch"}

PromptTexts ==
    [model : Models, persona : Personas \cup {None}, mode : S!Modes, skills : SUBSET Skills]

Agents ==
    [pc : ProcessStates, id : Nat, model : Models, sampling : Models \cup {None},
     persona : Personas \cup {None}, mode : S!Modes, skills : SUBSET Skills,
     sandbox : BOOLEAN, env : SUBSET S!Env(Skills), prompt : PromptTexts \cup {None},
     auto : BOOLEAN,
     handle : {"none", "shared", "child"}, url : {"settings", "profile", "chosen", "port"},
     spent : Nat]

Sampled(a) ==
    \/ a.sampling \in {None, a.model}
    \/ a.model \notin Profiled /\ \E pr \in Profiles : pr.model = a.model

Consistent(a) ==
    /\ a \in Agents /\ Sampled(a)
    /\ a.prompt.persona = a.persona /\ a.prompt.mode = a.mode /\ a.prompt.skills = a.skills
    /\ a.env = S!Env(a.skills)
    /\ a.sandbox = (a.persona \in Kids)

(* What only the loop, a turn or the server changes.                       *)
Place(a) == <<a.pc, a.id, a.handle, a.spent>>

LEMMA EnvIs ==
    /\ \A X \in SUBSET Skills : S!Env(X) \in SUBSET S!Env(Skills)
    /\ S!Env({}) = {}
  BY DEF S!Env

(* A prompt is built from the agent as it is.                              *)
LEMMA Rebuilt ==
    ASSUME NEW a \in Agents, Sampled(a), a.env = S!Env(a.skills),
           a.sandbox = (a.persona \in Kids)
    PROVE  LET b == S!rebuild_system_prompt(a)
           IN  /\ Consistent(b) /\ Place(b) = Place(a)
               /\ b.persona = a.persona /\ b.skills = a.skills /\ b.handle = a.handle
<1> DEFINE b == S!rebuild_system_prompt(a)
           words == S!Prompt(a)
<1>1. /\ words \in PromptTexts
      /\ words.persona = a.persona /\ words.mode = a.mode /\ words.skills = a.skills
  BY DEF S!Prompt, PromptTexts, Agents
<1>2. b = [a EXCEPT !.prompt = words]
  BY DEF S!rebuild_system_prompt
<1> HIDE DEF words, b
<1>3. /\ b \in Agents /\ b.prompt = words
      /\ b.pc = a.pc /\ b.id = a.id /\ b.handle = a.handle /\ b.spent = a.spent
      /\ b.model = a.model /\ b.sampling = a.sampling /\ b.persona = a.persona
      /\ b.mode = a.mode /\ b.skills = a.skills /\ b.env = a.env /\ b.sandbox = a.sandbox
  BY <1>1, <1>2 DEF Agents
<1>4. Sampled(b)
  BY <1>3 DEF Sampled
<1> QED BY <1>1, <1>3, <1>4 DEF Consistent, Place, b

LEMMA NewIs ==
    ASSUME S!SessionConstants, NEW id \in Nat
    PROVE  LET b == S!New(id)
           IN  /\ Consistent(b) /\ Place(b) = <<"prompt", id, "none", 0>>
               /\ b.persona = None /\ b.skills = {}
<1> DEFINE c == [pc |-> "prompt", id |-> id, model |-> Default, sampling |-> None,
                 persona |-> None, mode |-> "coding", skills |-> {}, sandbox |-> FALSE,
                 env |-> {}, prompt |-> None, auto |-> FALSE, handle |-> "none",
                 url |-> "settings", spent |-> 0]
<1>1. S!New(id) = S!rebuild_system_prompt(c)
  BY DEF S!New
<1>2. c \in Agents
  <2>1. Default \in Models
    BY DEF S!SessionConstants
  <2> QED BY <2>1 DEF Agents, ProcessStates, S!Modes
<1>3. /\ c.persona = None /\ c.skills = {} /\ c.handle = "none" /\ c.sandbox = FALSE
      /\ c.env = {} /\ c.sampling = None /\ Place(c) = <<"prompt", id, "none", 0>>
  BY DEF Place
<1> HIDE DEF c
<1>4. FALSE = (None \in Kids)
  <2>1. None \notin Kids
    BY DEF S!SessionConstants
  <2> QED BY <2>1
<1>5. Sampled(c)
  BY <1>3 DEF Sampled
<1>6. c.env = S!Env(c.skills)
  BY <1>3, EnvIs
<1>7. c.sandbox = (c.persona \in Kids)
  BY <1>3, <1>4
<1> QED BY <1>1, <1>2, <1>3, <1>5, <1>6, <1>7, Rebuilt

LEMMA ModeIs ==
    ASSUME NEW a, Consistent(a), NEW m \in S!Modes
    PROVE  LET b == S!set_mode(a, m)
           IN  Consistent(b) /\ Place(b) = Place(a) /\ b.persona = a.persona /\ b.skills = a.skills
<1> DEFINE c == [a EXCEPT !.mode = m]
<1>1. /\ c \in Agents /\ Place(c) = Place(a) /\ c.persona = a.persona /\ c.skills = a.skills
      /\ c.env = a.env /\ c.sandbox = a.sandbox /\ c.sampling = a.sampling /\ c.model = a.model
  BY DEF Consistent, Agents, Place
<1>2. Sampled(c) /\ c.env = S!Env(c.skills) /\ c.sandbox = (c.persona \in Kids)
  BY <1>1 DEF Consistent, Sampled
<1>3. S!set_mode(a, m) = S!rebuild_system_prompt(c)
  BY DEF S!set_mode
<1> HIDE DEF c
<1> QED BY <1>1, <1>2, <1>3, Rebuilt

LEMMA PersonaIs ==
    ASSUME NEW a, Consistent(a), NEW key \in Personas \cup {None}
    PROVE  LET b == S!set_persona(a, key)
           IN  Consistent(b) /\ Place(b) = Place(a) /\ b.persona = key /\ b.skills = a.skills
<1> DEFINE box == key \in Kids
           c == [a EXCEPT !.persona = key, !.mode = "coding", !.sandbox = box]
<1>0. "coding" \in S!Modes /\ box \in BOOLEAN
  BY DEF S!Modes
<1> HIDE DEF box
<1>1. /\ c \in Agents /\ Place(c) = Place(a) /\ c.persona = key /\ c.skills = a.skills
      /\ c.env = a.env /\ c.sandbox = box /\ c.sampling = a.sampling
      /\ c.model = a.model
  BY <1>0 DEF Consistent, Agents, Place
<1>2. Sampled(c) /\ c.env = S!Env(c.skills) /\ c.sandbox = (c.persona \in Kids)
  <2>1. box = (key \in Kids)
    BY DEF box
  <2> HIDE DEF c
  <2> QED BY <1>1, <2>1 DEF Consistent, Sampled
<1>3. S!set_persona(a, key) = S!rebuild_system_prompt(c)
  BY DEF S!set_persona, box
<1> HIDE DEF c
<1> QED BY <1>1, <1>2, <1>3, Rebuilt

(* The skills are others, then the prompt and the environment follow.      *)
LEMMA SkillsAre ==
    ASSUME NEW a, Consistent(a), NEW X \in SUBSET Skills
    PROVE  LET b == S!sync_skill_env(S!rebuild_system_prompt([a EXCEPT !.skills = X]))
           IN  Consistent(b) /\ Place(b) = Place(a) /\ b.persona = a.persona /\ b.skills = X
<1> DEFINE c == [a EXCEPT !.skills = X]
           words == S!Prompt(c)
           d == S!rebuild_system_prompt(c)
           b == S!sync_skill_env(d)
<1>1. /\ c \in Agents /\ Place(c) = Place(a) /\ c.persona = a.persona /\ c.skills = X
      /\ c.mode = a.mode /\ c.sandbox = a.sandbox /\ c.sampling = a.sampling
      /\ c.model = a.model
  BY DEF Consistent, Agents, Place
<1>2. d = [c EXCEPT !.prompt = words] /\ b = [d EXCEPT !.env = S!Env(d.skills)]
  BY DEF S!rebuild_system_prompt, S!sync_skill_env
<1> HIDE DEF c
<1>3. /\ words \in PromptTexts
      /\ words.persona = c.persona /\ words.mode = c.mode /\ words.skills = X
  BY <1>1 DEF S!Prompt, PromptTexts, Agents
<1> HIDE DEF words, d, b
<1>4. /\ d \in Agents /\ Place(d) = Place(c) /\ d.persona = c.persona /\ d.skills = X
      /\ d.mode = c.mode /\ d.sandbox = c.sandbox /\ d.sampling = c.sampling
      /\ d.model = c.model /\ d.prompt = words
  BY <1>1, <1>2, <1>3 DEF Agents, Place
<1>5. S!Env(X) \in SUBSET S!Env(Skills)
  BY EnvIs
<1>6. /\ b \in Agents /\ Place(b) = Place(d) /\ b.persona = d.persona /\ b.skills = X
      /\ b.mode = d.mode /\ b.sandbox = d.sandbox /\ b.sampling = d.sampling
      /\ b.model = d.model /\ b.prompt = words /\ b.env = S!Env(X)
  BY <1>2, <1>4, <1>5 DEF Agents, Place
<1>7. Consistent(b)
  BY <1>1, <1>3, <1>4, <1>6 DEF Consistent, Sampled
<1> QED BY <1>1, <1>4, <1>6, <1>7 DEF b, d, c

LEMMA ActivatedAre ==
    ASSUME NEW a, Consistent(a), NEW X \in SUBSET Skills
    PROVE  LET b == S!activate_skills(a, X)
           IN  Consistent(b) /\ Place(b) = Place(a) /\ b.persona = a.persona
               /\ b.skills = a.skills \cup X
<1>1. CASE X \subseteq a.skills
  BY <1>1 DEF S!activate_skills
<1>2. CASE ~(X \subseteq a.skills)
  <2>1. a.skills \cup X \in SUBSET Skills
    BY DEF Consistent, Agents
  <2>2. S!activate_skills(a, X) =
          S!sync_skill_env(S!rebuild_system_prompt([a EXCEPT !.skills = a.skills \cup X]))
    BY <1>2 DEF S!activate_skills
  <2> QED BY <2>1, <2>2, SkillsAre
<1> QED BY <1>1, <1>2

LEMMA ClearedAre ==
    ASSUME NEW a, Consistent(a)
    PROVE  LET b == S!clear_skills(a)
           IN  Consistent(b) /\ Place(b) = Place(a)
  BY SkillsAre DEF S!clear_skills

(* The sampling parameters follow the model, or are left as they are.      *)
LEMMA ModelIs ==
    ASSUME S!SessionConstants, NEW c \in Agents,
           c.prompt.persona = c.persona, c.prompt.mode = c.mode, c.prompt.skills = c.skills,
           c.env = S!Env(c.skills), c.sandbox = (c.persona \in Kids),
           c.model \in Profiled \/ Sampled(c)
    PROVE  LET b == S!apply_model_profile(c)
           IN  Consistent(b) /\ Place(b) = Place(c) /\ b.persona = c.persona /\ b.skills = c.skills
<1> DEFINE b == S!apply_model_profile(c)
<1>1. CASE c.model \in Profiled
  <2>1. b = [c EXCEPT !.sampling = c.model]
    BY <1>1 DEF S!apply_model_profile
  <2> HIDE DEF b
  <2>2. /\ b \in Agents /\ Place(b) = Place(c) /\ b.persona = c.persona /\ b.skills = c.skills
        /\ b.mode = c.mode /\ b.sandbox = c.sandbox /\ b.sampling = c.model /\ b.model = c.model
        /\ b.prompt = c.prompt /\ b.env = c.env
    BY <2>1 DEF Agents, Place
  <2>3. Consistent(b)
    BY <2>2 DEF Consistent, Sampled
  <2> QED BY <2>2, <2>3 DEF b
<1>2. CASE c.model \notin Profiled
  <2>1. b = c
    BY <1>2 DEF S!apply_model_profile
  <2> QED BY <1>2, <2>1 DEF Consistent
<1> QED BY <1>1, <1>2

(* Another model, and another address of the server.                       *)
LEMMA OtherModelIs ==
    ASSUME S!SessionConstants, NEW a, Consistent(a), NEW m \in Models,
           \E pr \in Profiles : pr.model = m
    PROVE  LET b == S!apply_model_profile(S!set_model(a, m))
           IN  Consistent(b) /\ Place(b) = Place(a) /\ b.persona = a.persona /\ b.skills = a.skills
<1> DEFINE c == [a EXCEPT !.model = m]
<1>1. /\ c \in Agents /\ Place(c) = Place(a) /\ c.persona = a.persona /\ c.skills = a.skills
      /\ c.mode = a.mode /\ c.sandbox = a.sandbox /\ c.model = m /\ c.prompt = a.prompt
      /\ c.env = a.env
  BY DEF Consistent, Agents, Place
<1>2. S!set_model(a, m) = c
  BY DEF S!set_model
<1> HIDE DEF c
<1>3. c.model \in Profiled \/ Sampled(c)
  BY <1>1 DEF Sampled
<1>4. /\ c.prompt.persona = c.persona /\ c.prompt.mode = c.mode /\ c.prompt.skills = c.skills
      /\ c.env = S!Env(c.skills) /\ c.sandbox = (c.persona \in Kids)
  BY <1>1 DEF Consistent
<1> QED BY <1>1, <1>2, <1>3, <1>4, ModelIs

LEMMA ChosenModelIs ==
    ASSUME S!SessionConstants, NEW a, Consistent(a), NEW m \in Models
    PROVE  LET b == S!apply_model_profile([S!set_model(a, m) EXCEPT !.sampling = None])
           IN  Consistent(b) /\ Place(b) = Place(a)
<1> DEFINE c == [S!set_model(a, m) EXCEPT !.sampling = None]
<1>1. /\ c \in Agents /\ Place(c) = Place(a) /\ c.persona = a.persona /\ c.skills = a.skills
      /\ c.mode = a.mode /\ c.sandbox = a.sandbox /\ c.model = m /\ c.prompt = a.prompt
      /\ c.env = a.env /\ c.sampling = None
  BY DEF Consistent, Agents, Place, S!set_model
<1> HIDE DEF c
<1>3. Sampled(c)
  BY <1>1 DEF Sampled
<1>4. /\ c.prompt.persona = c.persona /\ c.prompt.mode = c.mode /\ c.prompt.skills = c.skills
      /\ c.env = S!Env(c.skills) /\ c.sandbox = (c.persona \in Kids)
  BY <1>1 DEF Consistent
<1>5. LET b == S!apply_model_profile(c) IN Consistent(b) /\ Place(b) = Place(c)
  BY <1>1, <1>3, <1>4, ModelIs
<1> QED BY <1>1, <1>5 DEF c

LEMMA UrlIs ==
    ASSUME NEW a, Consistent(a), NEW to \in {"settings", "profile", "chosen", "port"}
    PROVE  LET b == [a EXCEPT !.url = to]
           IN  Consistent(b) /\ Place(b) = Place(a) /\ b.persona = a.persona /\ b.skills = a.skills
<1> DEFINE b == [a EXCEPT !.url = to]
<1>1. /\ b \in Agents /\ Place(b) = Place(a) /\ b.persona = a.persona /\ b.skills = a.skills
      /\ b.mode = a.mode /\ b.sandbox = a.sandbox /\ b.model = a.model /\ b.prompt = a.prompt
      /\ b.env = a.env /\ b.sampling = a.sampling
  BY DEF Consistent, Agents, Place
<1> HIDE DEF b
<1>2. Consistent(b)
  BY <1>1 DEF Consistent, Sampled
<1> QED BY <1>1, <1>2 DEF b

(* A launch profile keeps the skills, and the persona unless it has one.   *)
LEMMA LaunchIs ==
    ASSUME S!SessionConstants, NEW a, Consistent(a), NEW pr \in Profiles \cup {S!NoProfile}
    PROVE  LET b == S!apply_launch_profile(a, pr)
           IN  /\ Consistent(b) /\ Place(b) = Place(a) /\ a.skills \subseteq b.skills
               /\ b.persona = a.persona
                  \/ (pr \in Profiles /\ pr.persona # None /\ b.persona = pr.persona)
<1> DEFINE withModel == IF pr.model = None THEN a
                        ELSE S!apply_model_profile(S!set_model(a, pr.model))
           withUrl == IF pr.url THEN [withModel EXCEPT !.url = "profile"] ELSE withModel
           withPersona == IF pr.persona = None THEN withUrl ELSE S!set_persona(withUrl, pr.persona)
           withMode == IF pr.mode = None THEN withPersona ELSE S!set_mode(withPersona, pr.mode)
<1>1. /\ pr.model \in Models \cup {None} /\ pr.persona \in Personas \cup {None}
      /\ pr.mode = None \/ pr.mode \in S!Modes
      /\ pr.skills \in SUBSET Skills
      /\ pr \in Profiles \/ (pr.model = None /\ pr.persona = None)
  BY DEF S!SessionConstants, S!NoProfile, S!Modes
<1>2. S!apply_launch_profile(a, pr) = S!activate_skills(withMode, pr.skills)
  BY DEF S!apply_launch_profile
<1> HIDE DEF withModel, withUrl, withPersona, withMode
<1>3. /\ Consistent(withModel) /\ Place(withModel) = Place(a)
      /\ withModel.persona = a.persona /\ withModel.skills = a.skills
  BY <1>1, OtherModelIs DEF withModel
<1>4. /\ Consistent(withUrl) /\ Place(withUrl) = Place(a)
      /\ withUrl.persona = a.persona /\ withUrl.skills = a.skills
  BY <1>3, UrlIs DEF withUrl
<1>5. /\ Consistent(withPersona) /\ Place(withPersona) = Place(a)
      /\ withPersona.persona = IF pr.persona = None THEN a.persona ELSE pr.persona
      /\ withPersona.skills = a.skills
  BY <1>1, <1>4, PersonaIs DEF withPersona
<1>6. /\ Consistent(withMode) /\ Place(withMode) = Place(a)
      /\ withMode.persona = withPersona.persona /\ withMode.skills = a.skills
  BY <1>1, <1>5, ModeIs DEF withMode
<1>7. LET b == S!activate_skills(withMode, pr.skills)
      IN  /\ Consistent(b) /\ Place(b) = Place(withMode) /\ b.persona = withMode.persona
          /\ b.skills = withMode.skills \cup pr.skills
  BY <1>1, <1>6, ActivatedAre
<1> QED BY <1>1, <1>2, <1>5, <1>6, <1>7

(* What resume restores of a row.                                          *)
LEMMA ResumedIs ==
    ASSUME S!SessionConstants, NEW id \in Nat, sessions[id] \in S!Rows
    PROVE  LET b == S!resume(id)
           IN  /\ Consistent(b) /\ Place(b) = <<"prompt", id, "none", 0>>
               /\ b.persona = sessions[id].persona /\ b.skills = sessions[id].skills
<1> DEFINE row == sessions[id]
           withMode == S!set_mode(S!New(id), row.mode)
           withPersona == IF row.persona = None THEN withMode
                          ELSE S!set_persona(withMode, row.persona)
<1>1. row.mode \in S!Modes /\ row.persona \in Personas \cup {None} /\ row.skills \in SUBSET Skills
  BY DEF S!Rows
<1>2. S!resume(id) = S!activate_skills(withPersona, row.skills)
  BY DEF S!resume
<1> HIDE DEF row, withMode, withPersona
<1>3. /\ Consistent(withMode) /\ Place(withMode) = <<"prompt", id, "none", 0>>
      /\ withMode.persona = None /\ withMode.skills = {}
  BY <1>1, NewIs, ModeIs DEF withMode
<1>4. /\ Consistent(withPersona) /\ Place(withPersona) = <<"prompt", id, "none", 0>>
      /\ withPersona.persona = row.persona /\ withPersona.skills = {}
  BY <1>1, <1>3, PersonaIs DEF withPersona
<1>5. LET b == S!activate_skills(withPersona, row.skills)
      IN  /\ Consistent(b) /\ Place(b) = Place(withPersona) /\ b.persona = withPersona.persona
          /\ b.skills = withPersona.skills \cup row.skills
  BY <1>1, <1>4, ActivatedAre
<1> QED BY <1>2, <1>4, <1>5 DEF row

(* At the head of the loop the policy follows the agent, too.              *)
Ruled(a) == a.pc \in {"prompt", "turn"} => a.auto = S!is_kids_mode(a)

LEMMA LoopHeadIs ==
    ASSUME NEW a, Consistent(a)
    PROVE  LET b == S!LoopHead(a)
           IN  /\ Consistent(b) /\ Ruled(b) /\ b.pc = "prompt" /\ b.id = a.id
               /\ b.handle = a.handle /\ b.spent = a.spent /\ b.persona = a.persona
               /\ b.skills = a.skills
<1> DEFINE kids == S!is_kids_mode(a)
           b == [a EXCEPT !.pc = "prompt", !.auto = kids]
<1>1. S!LoopHead(a) = b
  BY DEF S!LoopHead
<1>2. kids \in BOOLEAN
  BY DEF S!is_kids_mode
<1> HIDE DEF kids
<1>3. /\ b \in Agents /\ b.persona = a.persona /\ b.skills = a.skills /\ b.auto = kids
      /\ b.mode = a.mode /\ b.sandbox = a.sandbox /\ b.model = a.model /\ b.prompt = a.prompt
      /\ b.env = a.env /\ b.sampling = a.sampling /\ b.pc = "prompt" /\ b.id = a.id
      /\ b.handle = a.handle /\ b.spent = a.spent
  BY <1>2 DEF Consistent, Agents, ProcessStates
<1> HIDE DEF b
<1>4. Consistent(b)
  BY <1>3 DEF Consistent, Sampled
<1>5. S!is_kids_mode(b) = S!is_kids_mode(a)
  BY <1>3 DEF S!is_kids_mode
<1>6. Ruled(b)
  BY <1>3, <1>5 DEF Ruled, kids
<1> QED BY <1>1, <1>3, <1>4, <1>6

(* The tables: every session has its place in the order of updated_at.     *)
Placed(places, n) ==
    /\ \A id \in 1 .. n : places[id] \in 1 .. n
    /\ \A k \in 1 .. n : \E id \in 1 .. n : places[id] = k

TablesAre ==
    /\ sessions \in Seq(S!Rows) /\ Len(sessions) <= MaxSessions
    /\ updated \in Seq(Nat) /\ Len(updated) = Len(sessions) /\ Placed(updated, Len(sessions))
    /\ left \in Seq({"running", "exit", "done", "killed"}) /\ Len(left) = Len(sessions)

(* A session that one process at most has used since it took it.           *)
Solo(rows, procs, ends, id) ==
    /\ \A p, q \in Procs : procs[p].id = id /\ procs[q].id = id => p = q
    /\ \A p \in Procs : procs[p].id = id =>
         ends[id] = "running" /\ (procs[p].pc # "closing" => rows[id].status = "active")
    /\ ends[id] = "exit" => rows[id].status = "paused"
    /\ ends[id] = "done" => rows[id].status = "active"

ProcIs(a) ==
    /\ Consistent(a) /\ Ruled(a)
    /\ a.pc = "starting" => a.handle = "child"
    /\ a.pc = "batch" => a.handle = "none"
    /\ a.pc = "off" <=> a.id = 0

SessionInv ==
    /\ TablesAre
    /\ proc \in [Procs -> Agents] /\ \A p \in Procs : ProcIs(proc[p])
    /\ \A p \in Procs : proc[p].id \in 0 .. Len(sessions)
    /\ server \in Procs \cup {None, Foreign} /\ S!ServerHasOwner
    /\ alone \subseteq 1 .. Len(sessions)
    /\ \A id \in alone : Solo(sessions, proc, left, id)

LEMMA TouchedIs ==
    ASSUME NEW n \in Nat, updated \in Seq(Nat), Len(updated) = n, Placed(updated, n),
           NEW id \in 1 .. n
    PROVE  /\ S!Touched(id) \in Seq(Nat) /\ Len(S!Touched(id)) = n
           /\ Placed(S!Touched(id), n)
<1> DEFINE to == [j \in 1 .. n |-> IF j = id THEN n
                                   ELSE IF updated[j] > updated[id] THEN updated[j] - 1
                                   ELSE updated[j]]
<1>1. \A j \in 1 .. n : updated[j] \in 1 .. n
  BY DEF Placed
<1>2. ASSUME NEW j \in 1 .. n PROVE to[j] \in 1 .. n
  <2>1. updated[j] \in 1 .. n /\ updated[id] \in 1 .. n /\ n \in 1 .. n
    BY <1>1
  <2>2. CASE j = id
    BY <2>1, <2>2
  <2>3. CASE j # id /\ updated[j] > updated[id]
    <3>1. to[j] = updated[j] - 1
      BY <2>3
    <3> QED BY <2>1, <2>3, <3>1
  <2>4. CASE j # id /\ ~(updated[j] > updated[id])
    <3>1. to[j] = updated[j]
      BY <2>4
    <3> QED BY <2>1, <3>1
  <2> QED BY <2>2, <2>3, <2>4
<1>3. S!Touched(id) = to
  BY DEF S!Touched
<1>4. to \in Seq(Nat) /\ Len(to) = n
  BY <1>2, IsASeq
<1>5. ASSUME NEW k \in 1 .. n PROVE \E j \in 1 .. n : to[j] = k
  <2>1. CASE k = n
    BY <2>1
  <2>2. CASE k < updated[id]
    <3>1. PICK j \in 1 .. n : updated[j] = k
      BY DEF Placed
    <3>2. updated[j] \in Int /\ updated[id] \in Int /\ k \in Int
      BY <1>1
    <3>3. j # id /\ ~(updated[j] > updated[id])
      BY <2>2, <3>1, <3>2
    <3> QED BY <3>1, <3>3
  <2>3. CASE k >= updated[id] /\ k # n
    <3>1. k + 1 \in 1 .. n
      BY <2>3
    <3>2. PICK j \in 1 .. n : updated[j] = k + 1
      BY <3>1 DEF Placed
    <3>3. updated[j] \in Int /\ updated[id] \in Int /\ k \in Int
      BY <1>1
    <3>4. j # id /\ updated[j] > updated[id] /\ updated[j] - 1 = k
      BY <2>3, <3>2, <3>3
    <3>5. to[j] = updated[j] - 1
      BY <3>4
    <3> QED BY <3>4, <3>5
  <2> QED BY <1>1, <2>1, <2>2, <2>3
<1> HIDE DEF to
<1> QED BY <1>2, <1>3, <1>4, <1>5 DEF Placed

LEMMA UpdateIs ==
    ASSUME SessionInv, NEW id \in 1 .. Len(sessions), NEW row \in S!Rows, S!Update(id, row),
           left' \in Seq({"running", "exit", "done", "killed"}), Len(left') = Len(left)
    PROVE  /\ TablesAre' /\ Len(sessions') = Len(sessions)
           /\ \A j \in 1 .. Len(sessions) : sessions'[j] = IF j = id THEN row ELSE sessions[j]
<1>1. /\ sessions \in Seq(S!Rows) /\ updated \in Seq(Nat) /\ Len(updated) = Len(sessions)
      /\ Placed(updated, Len(sessions)) /\ Len(left) = Len(sessions)
      /\ Len(sessions) <= MaxSessions /\ Len(sessions) \in Nat
  BY LenProperties DEF SessionInv, TablesAre
<1>2. sessions' = [sessions EXCEPT ![id] = row] /\ updated' = S!Touched(id)
  BY DEF S!Update
<1>3. /\ sessions' \in Seq(S!Rows) /\ Len(sessions') = Len(sessions)
      /\ \A j \in 1 .. Len(sessions) : sessions'[j] = IF j = id THEN row ELSE sessions[j]
  BY <1>1, <1>2, ExceptSeq
<1>4. updated' \in Seq(Nat) /\ Len(updated') = Len(sessions) /\ Placed(updated', Len(sessions))
  BY <1>1, <1>2, TouchedIs
<1> QED BY <1>1, <1>3, <1>4 DEF TablesAre

LEMMA AddIs ==
    ASSUME SessionInv, Len(sessions) < MaxSessions, NEW row \in S!Rows,
           sessions' = Append(sessions, row), updated' = Append(updated, Len(sessions) + 1),
           left' = Append(left, "running"), MaxSessions \in Nat
    PROVE  /\ TablesAre' /\ Len(sessions') = Len(sessions) + 1
           /\ \A j \in 1 .. Len(sessions) : sessions'[j] = sessions[j] /\ left'[j] = left[j]
           /\ sessions'[Len(sessions) + 1] = row /\ left'[Len(sessions) + 1] = "running"
<1> DEFINE n == Len(sessions)
           Ends == {"running", "exit", "done", "killed"}
<1>1. /\ sessions \in Seq(S!Rows) /\ updated \in Seq(Nat) /\ Len(updated) = n
      /\ Placed(updated, n) /\ left \in Seq(Ends) /\ Len(left) = n /\ n \in Nat
  BY LenProperties DEF SessionInv, TablesAre
<1>2. /\ sessions' \in Seq(S!Rows) /\ Len(sessions') = n + 1 /\ sessions'[n + 1] = row
      /\ \A j \in 1 .. n : sessions'[j] = sessions[j]
  BY <1>1, AppendProperties
<1>3. /\ left' \in Seq(Ends) /\ Len(left') = n + 1 /\ left'[n + 1] = "running"
      /\ \A j \in 1 .. n : left'[j] = left[j]
  BY <1>1, AppendProperties
<1>4. /\ updated' \in Seq(Nat) /\ Len(updated') = n + 1 /\ updated'[n + 1] = n + 1
      /\ \A j \in 1 .. n : updated'[j] = updated[j]
  <2>1. n + 1 \in Nat
    BY <1>1
  <2> QED BY <1>1, <2>1, AppendProperties
<1> HIDE DEF n, Ends
<1>5. Placed(updated', n + 1)
  <2>1. \A j \in 1 .. n : updated'[j] \in 1 .. n
    BY <1>1, <1>4 DEF Placed
  <2>2. \A k \in 1 .. n : \E j \in 1 .. n : updated'[j] = k
    BY <1>1, <1>4 DEF Placed
  <2>3. \A j \in 1 .. n + 1 : j \in 1 .. n \/ j = n + 1
    BY <1>1
  <2>4. 1 .. n \subseteq 1 .. n + 1 /\ n + 1 \in 1 .. n + 1
    BY <1>1
  <2> QED BY <1>4, <2>1, <2>2, <2>3, <2>4 DEF Placed
<1>6. n + 1 <= MaxSessions
  BY <1>1 DEF n
<1> QED BY <1>2, <1>3, <1>4, <1>5, <1>6 DEF TablesAre, Ends, n

LEMMA SessionInit == S!SessionConstants /\ S!Init => SessionInv
<1> SUFFICES ASSUME S!SessionConstants, S!Init PROVE SessionInv
  OBVIOUS
<1>1. sessions = <<>> /\ updated = <<>> /\ left = <<>> /\ alone = {}
      /\ server \in {None, Foreign} /\ proc = [p \in Procs |-> S!Off]
  BY DEF S!Init
<1>2. TablesAre
  <2>1. Placed(<<>>, 0)
    BY DEF Placed
  <2>2. Len(<<>>) = 0 /\ 0 <= MaxSessions
    BY DEF S!SessionConstants
  <2> QED BY <1>1, <2>1, <2>2, EmptySeq DEF TablesAre
<1>3. ProcIs(S!Off) /\ S!Off.id = 0
  <2> DEFINE a == S!New(0)
  <2>1. Consistent(a) /\ Place(a) = <<"prompt", 0, "none", 0>>
    BY NewIs
  <2>2. S!Off = [a EXCEPT !.pc = "off"]
    BY DEF S!Off
  <2> HIDE DEF a
  <2>3. /\ S!Off \in Agents /\ S!Off.pc = "off" /\ S!Off.id = 0
        /\ S!Off.mode = a.mode /\ S!Off.sandbox = a.sandbox /\ S!Off.model = a.model
        /\ S!Off.prompt = a.prompt /\ S!Off.env = a.env /\ S!Off.sampling = a.sampling
        /\ S!Off.persona = a.persona /\ S!Off.skills = a.skills
    BY <2>1, <2>2 DEF Consistent, Agents, ProcessStates, Place
  <2>4. Consistent(S!Off)
    BY <2>1, <2>3 DEF Consistent, Sampled
  <2> QED BY <2>3, <2>4 DEF ProcIs, Ruled
<1>4. server \notin Procs
  BY <1>1 DEF S!SessionConstants
<1>5. proc \in [Procs -> Agents] /\ \A p \in Procs : ProcIs(proc[p]) /\ proc[p].id = 0
  BY <1>1, <1>3 DEF ProcIs, Consistent
<1>6. 0 \in 0 .. Len(sessions)
  BY <1>1
<1> QED BY <1>1, <1>2, <1>4, <1>5, <1>6 DEF SessionInv, S!ServerHasOwner

(* A process moves; what the step does to the session it leaves or takes   *)
(* is said of the session.                                                 *)
LEMMA ProcessMoves ==
    ASSUME S!SessionConstants, SessionInv, NEW p \in Procs, NEW a, ProcIs(a), TablesAre',
           proc' = [proc EXCEPT ![p] = a], a.id \in 0 .. Len(sessions'),
           Len(sessions) <= Len(sessions'), server' \in Procs \cup {None, Foreign},
           server' = p => a.handle = "child" /\ a.pc # "off",
           server' \in Procs => server' \in {p, server},
           alone' \subseteq 1 .. Len(sessions'),
           \A id \in alone' : Solo(sessions', proc', left', id)
    PROVE  SessionInv'
<1>1. proc' \in [Procs -> Agents] /\ \A q \in Procs : proc'[q] = IF q = p THEN a ELSE proc[q]
  BY DEF SessionInv, ProcIs, Consistent
<1>2. Len(sessions) \in Nat /\ Len(sessions') \in Nat
  BY LenProperties DEF SessionInv, TablesAre
<1>3. \A q \in Procs : ProcIs(proc'[q])
  BY <1>1 DEF SessionInv
<1>4. \A q \in Procs : proc'[q].id \in 0 .. Len(sessions')
  <2> SUFFICES ASSUME NEW q \in Procs, q # p PROVE proc[q].id \in 0 .. Len(sessions')
    BY <1>1
  <2>1. proc[q].id \in 0 .. Len(sessions)
    BY DEF SessionInv
  <2> QED BY <1>2, <2>1
<1>5. S!ServerHasOwner'
  BY <1>1 DEF SessionInv, S!ServerHasOwner, S!Running
<1> QED BY <1>1, <1>3, <1>4, <1>5 DEF SessionInv

(* A step in which the process stays with its session.                     *)
LEMMA StaysInv ==
    ASSUME S!SessionConstants, SessionInv, NEW p \in Procs, NEW a, ProcIs(a), TablesAre',
           proc' = [proc EXCEPT ![p] = a], a.id = proc[p].id,
           a.pc = "closing" \/ proc[p].pc # "closing", Len(sessions') = Len(sessions),
           \A id \in 1 .. Len(sessions) : sessions'[id].status = sessions[id].status,
           UNCHANGED <<left, alone>>, server' \in Procs \cup {None, Foreign},
           server' = p => a.handle = "child" /\ a.pc # "off",
           server' \in Procs => server' \in {p, server}
    PROVE  SessionInv'
<1>1. \A q \in Procs : proc'[q] = IF q = p THEN a ELSE proc[q]
  BY DEF SessionInv
<1>2. /\ a.id \in 0 .. Len(sessions') /\ Len(sessions) <= Len(sessions')
  <2>1. Len(sessions) \in Nat
    BY LenProperties DEF SessionInv, TablesAre
  <2> QED BY <2>1 DEF SessionInv
<1>3. ASSUME NEW id \in alone PROVE Solo(sessions', proc', left', id)
  <2>1. Solo(sessions, proc, left, id) /\ sessions'[id].status = sessions[id].status
    BY DEF SessionInv
  <2> QED BY <1>1, <2>1 DEF Solo
<1>4. alone' \subseteq 1 .. Len(sessions')
  BY DEF SessionInv
<1>5. \A id \in alone' : Solo(sessions', proc', left', id)
  BY <1>3
<1> QED BY <1>2, <1>4, <1>5, ProcessMoves

(* What only moves the process leaves the agent consistent.                *)
Like(a, b) ==
    /\ b.model = a.model /\ b.sampling = a.sampling /\ b.persona = a.persona
    /\ b.mode = a.mode /\ b.skills = a.skills /\ b.sandbox = a.sandbox /\ b.env = a.env
    /\ b.prompt = a.prompt /\ b.id = a.id /\ b.auto = a.auto

LEMMA LikeIs ==
    ASSUME NEW a, Consistent(a), NEW b \in Agents, Like(a, b)
    PROVE  Consistent(b) /\ S!is_kids_mode(b) = S!is_kids_mode(a)
<1>1. Sampled(b)
  BY DEF Consistent, Sampled, Like
<1>2. S!is_kids_mode(b) = S!is_kids_mode(a)
  BY DEF S!is_kids_mode, Like
<1> QED BY <1>1, <1>2 DEF Consistent, Like

LEMMA PcIs ==
    ASSUME NEW a, Consistent(a), NEW to \in ProcessStates
    PROVE  LET b == [a EXCEPT !.pc = to]
           IN  Consistent(b) /\ Like(a, b) /\ b.pc = to /\ b.handle = a.handle
<1> DEFINE b == [a EXCEPT !.pc = to]
<1>1. b \in Agents /\ Like(a, b) /\ b.pc = to /\ b.handle = a.handle
  BY DEF Consistent, Agents, Like
<1> HIDE DEF b
<1>2. Consistent(b)
  BY <1>1, LikeIs
<1> QED BY <1>1, <1>2 DEF b

LEMMA StartingIs ==
    ASSUME NEW a, Consistent(a)
    PROVE  LET b == [a EXCEPT !.pc = "starting", !.handle = "child"]
           IN  Consistent(b) /\ Like(a, b) /\ b.pc = "starting" /\ b.handle = "child"
<1> DEFINE b == [a EXCEPT !.pc = "starting", !.handle = "child"]
<1>1. b \in Agents /\ Like(a, b) /\ b.pc = "starting" /\ b.handle = "child"
  BY DEF Consistent, Agents, Like, ProcessStates
<1> HIDE DEF b
<1>2. Consistent(b)
  BY <1>1, LikeIs
<1> QED BY <1>1, <1>2 DEF b

LEMMA HandleIs ==
    ASSUME NEW a, Consistent(a), NEW h \in {"none", "shared", "child"}
    PROVE  LET b == [a EXCEPT !.handle = h]
           IN  Consistent(b) /\ Like(a, b) /\ b.pc = a.pc /\ b.handle = h
<1> DEFINE b == [a EXCEPT !.handle = h]
<1>1. b \in Agents /\ Like(a, b) /\ b.pc = a.pc /\ b.handle = h
  BY DEF Consistent, Agents, Like
<1> HIDE DEF b
<1>2. Consistent(b)
  BY <1>1, LikeIs
<1> QED BY <1>1, <1>2 DEF b

LEMMA PortIs ==
    ASSUME NEW a, Consistent(a), NEW h \in {"none", "shared", "child"}
    PROVE  LET b == [a EXCEPT !.handle = h, !.url = "port"]
           IN  Consistent(b) /\ Like(a, b) /\ b.pc = a.pc /\ b.handle = h
<1> DEFINE b == [a EXCEPT !.handle = h, !.url = "port"]
<1>1. b \in Agents /\ Like(a, b) /\ b.pc = a.pc /\ b.handle = h
  BY DEF Consistent, Agents, Like
<1> HIDE DEF b
<1>2. Consistent(b)
  BY <1>1, LikeIs
<1> QED BY <1>1, <1>2 DEF b

LEMMA PortOnlyIs ==
    ASSUME NEW a, Consistent(a)
    PROVE  LET b == [a EXCEPT !.url = "port"]
           IN  Consistent(b) /\ Like(a, b) /\ b.pc = a.pc /\ b.handle = a.handle
<1> DEFINE b == [a EXCEPT !.url = "port"]
<1>1. b \in Agents /\ Like(a, b) /\ b.pc = a.pc /\ b.handle = a.handle
  BY DEF Consistent, Agents, Like
<1> HIDE DEF b
<1>2. Consistent(b)
  BY <1>1, LikeIs
<1> QED BY <1>1, <1>2 DEF b

LEMMA SpentIs ==
    ASSUME NEW a, Consistent(a), NEW n \in Nat
    PROVE  LET b == [a EXCEPT !.spent = n]
           IN  Consistent(b) /\ Like(a, b) /\ b.pc = a.pc /\ b.handle = a.handle
<1> DEFINE b == [a EXCEPT !.spent = n]
<1>1. b \in Agents /\ Like(a, b) /\ b.pc = a.pc /\ b.handle = a.handle
  BY DEF Consistent, Agents, Like
<1> HIDE DEF b
<1>2. Consistent(b)
  BY <1>1, LikeIs
<1> QED BY <1>1, <1>2 DEF b

(* The loop begins again.                                                  *)
LEMMA HeadInv ==
    ASSUME S!SessionConstants, SessionInv, NEW p \in Procs, NEW a, Consistent(a), TablesAre',
           a.id = proc[p].id, proc[p].pc \notin {"off", "closing"},
           proc' = [proc EXCEPT ![p] = S!LoopHead(a)], Len(sessions') = Len(sessions),
           \A id \in 1 .. Len(sessions) : sessions'[id].status = sessions[id].status,
           UNCHANGED <<left, alone>>, server' \in Procs \cup {None, Foreign},
           server' = p => a.handle = "child", server' \in Procs => server' = server
    PROVE  SessionInv'
<1> DEFINE b == S!LoopHead(a)
<1>1. Consistent(b) /\ Ruled(b) /\ b.pc = "prompt" /\ b.id = a.id /\ b.handle = a.handle
  BY LoopHeadIs
<1>2. a.id # 0
  BY DEF SessionInv, ProcIs
<1> HIDE DEF b
<1>3. ProcIs(b)
  BY <1>1, <1>2 DEF ProcIs
<1>4. b.pc = "closing" \/ proc[p].pc # "closing"
  OBVIOUS
<1>5. proc' = [proc EXCEPT ![p] = b]
  BY DEF b
<1>6. server' = p => b.handle = "child" /\ b.pc # "off"
  BY <1>1
<1> QED BY <1>1, <1>3, <1>4, <1>5, <1>6, StaysInv

LEMMA SessionTypes ==
    ASSUME S!SessionConstants, SessionInv
    PROVE  /\ MaxSessions \in Nat /\ Len(sessions) \in Nat /\ Len(left) = Len(sessions)
           /\ sessions \in Seq(S!Rows) /\ proc \in [Procs -> Agents]
           /\ \A p \in Procs : Consistent(proc[p]) /\ ProcIs(proc[p])
           /\ server \in Procs \cup {None, Foreign}
           /\ \A p \in Procs : proc[p].pc # "off" => proc[p].id \in 1 .. Len(sessions)
           /\ \A p \in Procs : server = p => proc[p].handle = "child" /\ proc[p].pc # "off"
<1>1. Len(sessions) \in Nat
  BY LenProperties DEF SessionInv, TablesAre
<1>2. \A p \in Procs : proc[p].pc # "off" => proc[p].id \in 1 .. Len(sessions)
  BY <1>1 DEF SessionInv, ProcIs
<1> QED BY <1>1, <1>2 DEF SessionInv, ProcIs, TablesAre, S!SessionConstants, S!ServerHasOwner,
             S!Running

LEMMA TablesStay == SessionInv /\ UNCHANGED <<S!tables, left>> => TablesAre'
  BY DEF SessionInv, S!tables, TablesAre, Placed

(* A command: whatever it makes of the agent, in the same place.           *)
LEMMA HandledInv ==
    ASSUME S!SessionConstants, SessionInv, NEW p \in Procs, NEW a, Consistent(a),
           Place(a) = Place(proc[p]), S!Handled(p, a)
    PROVE  SessionInv'
<1>1. /\ proc[p].pc = "prompt" /\ proc' = [proc EXCEPT ![p] = S!LoopHead(a)]
      /\ UNCHANGED <<S!tables, server, left, alone>>
  BY DEF S!Handled
<1>2. a.id = proc[p].id /\ a.handle = proc[p].handle
  BY DEF Place
<1>3. TablesAre' /\ sessions' = sessions
  BY <1>1, TablesStay DEF S!tables
<1> QED BY <1>1, <1>2, <1>3, SessionTypes, HeadInv

LEMMA CommandInv ==
    ASSUME S!SessionConstants, SessionInv, NEW p \in Procs,
           S!persona_command(p) \/ S!mode_command(p) \/ S!skill_command(p) \/ S!model_command(p)
             \/ S!backend_command(p)
    PROVE  SessionInv'
<1> DEFINE a == proc[p]
<1>0. Consistent(a)
  BY SessionTypes
<1> HIDE DEF a
<1>1. ASSUME NEW key \in Personas,
             S!Handled(p, S!activate_skills(S!set_persona(a, key), AutoSkills[key]))
      PROVE  SessionInv'
  <2>1. AutoSkills[key] \in SUBSET Skills
    BY DEF S!SessionConstants
  <2>2. Consistent(S!set_persona(a, key)) /\ Place(S!set_persona(a, key)) = Place(a)
    BY <1>0, PersonaIs
  <2>3. LET b == S!activate_skills(S!set_persona(a, key), AutoSkills[key])
        IN  Consistent(b) /\ Place(b) = Place(a)
    BY <2>1, <2>2, ActivatedAre
  <2> QED BY <1>1, <2>3, HandledInv DEF a
<1>2. ASSUME S!Handled(p, S!clear_skills(S!set_persona(a, None))) PROVE SessionInv'
  <2>1. Consistent(S!set_persona(a, None)) /\ Place(S!set_persona(a, None)) = Place(a)
    BY <1>0, PersonaIs
  <2>2. LET b == S!clear_skills(S!set_persona(a, None)) IN Consistent(b) /\ Place(b) = Place(a)
    BY <2>1, ClearedAre
  <2> QED BY <1>2, <2>2, HandledInv DEF a
<1>3. ASSUME NEW m \in S!Modes, S!Handled(p, S!set_mode(a, m)) PROVE SessionInv'
  BY <1>0, <1>3, ModeIs, HandledInv DEF a
<1>4. ASSUME NEW s \in Skills, S!Handled(p, S!activate_skills(a, {s})) PROVE SessionInv'
  <2>1. {s} \in SUBSET Skills
    OBVIOUS
  <2> QED BY <1>0, <1>4, <2>1, ActivatedAre, HandledInv DEF a
<1>5. ASSUME S!Handled(p, S!clear_skills(a)) PROVE SessionInv'
  BY <1>0, <1>5, ClearedAre, HandledInv DEF a
<1>6. ASSUME NEW m \in Models,
             S!Handled(p, S!apply_model_profile([S!set_model(a, m) EXCEPT !.sampling = None]))
      PROVE  SessionInv'
  BY <1>0, <1>6, ChosenModelIs, HandledInv DEF a
<1>7. ASSUME S!Handled(p, [a EXCEPT !.url = "chosen"]) PROVE SessionInv'
  BY <1>0, <1>7, UrlIs, HandledInv DEF a
<1> QED BY <1>1, <1>2, <1>3, <1>4, <1>5, <1>6, <1>7 DEF S!persona_command, S!mode_command,
           S!skill_command, S!model_command, S!backend_command, a

(* The server: it is stopped by its owner only, and started for a process  *)
(* that has the handle of a child.                                         *)
LEMMA StoppedIs ==
    ASSUME S!SessionConstants, SessionInv, NEW p \in Procs
    PROVE  /\ S!Stopped(p) \in Procs \cup {None, Foreign} /\ S!Stopped(p) # p
           /\ S!Stopped(p) \in Procs => S!Stopped(p) = server
  BY DEF S!SessionConstants, SessionInv, S!Stopped, S!Own

LEMMA BackendInv ==
    ASSUME S!SessionConstants, SessionInv, NEW p \in Procs,
           S!BackendStart(p) \/ S!ServerBinds(p) \/ S!BackendReady(p) \/ S!BackendFails(p)
             \/ S!BackendStop(p)
    PROVE  SessionInv'
<1> DEFINE a == proc[p]
<1>0. /\ Consistent(a) /\ ProcIs(a) /\ server \in Procs \cup {None, Foreign}
      /\ proc \in [Procs -> Agents]
      /\ server = p => a.handle = "child" /\ a.pc # "off"
  BY SessionTypes
<1>1. /\ TablesAre' /\ Len(sessions') = Len(sessions) /\ sessions' = sessions
      /\ UNCHANGED <<left, alone>>
  <2>1. UNCHANGED <<S!tables, left, alone>>
    BY DEF S!BackendStart, S!ServerBinds, S!BackendReady, S!BackendFails, S!BackendStop
  <2> QED BY <2>1, TablesStay DEF S!tables
<1>2. CASE S!BackendStart(p)
  <2>1. proc[p].pc = "prompt" /\ server' = S!Stopped(p)
    BY <1>2 DEF S!BackendStart
  <2>2. CASE server' = None
    <3> DEFINE b == [a EXCEPT !.pc = "starting", !.handle = "child"]
    <3>1. Consistent(b) /\ Like(a, b) /\ b.pc = "starting" /\ b.handle = "child"
      BY <1>0, StartingIs
    <3>2. proc' = [proc EXCEPT ![p] = b]
      BY <1>2, <2>2 DEF S!BackendStart
    <3> HIDE DEF b
    <3>3. ProcIs(b) /\ b.id = a.id
      BY <1>0, <2>1, <3>1 DEF ProcIs, Ruled, Like
    <3> HIDE DEF a
    <3> QED BY <1>1, <2>1, <2>2, <3>1, <3>2, <3>3, StoppedIs, StaysInv DEF a
  <2>3. CASE server' # None
    <3> DEFINE b == [a EXCEPT !.handle = "shared", !.url = "port"]
    <3>1. Consistent(b) /\ Like(a, b)
      BY <1>0, PortIs
    <3>2. proc' = [proc EXCEPT ![p] = S!LoopHead(b)]
      BY <1>2, <2>3 DEF S!BackendStart
    <3> HIDE DEF b
    <3>3. b.id = a.id
      BY <3>1 DEF Like
    <3> QED BY <1>1, <2>1, <3>1, <3>2, <3>3, StoppedIs, HeadInv
  <2> QED BY <2>2, <2>3
<1>3. CASE S!ServerBinds(p)
  <2>1. a.pc = "starting" /\ server' = p /\ proc' = proc
    BY <1>3 DEF S!ServerBinds
  <2>2. a.handle = "child"
    BY <1>0, <2>1 DEF ProcIs
  <2>3. proc' = [proc EXCEPT ![p] = a]
    BY <1>0, <2>1
  <2> QED BY <1>0, <1>1, <2>1, <2>2, <2>3, StaysInv
<1>4. CASE S!BackendReady(p)
  <2> DEFINE b == [a EXCEPT !.url = "port"]
  <2>1. Consistent(b) /\ Like(a, b) /\ b.handle = a.handle
    BY <1>0, PortOnlyIs
  <2>2. proc' = [proc EXCEPT ![p] = S!LoopHead(b)] /\ a.pc = "starting" /\ server' = server
    BY <1>4 DEF S!BackendReady
  <2> HIDE DEF b
  <2>3. b.id = a.id
    BY <2>1 DEF Like
  <2> QED BY <1>0, <1>1, <2>1, <2>2, <2>3, HeadInv
<1>5. CASE S!BackendFails(p) \/ S!BackendStop(p)
  <2> DEFINE b == [a EXCEPT !.handle = "none"]
  <2>1. Consistent(b) /\ Like(a, b)
    BY <1>0, HandleIs
  <2>2. proc' = [proc EXCEPT ![p] = S!LoopHead(b)] /\ a.pc \in {"starting", "prompt"}
        /\ server' = S!Stopped(p)
    BY <1>5 DEF S!BackendFails, S!BackendStop
  <2> HIDE DEF b
  <2>3. b.id = a.id
    BY <2>1 DEF Like
  <2> QED BY <1>1, <2>1, <2>2, <2>3, StoppedIs, HeadInv
<1> QED BY <1>2, <1>3, <1>4, <1>5

(* A turn, and the end of the input.                                       *)
LEMMA TurnInv ==
    ASSUME S!SessionConstants, SessionInv, NEW p \in Procs,
           S!TurnBegin(p) \/ S!TurnEnd(p, TRUE) \/ S!TurnEnd(p, FALSE) \/ S!TurnCancelled(p)
             \/ S!EndOfInput(p)
    PROVE  SessionInv'
<1> DEFINE a == proc[p]
           n == Len(sessions)
<1>0. /\ Consistent(a) /\ ProcIs(a) /\ server \in Procs \cup {None, Foreign}
      /\ proc \in [Procs -> Agents] /\ Len(left) = n
      /\ server = p => a.handle = "child" /\ a.pc # "off"
  BY SessionTypes
<1>1. a.pc # "off" => a.id \in 1 .. n /\ sessions[a.id] \in S!Rows
  BY SessionTypes, ElementOfSeq
<1>2. left \in Seq({"running", "exit", "done", "killed"})
  BY DEF SessionInv, TablesAre
<1>3. CASE S!TurnBegin(p)
  <2> DEFINE b == [a EXCEPT !.pc = "turn"]
  <2>1. /\ a.pc = "prompt" /\ proc' = [proc EXCEPT ![p] = b] /\ UNCHANGED <<server, left, alone>>
        /\ S!Update(a.id, sessions[a.id])
    <3>1. proc' = [proc EXCEPT ![p].pc = "turn"]
      BY <1>3 DEF S!TurnBegin
    <3> QED BY <1>0, <1>3, <3>1 DEF S!TurnBegin
  <2>2. Consistent(b) /\ Like(a, b) /\ b.pc = "turn" /\ b.handle = a.handle
        /\ S!is_kids_mode(b) = S!is_kids_mode(a)
    <3>1. "turn" \in ProcessStates
      BY DEF ProcessStates
    <3>2. Consistent(b) /\ Like(a, b) /\ b.pc = "turn" /\ b.handle = a.handle
      BY <1>0, <3>1, PcIs
    <3> QED BY <1>0, <3>2, LikeIs DEF Consistent
  <2> HIDE DEF b
  <2>3. ProcIs(b) /\ b.id = a.id
    BY <1>0, <2>1, <2>2 DEF ProcIs, Ruled, Like
  <2>4. TablesAre' /\ Len(sessions') = n /\ \A j \in 1 .. n : sessions'[j] = sessions[j]
    BY <1>0, <1>1, <1>2, <2>1, UpdateIs
  <2> QED BY <1>0, <2>1, <2>2, <2>3, <2>4, StaysInv
<1>4. ASSUME NEW complete \in BOOLEAN, S!TurnEnd(p, complete) PROVE SessionInv'
  <2> DEFINE b == [a EXCEPT !.spent = a.spent + 1]
             row == [sessions[a.id] EXCEPT !.total = b.spent]
             last == [row EXCEPT !.persona = b.persona, !.mode = b.mode, !.skills = b.skills]
  <2>1. a.pc = "turn" /\ UNCHANGED <<server, left, alone>>
    BY <1>4 DEF S!TurnEnd
  <2>2. /\ Consistent(b) /\ Like(a, b) /\ b.handle = a.handle
        /\ b.spent \in Nat
    <3>1. a.spent + 1 \in Nat
      BY <1>0 DEF Consistent, Agents
    <3>2. Consistent(b) /\ Like(a, b) /\ b.handle = a.handle
      BY <1>0, <3>1, SpentIs
    <3> QED BY <3>2 DEF Consistent, Agents
  <2>3. S!Update(a.id, IF complete THEN last ELSE row) /\ proc' = [proc EXCEPT ![p] = S!LoopHead(b)]
    <3>1. b.id = a.id
      BY <2>2 DEF Like
    <3> QED BY <1>4, <3>1 DEF S!TurnEnd, S!persist_snapshot, S!update_session_usage
  <2>4. b.persona \in Personas \cup {None} /\ b.mode \in S!Modes /\ b.skills \in SUBSET Skills
    BY <2>2 DEF Consistent, Agents
  <2> HIDE DEF b
  <2>5. row \in S!Rows /\ last \in S!Rows /\ row.status = sessions[a.id].status
        /\ last.status = sessions[a.id].status
    BY <1>1, <2>1, <2>2, <2>4 DEF S!Rows
  <2> HIDE DEF row, last
  <2>6. /\ TablesAre' /\ Len(sessions') = n
        /\ \A j \in 1 .. n : sessions'[j] =
             IF j = a.id THEN IF complete THEN last ELSE row ELSE sessions[j]
    <3>1. (IF complete THEN last ELSE row) \in S!Rows
      BY <2>5
    <3> QED BY <1>0, <1>1, <1>2, <2>1, <2>3, <3>1, UpdateIs
  <2>7. \A j \in 1 .. n : sessions'[j].status = sessions[j].status
    BY <2>5, <2>6
  <2>8. b.id = a.id
    BY <2>2 DEF Like
  <2> QED BY <1>0, <2>1, <2>2, <2>3, <2>6, <2>7, <2>8, HeadInv
<1>5. CASE S!TurnCancelled(p)
  <2>1. /\ a.pc = "turn" /\ proc' = [proc EXCEPT ![p] = S!LoopHead(a)]
        /\ UNCHANGED <<S!tables, left, alone>>
        /\ server' \in IF S!Own(p) THEN {server, None} ELSE {server}
    BY <1>5 DEF S!TurnCancelled
  <2>2. server' \in Procs \cup {None, Foreign} /\ (server' \in Procs => server' = server)
    BY <1>0, <2>1 DEF S!SessionConstants
  <2>3. TablesAre' /\ sessions' = sessions
    BY <2>1, TablesStay DEF S!tables
  <2> QED BY <1>0, <2>1, <2>2, <2>3, HeadInv
<1>6. CASE S!EndOfInput(p)
  <2> DEFINE b == [a EXCEPT !.pc = "closing"]
  <2>1. a.pc = "prompt" /\ proc' = [proc EXCEPT ![p] = b]
        /\ UNCHANGED <<S!tables, server, left, alone>>
    <3>1. proc' = [proc EXCEPT ![p].pc = "closing"]
      BY <1>6 DEF S!EndOfInput
    <3> QED BY <1>0, <1>6, <3>1 DEF S!EndOfInput
  <2>2. Consistent(b) /\ Like(a, b) /\ b.pc = "closing" /\ b.handle = a.handle
    <3>1. "closing" \in ProcessStates
      BY DEF ProcessStates
    <3> QED BY <1>0, <3>1, PcIs
  <2> HIDE DEF b
  <2>3. ProcIs(b) /\ b.id = a.id
    BY <1>0, <2>1, <2>2 DEF ProcIs, Ruled, Like
  <2>4. TablesAre' /\ sessions' = sessions
    BY <2>1, TablesStay DEF S!tables
  <2> QED BY <1>0, <2>1, <2>2, <2>3, <2>4, StaysInv
<1> QED BY <1>3, <1>4, <1>5, <1>6

(* The end of the session, and of processes.                               *)
LEMMA EndSessionInv ==
    ASSUME S!SessionConstants, SessionInv, NEW p \in Procs, S!EndSession(p) PROVE SessionInv'
<1> DEFINE a == proc[p]
           n == Len(sessions)
           b == [a EXCEPT !.pc = "closing"]
           row == [sessions[a.id] EXCEPT !.status = "completed"]
<1>0. /\ Consistent(a) /\ ProcIs(a) /\ server \in Procs \cup {None, Foreign}
      /\ proc \in [Procs -> Agents] /\ Len(left) = n /\ n \in Nat
      /\ server = p => a.handle = "child" /\ a.pc # "off"
  BY SessionTypes
<1>1. a.pc = "prompt" /\ S!Update(a.id, row) /\ UNCHANGED <<server, left, alone>>
      /\ proc' = [proc EXCEPT ![p] = b]
  <2>1. proc' = [proc EXCEPT ![p].pc = "closing"]
    BY DEF S!EndSession
  <2> QED BY <1>0, <2>1 DEF S!EndSession
<1>2. a.id \in 1 .. n /\ sessions[a.id] \in S!Rows
  BY <1>1, SessionTypes, ElementOfSeq
<1>3. row \in S!Rows
  BY <1>2 DEF S!Rows
<1>4. /\ TablesAre' /\ Len(sessions') = n
      /\ \A j \in 1 .. n : sessions'[j] = IF j = a.id THEN row ELSE sessions[j]
  <2>1. left \in Seq({"running", "exit", "done", "killed"})
    BY DEF SessionInv, TablesAre
  <2> HIDE DEF row
  <2> QED BY <1>0, <1>1, <1>2, <1>3, <2>1, UpdateIs
<1>5. Consistent(b) /\ Like(a, b) /\ b.pc = "closing" /\ b.handle = a.handle
  <2>1. "closing" \in ProcessStates
    BY DEF ProcessStates
  <2> QED BY <1>0, <2>1, PcIs
<1> HIDE DEF b
<1>6. ProcIs(b) /\ b.id = a.id
  BY <1>0, <1>1, <1>5 DEF ProcIs, Ruled, Like
<1>7. \A q \in Procs : proc'[q] = IF q = p THEN b ELSE proc[q]
  BY <1>0, <1>1
<1>8. ASSUME NEW id \in alone PROVE Solo(sessions', proc', left', id)
  <2>1. Solo(sessions, proc, left, id) /\ id \in 1 .. n
    BY DEF SessionInv
  <2>2. CASE id = a.id
    <3>1. left[id] = "running" /\ \A q \in Procs : proc[q].id = id => q = p
      BY <2>1, <2>2 DEF Solo
    <3> QED BY <1>1, <1>5, <1>6, <1>7, <2>2, <3>1 DEF Solo
  <2>3. CASE id # a.id
    <3>1. sessions'[id] = sessions[id]
      BY <1>4, <2>1, <2>3
    <3> QED BY <1>1, <1>6, <1>7, <2>1, <2>3, <3>1 DEF Solo
  <2> QED BY <2>2, <2>3
<1>9. /\ b.id \in 0 .. Len(sessions') /\ Len(sessions) <= Len(sessions')
      /\ alone' \subseteq 1 .. Len(sessions')
      /\ \A id \in alone' : Solo(sessions', proc', left', id)
  <2>1. b.id \in 0 .. Len(sessions') /\ Len(sessions) <= Len(sessions')
    BY <1>0, <1>2, <1>4, <1>6
  <2>2. alone' \subseteq 1 .. Len(sessions')
    BY <1>1, <1>4 DEF SessionInv
  <2>3. \A id \in alone' : Solo(sessions', proc', left', id)
    BY <1>1, <1>8
  <2> QED BY <2>1, <2>2, <2>3
<1>10. server' \in Procs \cup {None, Foreign} /\ (server' \in Procs => server' \in {p, server})
       /\ (server' = p => b.handle = "child" /\ b.pc # "off")
  BY <1>0, <1>1, <1>5
<1> QED BY <1>1, <1>4, <1>6, <1>9, <1>10, ProcessMoves

LEMMA OffIs == S!SessionConstants => ProcIs(S!Off) /\ S!Off.id = 0 /\ S!Off.pc = "off"
<1> SUFFICES ASSUME S!SessionConstants PROVE ProcIs(S!Off) /\ S!Off.id = 0 /\ S!Off.pc = "off"
  OBVIOUS
<1> DEFINE a == S!New(0)
           b == [a EXCEPT !.pc = "off"]
<1>1. Consistent(a) /\ a.id = 0
  BY NewIs DEF Place
<1>2. Consistent(b) /\ Like(a, b) /\ b.pc = "off"
  <2>1. "off" \in ProcessStates
    BY DEF ProcessStates
  <2> HIDE DEF a
  <2> QED BY <1>1, <2>1, PcIs
<1>3. S!Off = b
  BY DEF S!Off
<1> HIDE DEF b
<1> QED BY <1>1, <1>2, <1>3 DEF ProcIs, Ruled, Like

(* A process ends: the rows are those of before but for one's, which has   *)
(* the status the way it ended gives it.                                   *)
LEMMA LeavesInv ==
    ASSUME S!SessionConstants, SessionInv, NEW p \in Procs, TablesAre', proc[p].pc # "off",
           proc' = [proc EXCEPT ![p] = S!Off], Len(sessions') = Len(sessions),
           \A j \in 1 .. Len(sessions) : j # proc[p].id =>
             sessions'[j].status = sessions[j].status /\ left'[j] = left[j],
           LET how == left'[proc[p].id]
           IN  \/ how = "exit" /\ sessions'[proc[p].id].status = "paused"
               \/ /\ how = "done" /\ proc[p].pc = "batch"
                  /\ sessions'[proc[p].id].status = sessions[proc[p].id].status
               \/ how = "killed",
           alone' = alone, server' \in Procs \cup {None, Foreign}, server' # p,
           server' \in Procs => server' = server
    PROVE  SessionInv'
<1> DEFINE a == proc[p]
           b == S!Off
<1>0. /\ Len(sessions) \in Nat /\ proc \in [Procs -> Agents] /\ a.id \in 1 .. Len(sessions)
  BY SessionTypes
<1>1. ProcIs(b) /\ b.id = 0 /\ b.pc = "off"
  BY OffIs
<1> HIDE DEF b
<1>2. \A q \in Procs : proc'[q] = IF q = p THEN b ELSE proc[q]
  BY <1>0 DEF b
<1>3. ASSUME NEW id \in alone PROVE Solo(sessions', proc', left', id)
  <2>1. Solo(sessions, proc, left, id) /\ id \in 1 .. Len(sessions) /\ id # 0
    BY <1>0 DEF SessionInv
  <2>2. CASE id = a.id
    <3>1. \A q \in Procs : proc'[q].id # id
      BY <1>1, <1>2, <2>1, <2>2 DEF Solo
    <3>2. a.pc = "batch" => sessions[id].status = "active"
      BY <2>1, <2>2 DEF Solo
    <3> QED BY <2>2, <3>1, <3>2 DEF Solo
  <2>3. CASE id # a.id
    <3>1. sessions'[id].status = sessions[id].status /\ left'[id] = left[id]
      BY <2>1, <2>3
    <3> QED BY <1>1, <1>2, <2>1, <3>1 DEF Solo
  <2> QED BY <2>2, <2>3
<1>4. /\ b.id \in 0 .. Len(sessions') /\ Len(sessions) <= Len(sessions')
      /\ alone' \subseteq 1 .. Len(sessions')
      /\ \A id \in alone' : Solo(sessions', proc', left', id)
  <2>1. b.id \in 0 .. Len(sessions') /\ Len(sessions) <= Len(sessions')
    BY <1>0, <1>1
  <2>2. alone' \subseteq 1 .. Len(sessions')
    BY DEF SessionInv
  <2>3. \A id \in alone' : Solo(sessions', proc', left', id)
    BY <1>3
  <2> QED BY <2>1, <2>2, <2>3
<1> QED BY <1>1, <1>4, ProcessMoves DEF b

LEMMA EndsInv ==
    ASSUME S!SessionConstants, SessionInv, NEW p \in Procs,
           S!EndBatch(p) \/ S!Close(p) \/ S!Killed(p)
    PROVE  SessionInv'
<1> DEFINE a == proc[p]
           n == Len(sessions)
           Ends == {"running", "exit", "done", "killed"}
<1>0. /\ Consistent(a) /\ ProcIs(a) /\ server \in Procs \cup {None, Foreign}
      /\ proc \in [Procs -> Agents] /\ Len(left) = n /\ n \in Nat
      /\ server = p => a.handle = "child" /\ a.pc # "off"
  BY SessionTypes
<1>1. a.pc # "off" /\ proc' = [proc EXCEPT ![p] = S!Off] /\ alone' = alone
  BY DEF S!EndBatch, S!Close, S!Killed, S!Running
<1>2. a.id \in 1 .. n /\ sessions[a.id] \in S!Rows
  BY <1>1, SessionTypes, ElementOfSeq
<1>3. left \in Seq(Ends)
  BY DEF SessionInv, TablesAre
<1>4. ASSUME NEW how \in {"exit", "done", "killed"}, left' = [left EXCEPT ![a.id] = how]
      PROVE  /\ left' \in Seq(Ends) /\ Len(left') = n
             /\ \A j \in 1 .. n : left'[j] = IF j = a.id THEN how ELSE left[j]
  <2>1. how \in Ends
    OBVIOUS
  <2> HIDE DEF Ends
  <2> QED BY <1>0, <1>2, <1>3, <1>4, <2>1, ExceptSeq
<1>5. CASE S!EndBatch(p)
  <2> DEFINE row == [sessions[a.id] EXCEPT !.total = 1]
  <2>1. a.pc = "batch" /\ S!Update(a.id, row) /\ left' = [left EXCEPT ![a.id] = "done"]
        /\ server' = server
    BY <1>5 DEF S!EndBatch
  <2>2. row \in S!Rows /\ row.status = sessions[a.id].status
    BY <1>2 DEF S!Rows
  <2> HIDE DEF row
  <2>3. /\ left' \in Seq(Ends) /\ Len(left') = n
        /\ \A j \in 1 .. n : left'[j] = IF j = a.id THEN "done" ELSE left[j]
    BY <1>4, <2>1
  <2>4. /\ TablesAre' /\ Len(sessions') = n
        /\ \A j \in 1 .. n : sessions'[j] = IF j = a.id THEN row ELSE sessions[j]
    BY <1>0, <1>2, <2>1, <2>2, <2>3, UpdateIs
  <2>5. server' # p
    BY <1>0, <2>1 DEF ProcIs
  <2> QED BY <1>0, <1>1, <1>2, <2>1, <2>2, <2>3, <2>4, <2>5, LeavesInv
<1>6. CASE S!Close(p)
  <2> DEFINE row == [sessions[a.id] EXCEPT !.status = "paused"]
  <2>1. S!Update(a.id, row) /\ left' = [left EXCEPT ![a.id] = "exit"] /\ server' = S!Stopped(p)
    BY <1>6 DEF S!Close
  <2>2. row \in S!Rows /\ row.status = "paused"
    BY <1>2 DEF S!Rows
  <2> HIDE DEF row
  <2>3. /\ left' \in Seq(Ends) /\ Len(left') = n
        /\ \A j \in 1 .. n : left'[j] = IF j = a.id THEN "exit" ELSE left[j]
    BY <1>4, <2>1
  <2>4. /\ TablesAre' /\ Len(sessions') = n
        /\ \A j \in 1 .. n : sessions'[j] = IF j = a.id THEN row ELSE sessions[j]
    BY <1>0, <1>2, <2>1, <2>2, <2>3, UpdateIs
  <2> QED BY <1>0, <1>1, <1>2, <2>1, <2>2, <2>3, <2>4, StoppedIs, LeavesInv
<1>7. CASE S!Killed(p)
  <2>1. /\ left' = [left EXCEPT ![a.id] = "killed"] /\ UNCHANGED S!tables
        /\ server' \in IF S!Own(p) THEN {Foreign, None} ELSE {server}
    BY <1>7 DEF S!Killed
  <2>2. server' \in Procs \cup {None, Foreign} /\ server' # p
        /\ (server' \in Procs => server' = server)
    BY <1>0, <2>1 DEF S!SessionConstants, S!Own
  <2>3. /\ left' \in Seq(Ends) /\ Len(left') = n
        /\ \A j \in 1 .. n : left'[j] = IF j = a.id THEN "killed" ELSE left[j]
    BY <1>4, <2>1
  <2>4. TablesAre' /\ sessions' = sessions
    BY <2>1, <2>3 DEF SessionInv, S!tables, TablesAre, Placed
  <2> QED BY <1>0, <1>1, <1>2, <2>2, <2>3, <2>4, LeavesInv
<1> QED BY <1>5, <1>6, <1>7


(* A process begins: with a session of its own, or with one of the table.  *)
LEMMA JoinsInv ==
    ASSUME S!SessionConstants, SessionInv, NEW p \in Procs, proc[p].pc = "off", NEW a, ProcIs(a),
           TablesAre', proc' = [proc EXCEPT ![p] = a], a.pc \in {"prompt", "batch"},
           Len(sessions) <= Len(sessions'), a.id \in 1 .. Len(sessions'),
           \A j \in 1 .. Len(sessions) : j # a.id =>
             sessions'[j].status = sessions[j].status /\ left'[j] = left[j],
           sessions'[a.id].status = "active", left'[a.id] = "running",
           alone' \subseteq alone \cup {a.id}, S!InUse(a.id) => a.id \notin alone', server' = server
    PROVE  SessionInv'
<1>0. /\ Len(sessions) \in Nat /\ proc \in [Procs -> Agents] /\ server # p
      /\ server \in Procs \cup {None, Foreign}
  BY SessionTypes
<1>1. \A q \in Procs : proc'[q] = IF q = p THEN a ELSE proc[q]
  BY <1>0
<1>2. ASSUME NEW id \in alone' PROVE Solo(sessions', proc', left', id)
  <2>1. CASE id = a.id
    <3>1. \A q \in Procs : q # p => proc[q].id # id
      <4>1. ~S!InUse(id) /\ id # 0
        BY <2>1
      <4> QED BY <4>1 DEF S!InUse, S!Running, SessionInv, ProcIs
    <3> QED BY <1>1, <2>1, <3>1 DEF Solo
  <2>2. CASE id # a.id
    <3>1. id \in alone /\ id \in 1 .. Len(sessions)
      BY <2>2 DEF SessionInv
    <3>2. Solo(sessions, proc, left, id)
      BY <3>1 DEF SessionInv
    <3>3. sessions'[id].status = sessions[id].status /\ left'[id] = left[id]
      BY <2>2, <3>1
    <3>4. proc[p].id # id
      <4>1. proc[p].id = 0 /\ id # 0
        BY <3>1 DEF SessionInv, ProcIs
      <4> QED BY <4>1
    <3> QED BY <1>1, <2>2, <3>2, <3>3, <3>4 DEF Solo
  <2> QED BY <2>1, <2>2
<1>3. a.id \in 0 .. Len(sessions')
  OBVIOUS
<1>4. alone' \subseteq 1 .. Len(sessions')
  <2>1. Len(sessions') \in Nat
    BY LenProperties DEF TablesAre
  <2>2. 1 .. Len(sessions) \subseteq 1 .. Len(sessions')
    BY <1>0, <2>1
  <2> QED BY <2>2 DEF SessionInv
<1>5. \A id \in alone' : Solo(sessions', proc', left', id)
  BY <1>2
<1> QED BY <1>0, <1>3, <1>4, <1>5, ProcessMoves

LEMMA EnterIs ==
    ASSUME S!SessionConstants, NEW p \in Procs, NEW a, Consistent(a), a.id # 0,
           NEW pr \in Profiles \cup {S!NoProfile}
    PROVE  LET b == S!LoopHead(S!apply_launch_profile(S!apply_model_profile(a), pr))
           IN  /\ ProcIs(b) /\ b.pc = "prompt" /\ b.id = a.id /\ a.skills \subseteq b.skills
               /\ b.persona = a.persona
                  \/ (pr \in Profiles /\ pr.persona # None /\ b.persona = pr.persona)
<1> DEFINE c == S!apply_model_profile(a)
           d == S!apply_launch_profile(c, pr)
           b == S!LoopHead(d)
<1>1. Consistent(c) /\ Place(c) = Place(a) /\ c.persona = a.persona /\ c.skills = a.skills
  BY ModelIs DEF Consistent
<1> HIDE DEF c
<1>2. /\ Consistent(d) /\ Place(d) = Place(c) /\ c.skills \subseteq d.skills
      /\ d.persona = c.persona \/ (pr \in Profiles /\ pr.persona # None /\ d.persona = pr.persona)
  BY <1>1, LaunchIs
<1> HIDE DEF d
<1>3. /\ Consistent(b) /\ Ruled(b) /\ b.pc = "prompt" /\ b.id = d.id /\ b.handle = d.handle
      /\ b.persona = d.persona /\ b.skills = d.skills
  BY <1>2, LoopHeadIs
<1>4. b.id = a.id
  BY <1>1, <1>2, <1>3 DEF Place
<1> HIDE DEF b
<1>5. ProcIs(b)
  BY <1>3, <1>4 DEF ProcIs
<1> QED BY <1>1, <1>2, <1>3, <1>4, <1>5 DEF b, d, c

LEMMA RowIs == S!SessionConstants => S!Row \in S!Rows /\ S!Row.status = "active"
  BY DEF S!Row, S!Rows, S!Modes

LEMMA StartsInv ==
    ASSUME S!SessionConstants, SessionInv, NEW p \in Procs, S!StartNew(p) \/ S!StartBatch(p)
    PROVE  SessionInv'
<1> DEFINE n == Len(sessions)
           id == n + 1
           a == S!New(id)
<1>0. /\ n \in Nat /\ MaxSessions \in Nat /\ Len(left) = n /\ id \in Nat /\ id # 0
      /\ \A q \in Procs : proc[q].pc # "off" => proc[q].id \in 1 .. n
  BY SessionTypes
<1>1. /\ proc[p].pc = "off" /\ n < MaxSessions /\ sessions' = Append(sessions, S!Row)
      /\ updated' = Append(updated, id) /\ left' = Append(left, "running")
      /\ alone' = alone \cup {id} /\ server' = server
  BY DEF S!StartNew, S!StartBatch, S!Running, S!Enter
<1>2. /\ TablesAre' /\ Len(sessions') = n + 1
      /\ \A j \in 1 .. n : sessions'[j] = sessions[j] /\ left'[j] = left[j]
      /\ sessions'[n + 1] = S!Row /\ left'[n + 1] = "running" /\ S!Row.status = "active"
  BY <1>0, <1>1, AddIs, RowIs
<1>3. Consistent(a) /\ Place(a) = <<"prompt", id, "none", 0>>
  BY <1>0, NewIs
<1>4. \E b : /\ ProcIs(b) /\ b.pc \in {"prompt", "batch"} /\ b.id = id
             /\ proc' = [proc EXCEPT ![p] = b]
  <2>1. CASE S!StartNew(p)
    <3>1. PICK pr \in Profiles \cup {S!NoProfile} :
            proc' = [proc EXCEPT ![p] =
                       S!LoopHead(S!apply_launch_profile(S!apply_model_profile(a), pr))]
      BY <2>1 DEF S!StartNew, S!Enter
    <3> HIDE DEF a
    <3>2. a.id = id /\ a.id # 0
      BY <1>0, <1>3 DEF Place
    <3> HIDE DEF id
    <3> QED BY <1>3, <3>1, <3>2, EnterIs
  <2>2. CASE S!StartBatch(p)
    <3> DEFINE b == [a EXCEPT !.pc = "batch"]
    <3>1. proc' = [proc EXCEPT ![p] = b]
      BY <2>2 DEF S!StartBatch
    <3> HIDE DEF a
    <3>2. Consistent(b) /\ Like(a, b) /\ b.pc = "batch" /\ b.handle = a.handle
      <4>1. "batch" \in ProcessStates
        BY DEF ProcessStates
      <4> QED BY <1>3, <4>1, PcIs
    <3> HIDE DEF b
    <3>3. b.id = id /\ b.handle = "none"
      BY <1>3, <3>2 DEF Place, Like
    <3>4. ProcIs(b)
      BY <1>0, <3>2, <3>3 DEF ProcIs, Ruled
    <3> QED BY <3>1, <3>2, <3>3, <3>4
  <2> QED BY <2>1, <2>2
<1> HIDE DEF a
<1>5. PICK b : /\ ProcIs(b) /\ b.pc \in {"prompt", "batch"} /\ b.id = id
               /\ proc' = [proc EXCEPT ![p] = b]
  BY <1>4
<1>6. ~S!InUse(id)
  <2>1. id \notin 1 .. n
    BY <1>0
  <2> QED BY <1>0, <2>1 DEF S!InUse, S!Running
<1>7. Len(sessions) <= Len(sessions') /\ b.id \in 1 .. Len(sessions')
  BY <1>0, <1>2, <1>5
<1>8. /\ \A j \in 1 .. n : sessions'[j].status = sessions[j].status /\ left'[j] = left[j]
      /\ sessions'[b.id].status = "active" /\ left'[b.id] = "running"
      /\ alone' \subseteq alone \cup {b.id} /\ ~S!InUse(b.id)
  BY <1>1, <1>2, <1>5, <1>6
<1> QED BY <1>1, <1>2, <1>5, <1>7, <1>8, JoinsInv

(* What the process that resumes a session is.                             *)
LEMMA ResumeMakes ==
    ASSUME S!SessionConstants, SessionInv, NEW p \in Procs, NEW id \in 1 .. Len(sessions),
           S!Resume(p, id)
    PROVE  \E b : /\ ProcIs(b) /\ b.pc = "prompt" /\ b.id = id /\ proc' = [proc EXCEPT ![p] = b]
                  /\ sessions[id].skills \subseteq b.skills
                  /\ \/ b.persona = sessions[id].persona
                     \/ \E pr \in Profiles : pr.persona # None /\ pr.persona = b.persona
<1> DEFINE a == S!resume(id)
<1>1. sessions[id] \in S!Rows /\ id \in Nat /\ id # 0
  BY SessionTypes, ElementOfSeq
<1>2. /\ Consistent(a) /\ Place(a) = <<"prompt", id, "none", 0>>
      /\ a.persona = sessions[id].persona /\ a.skills = sessions[id].skills
  BY <1>1, ResumedIs
<1>3. PICK pr \in Profiles \cup {S!NoProfile} :
        proc' = [proc EXCEPT ![p] =
                   S!LoopHead(S!apply_launch_profile(S!apply_model_profile(a), pr))]
  BY DEF S!Resume, S!Enter
<1> HIDE DEF a
<1>4. a.id = id
  BY <1>2 DEF Place
<1> DEFINE b == S!LoopHead(S!apply_launch_profile(S!apply_model_profile(a), pr))
<1>5. /\ ProcIs(b) /\ b.pc = "prompt" /\ b.id = a.id /\ a.skills \subseteq b.skills
      /\ b.persona = a.persona \/ (pr \in Profiles /\ pr.persona # None /\ b.persona = pr.persona)
  BY <1>1, <1>2, <1>4, EnterIs
<1> HIDE DEF b
<1>6. proc' = [proc EXCEPT ![p] = b]
  BY <1>3 DEF b
<1> QED BY <1>2, <1>4, <1>5, <1>6

LEMMA ResumeInv ==
    ASSUME S!SessionConstants, SessionInv, NEW p \in Procs, NEW id \in 1 .. Len(sessions),
           S!Resume(p, id)
    PROVE  SessionInv'
<1> DEFINE n == Len(sessions)
           Ends == {"running", "exit", "done", "killed"}
           row == [sessions[id] EXCEPT !.status = "active"]
<1>0. n \in Nat /\ Len(left) = n /\ sessions[id] \in S!Rows /\ left \in Seq(Ends)
  BY SessionTypes, ElementOfSeq DEF SessionInv, TablesAre
<1>1. /\ proc[p].pc = "off" /\ S!Update(id, row) /\ left' = [left EXCEPT ![id] = "running"]
      /\ alone' = (IF S!InUse(id) THEN alone \ {id} ELSE alone \cup {id}) /\ server' = server
  BY DEF S!Resume, S!Running, S!Enter
<1>2. row \in S!Rows /\ row.status = "active"
  BY <1>0 DEF S!Rows
<1> HIDE DEF row
<1>3. /\ left' \in Seq(Ends) /\ Len(left') = n
      /\ \A j \in 1 .. n : left'[j] = IF j = id THEN "running" ELSE left[j]
  <2>1. "running" \in Ends
    OBVIOUS
  <2> HIDE DEF Ends
  <2> QED BY <1>0, <1>1, <2>1, ExceptSeq
<1>4. /\ TablesAre' /\ Len(sessions') = n
      /\ \A j \in 1 .. n : sessions'[j] = IF j = id THEN row ELSE sessions[j]
  BY <1>0, <1>1, <1>2, <1>3, UpdateIs
<1>5. PICK b : ProcIs(b) /\ b.pc = "prompt" /\ b.id = id /\ proc' = [proc EXCEPT ![p] = b]
  BY ResumeMakes
<1>6. /\ \A j \in 1 .. n : j # b.id => sessions'[j].status = sessions[j].status
                                       /\ left'[j] = left[j]
      /\ sessions'[b.id].status = "active" /\ left'[b.id] = "running"
  BY <1>2, <1>3, <1>4, <1>5
<1>7. Len(sessions) <= Len(sessions') /\ b.id \in 1 .. Len(sessions')
  BY <1>0, <1>4, <1>5
<1>8. alone' \subseteq alone \cup {b.id} /\ (S!InUse(b.id) => b.id \notin alone')
  BY <1>1, <1>5
<1> QED BY <1>1, <1>4, <1>5, <1>6, <1>7, <1>8, JoinsInv

LEMMA SessionStepInv == S!SessionConstants /\ SessionInv /\ [S!Next]_sessionVars => SessionInv'
<1> SUFFICES ASSUME S!SessionConstants, SessionInv, [S!Next]_sessionVars PROVE SessionInv'
  OBVIOUS
<1>1. CASE UNCHANGED sessionVars
  BY <1>1 DEF sessionVars, SessionInv, TablesAre, Placed, S!ServerHasOwner, S!Running
<1>2. CASE S!ServerDies
  <2>1. server' = None /\ server' \notin Procs /\ UNCHANGED <<sessions, updated, proc, left, alone>>
    BY <1>2 DEF S!ServerDies, S!tables, S!SessionConstants
  <2> QED BY <2>1 DEF SessionInv, TablesAre, Placed, S!ServerHasOwner
<1>3. ASSUME NEW p \in Procs, S!StartContinue(p) \/ S!StartByPrefix(p) PROVE SessionInv'
  <2>1. PICK id \in 1 .. Len(sessions) : S!Resume(p, id)
    <3>1. DOMAIN sessions = 1 .. Len(sessions)
      BY SessionTypes
    <3> QED BY <1>3, <3>1 DEF S!StartContinue, S!StartByPrefix, S!find_latest_resumable, S!Resumable
  <2> QED BY <2>1, ResumeInv
<1> QED BY <1>1, <1>2, <1>3, StartsInv, EndsInv, CommandInv, BackendInv, TurnInv, EndSessionInv
        DEF S!Next, S!Command

-----------------------------------------------------------------------------
LEMMA SessionIsRight ==
    S!SessionConstants /\ SessionInv =>
      /\ S!TypeOK /\ S!AgentIsConsistent /\ S!SamplingIsOfModel /\ S!ServerHasOwner
      /\ S!StatusIsOfUser
<1> SUFFICES ASSUME S!SessionConstants, SessionInv
             PROVE  /\ S!TypeOK /\ S!AgentIsConsistent /\ S!SamplingIsOfModel
                    /\ S!ServerHasOwner /\ S!StatusIsOfUser
  OBVIOUS
<1>1. DOMAIN sessions = 1 .. Len(sessions) /\ Len(sessions) \in Nat
  BY SessionTypes
<1>2. S!TypeOK
  <2>1. {updated[id] : id \in DOMAIN sessions} = DOMAIN sessions
    BY <1>1 DEF SessionInv, TablesAre, Placed
  <2>2. \A p \in Procs :
          /\ proc[p].pc \in {"off", "prompt", "starting", "turn", "closing", "batch"}
          /\ proc[p].handle \in {"none", "shared", "child"}
          /\ S!Running(p) <=> proc[p].id # 0
    BY DEF SessionInv, Agents, ProcessStates, ProcIs, S!Running
  <2>3. /\ sessions \in Seq(S!Rows) /\ Len(sessions) <= MaxSessions
        /\ updated \in Seq(Nat) /\ Len(updated) = Len(sessions)
    BY DEF SessionInv, TablesAre
  <2>4. /\ left \in Seq({"running", "exit", "done", "killed"}) /\ Len(left) = Len(sessions)
        /\ server \in Procs \cup {None, Foreign}
    BY DEF SessionInv, TablesAre
  <2>5. alone \subseteq DOMAIN sessions
    BY <1>1 DEF SessionInv, TablesAre
  <2> QED BY <2>1, <2>2, <2>3, <2>4, <2>5 DEF S!TypeOK
<1>3. S!AgentIsConsistent
  <2> SUFFICES ASSUME NEW p \in Procs
               PROVE  LET a == proc[p]
                      IN  /\ a.prompt.persona = a.persona /\ a.prompt.mode = a.mode
                          /\ a.prompt.skills = a.skills
                          /\ a.env = S!Env(a.skills)
                          /\ a.sandbox <=> a.persona \in Kids
                          /\ a.pc \in {"prompt", "turn"} => (a.auto <=> S!is_kids_mode(a))
    BY DEF S!AgentIsConsistent
  <2>1. Consistent(proc[p]) /\ Ruled(proc[p])
    BY DEF SessionInv, ProcIs
  <2> QED BY <2>1 DEF Consistent, Ruled
<1>4. S!SamplingIsOfModel
  BY DEF SessionInv, ProcIs, Consistent, Sampled, S!SamplingIsOfModel
<1>5. S!StatusIsOfUser
  BY DEF SessionInv, Solo, S!StatusIsOfUser
<1> QED BY <1>2, <1>3, <1>4, <1>5 DEF SessionInv

LEMMA ResumeRestoresInStep ==
    ASSUME S!SessionConstants, SessionInv, [S!Next]_sessionVars, NEW p \in Procs,
           ~S!Running(p), proc'[p].pc = "prompt", proc'[p].id \in DOMAIN sessions
    PROVE  LET row == sessions[proc'[p].id]
           IN  /\ row.skills \subseteq proc'[p].skills
               /\ \/ proc'[p].persona = row.persona
                  \/ \E pr \in Profiles : pr.persona # None /\ pr.persona = proc'[p].persona
<1>0. /\ proc[p].pc = "off" /\ proc \in [Procs -> Agents] /\ Len(sessions) \in Nat
      /\ DOMAIN sessions = 1 .. Len(sessions)
  BY SessionTypes DEF S!Running
<1>1. PICK q \in Procs :
        \/ S!StartNew(q) \/ S!StartContinue(q) \/ S!StartByPrefix(q) \/ S!StartBatch(q)
        \/ proc[q].pc # "off" /\ (\A r \in Procs : r # q => proc'[r] = proc[r])
  <2>1. ~(UNCHANGED sessionVars \/ S!ServerDies)
    BY <1>0 DEF sessionVars, S!ServerDies
  <2>2. PICK q \in Procs :
          \/ S!StartNew(q) \/ S!StartContinue(q) \/ S!StartByPrefix(q)
          \/ S!StartBatch(q) \/ S!EndBatch(q)
          \/ S!Command(q) \/ S!ServerBinds(q) \/ S!BackendReady(q) \/ S!BackendFails(q)
          \/ S!TurnBegin(q) \/ S!TurnEnd(q, TRUE) \/ S!TurnEnd(q, FALSE) \/ S!TurnCancelled(q)
          \/ S!EndSession(q) \/ S!EndOfInput(q) \/ S!Close(q) \/ S!Killed(q)
    BY <2>1 DEF S!Next
  <2>3. CASE S!Command(q)
    BY <1>0, <2>3 DEF S!Command, S!persona_command, S!mode_command, S!skill_command,
       S!model_command, S!backend_command, S!BackendStart, S!BackendStop, S!Handled
  <2> QED BY <1>0, <2>2, <2>3 DEF S!EndBatch, S!ServerBinds, S!BackendReady, S!BackendFails,
             S!TurnBegin, S!TurnEnd, S!TurnCancelled, S!EndSession, S!EndOfInput, S!Close,
             S!Killed, S!Running
<1>2. CASE \E id \in 1 .. Len(sessions) : S!Resume(q, id)
  <2>1. PICK id \in 1 .. Len(sessions) : S!Resume(q, id)
    BY <1>2
  <2>2. PICK b : /\ b.id = id /\ proc' = [proc EXCEPT ![q] = b]
                 /\ sessions[id].skills \subseteq b.skills
                 /\ \/ b.persona = sessions[id].persona
                    \/ \E pr \in Profiles : pr.persona # None /\ pr.persona = b.persona
    BY <2>1, ResumeMakes
  <2>3. q = p /\ proc'[p] = b
    BY <1>0, <2>2
  <2> QED BY <2>2, <2>3
<1>3. CASE S!StartNew(q)
  <2>1. PICK pr \in Profiles \cup {S!NoProfile} :
          proc' = [proc EXCEPT ![q] = S!LoopHead(S!apply_launch_profile(
                     S!apply_model_profile(S!New(Len(sessions) + 1)), pr))]
    BY <1>3 DEF S!StartNew, S!Enter
  <2> DEFINE b == S!LoopHead(S!apply_launch_profile(
                    S!apply_model_profile(S!New(Len(sessions) + 1)), pr))
  <2>2. b.id = Len(sessions) + 1
    <3>1. Consistent(S!New(Len(sessions) + 1)) /\ S!New(Len(sessions) + 1).id = Len(sessions) + 1
      BY <1>0, NewIs DEF Place
    <3>2. S!New(Len(sessions) + 1).id # 0
      BY <1>0, <3>1
    <3> QED BY <3>1, <3>2, EnterIs
  <2>3. q = p /\ proc'[p] = b
    BY <1>0, <2>1
  <2> HIDE DEF b
  <2> QED BY <1>0, <2>2, <2>3
<1>4. CASE S!StartBatch(q)
  <2> DEFINE a == S!New(Len(sessions) + 1)
  <2>1. proc' = [proc EXCEPT ![q] = [a EXCEPT !.pc = "batch"]]
    BY <1>4 DEF S!StartBatch
  <2>2. Consistent(a)
    BY <1>0, NewIs
  <2> HIDE DEF a
  <2>3. [a EXCEPT !.pc = "batch"].pc = "batch"
    BY <2>2 DEF Consistent, Agents
  <2>4. FALSE
    BY <1>0, <2>1, <2>3
  <2> QED BY <2>4
<1>5. CASE proc[q].pc # "off" /\ (\A r \in Procs : r # q => proc'[r] = proc[r])
  <2>1. p = q
    BY <1>0, <1>5
  <2> QED BY <1>0, <1>5, <2>1
<1> QED BY <1>0, <1>1, <1>2, <1>3, <1>4, <1>5 DEF S!StartContinue, S!StartByPrefix,
           S!find_latest_resumable, S!Resumable

-----------------------------------------------------------------------------
(* The daemons of a workspace.  While no two of them have handled the      *)
(* files at once, where a life stands tells what the files hold.           *)
Early == {"never", "looks", "probes", "removes", "binds"}
Bound == {"chmods", "writes", "serves", "stopping"}

LifeOrder ==
    ~overlap =>
      /\ \A k, j \in DL!Handles(pc) : k = j
      /\ \A l \in DL!Lives :
           /\ pc[l] \in {"probes", "removes"} => sock # 0
           /\ pc[l] = "removes" => sock \notin listening
           /\ pc[l] \in {"binds", "unlinksPid"} => sock = 0
           /\ pc[l] \in Bound => sock = l /\ l \in listening
           /\ pc[l] = "unlinks" => sock = l
           /\ pc[l] \in {"serves", "stopping", "unlinks", "unlinksPid"} => pidfile = l
           /\ pc[l] \in {"gone", "refused"} => sock # l /\ pidfile # l

LifeFacts ==
    /\ \A l \in DL!Lives : pc[l] \in Early => sock # l /\ pidfile # l
    /\ \A l \in listening : pc[l] \in Bound
    /\ \A l \in DL!Lives : pc[l] \in {"unlinks", "unlinksPid", "gone"} => session[l] = "paused"

LifeInv == DL!TypeOK /\ LifeOrder /\ LifeFacts

LEMMA LifeInit == DL!LifeConstants /\ DL!Init => LifeInv
<1> SUFFICES ASSUME DL!LifeConstants, DL!Init PROVE LifeInv
  OBVIOUS
<1>1. \A l \in DL!Lives : pc[l] = "never" /\ session[l] = "none" /\ l # 0
  BY DEF DL!Init, DL!Lives, DL!LifeConstants
<1>2. DL!TypeOK
  BY <1>1 DEF DL!TypeOK, DL!Init
<1>3. LifeOrder
  BY <1>1 DEF LifeOrder, DL!Handles, DL!Starting, DL!Ending, Bound
<1>4. LifeFacts
  BY <1>1 DEF LifeFacts, DL!Init, Early
<1> QED BY <1>2, <1>3, <1>4 DEF LifeInv

(* What a step of one life does to where the lives stand.                  *)
LEMMA LifeMoves ==
    ASSUME DL!TypeOK, NEW l \in DL!Lives, NEW from, NEW to, DL!Step(l, from, to)
    PROVE  /\ pc[l] = from /\ \A k \in DL!Lives : pc'[k] = IF k = l THEN to ELSE pc[k]
           /\ ~overlap' => ~overlap /\ \A k, j \in DL!Handles(pc') : k = j
  BY DEF DL!Step, DL!TypeOK

LEMMA LifeStepInv == DL!LifeConstants /\ LifeInv /\ [DL!Next]_lifeVars => LifeInv'
<1> SUFFICES ASSUME DL!LifeConstants, LifeInv, [DL!Next]_lifeVars PROVE LifeInv'
  OBVIOUS
<1>1. DL!TypeOK /\ LifeOrder /\ LifeFacts /\ 0 \notin DL!Lives
  BY DEF LifeInv, DL!Lives, DL!LifeConstants
<1>2. CASE UNCHANGED lifeVars
  BY <1>2 DEF lifeVars, LifeInv, DL!TypeOK, LifeOrder, LifeFacts, DL!Handles
<1>3. ASSUME NEW l \in DL!Lives, DL!Start(l) PROVE LifeInv'
  <2>1. DL!Step(l, "never", "looks")
    BY <1>3 DEF DL!Start
  <2>2. /\ pc[l] = "never"
        /\ \A k \in DL!Lives : pc'[k] = IF k = l THEN "looks" ELSE pc[k]
        /\ ~overlap' => ~overlap /\ \A k, j \in DL!Handles(pc') : k = j
    BY <1>1, <2>1, LifeMoves
  <2>3. DL!TypeOK'
    BY <1>1, <1>3 DEF DL!Start, DL!Step, DL!TypeOK, DL!Starting, DL!Ending, DL!Over
  <2>4. LifeOrder'
    BY <1>1, <1>3, <2>2 DEF DL!Start, LifeOrder, LifeFacts, DL!TypeOK, DL!Handles,
       DL!Starting, DL!Ending, Early, Bound
  <2>5. LifeFacts'
    BY <1>1, <1>3, <2>2 DEF DL!Start, LifeFacts, DL!TypeOK, Early, Bound
  <2> QED BY <2>3, <2>4, <2>5 DEF LifeInv
<1>4. ASSUME NEW l \in DL!Lives, DL!Look(l) PROVE LifeInv'
  <2>1. DL!Step(l, "looks", IF sock # 0 THEN "probes" ELSE "binds")
    BY <1>4 DEF DL!Look
  <2>2. /\ pc[l] = "looks"
        /\ \A k \in DL!Lives : pc'[k] = IF k = l THEN IF sock # 0 THEN "probes" ELSE "binds"
                                        ELSE pc[k]
        /\ ~overlap' => ~overlap /\ \A k, j \in DL!Handles(pc') : k = j
    BY <1>1, <2>1, LifeMoves
  <2>3. DL!TypeOK'
    BY <1>1, <1>4 DEF DL!Look, DL!Step, DL!TypeOK, DL!Starting, DL!Ending, DL!Over
  <2>4. LifeOrder'
    BY <1>1, <1>4, <2>2 DEF DL!Look, LifeOrder, LifeFacts, DL!TypeOK, DL!Handles,
       DL!Starting, DL!Ending, Early, Bound
  <2>5. LifeFacts'
    BY <1>1, <1>4, <2>2 DEF DL!Look, LifeFacts, DL!TypeOK, Early, Bound
  <2> QED BY <2>3, <2>4, <2>5 DEF LifeInv
<1>5. ASSUME NEW l \in DL!Lives, DL!Probe(l) PROVE LifeInv'
  <2>1. DL!Step(l, "probes", IF DL!is_socket_alive THEN "refused" ELSE "removes")
    BY <1>5 DEF DL!Probe
  <2>2. /\ pc[l] = "probes"
        /\ \A k \in DL!Lives : pc'[k] = IF k = l THEN IF DL!is_socket_alive THEN "refused" ELSE "removes"
                                        ELSE pc[k]
        /\ ~overlap' => ~overlap /\ \A k, j \in DL!Handles(pc') : k = j
    BY <1>1, <2>1, LifeMoves
  <2>3. DL!TypeOK'
    BY <1>1, <1>5 DEF DL!Probe, DL!Step, DL!TypeOK, DL!Starting, DL!Ending, DL!Over
  <2>4. LifeOrder'
    BY <1>1, <1>5, <2>2 DEF DL!Probe, LifeOrder, LifeFacts, DL!TypeOK, DL!Handles,
       DL!Starting, DL!Ending, Early, Bound, DL!is_socket_alive
  <2>5. LifeFacts'
    BY <1>1, <1>5, <2>2 DEF DL!Probe, LifeFacts, DL!TypeOK, Early, Bound, DL!is_socket_alive
  <2> QED BY <2>3, <2>4, <2>5 DEF LifeInv
<1>6. ASSUME NEW l \in DL!Lives, DL!RemoveStale(l) PROVE LifeInv'
  <2>1. DL!Step(l, "removes", IF sock = 0 THEN "failed" ELSE "binds")
    BY <1>6 DEF DL!RemoveStale
  <2>2. /\ pc[l] = "removes"
        /\ \A k \in DL!Lives : pc'[k] = IF k = l THEN IF sock = 0 THEN "failed" ELSE "binds"
                                        ELSE pc[k]
        /\ ~overlap' => ~overlap /\ \A k, j \in DL!Handles(pc') : k = j
    BY <1>1, <2>1, LifeMoves
  <2>3. DL!TypeOK'
    BY <1>1, <1>6 DEF DL!RemoveStale, DL!Step, DL!TypeOK, DL!Starting, DL!Ending, DL!Over
  <2>4. LifeOrder'
    BY <1>1, <1>6, <2>2 DEF DL!RemoveStale, LifeOrder, LifeFacts, DL!TypeOK, DL!Handles,
       DL!Starting, DL!Ending, Early, Bound
  <2>5. LifeFacts'
    BY <1>1, <1>6, <2>2 DEF DL!RemoveStale, LifeFacts, DL!TypeOK, Early, Bound
  <2> QED BY <2>3, <2>4, <2>5 DEF LifeInv
<1>7. ASSUME NEW l \in DL!Lives, DL!Bind(l) PROVE LifeInv'
  <2>1. DL!Step(l, "binds", IF sock = 0 THEN "chmods" ELSE "failed")
    BY <1>7 DEF DL!Bind
  <2>2. /\ pc[l] = "binds"
        /\ \A k \in DL!Lives : pc'[k] = IF k = l THEN IF sock = 0 THEN "chmods" ELSE "failed"
                                        ELSE pc[k]
        /\ ~overlap' => ~overlap /\ \A k, j \in DL!Handles(pc') : k = j
    BY <1>1, <2>1, LifeMoves
  <2>3. DL!TypeOK'
    BY <1>1, <1>7 DEF DL!Bind, DL!Step, DL!TypeOK, DL!Starting, DL!Ending, DL!Over
  <2>4. LifeOrder'
    BY <1>1, <1>7, <2>2 DEF DL!Bind, LifeOrder, LifeFacts, DL!TypeOK, DL!Handles,
       DL!Starting, DL!Ending, Early, Bound
  <2>5. LifeFacts'
    BY <1>1, <1>7, <2>2 DEF DL!Bind, LifeFacts, DL!TypeOK, Early, Bound
  <2> QED BY <2>3, <2>4, <2>5 DEF LifeInv
<1>8. ASSUME NEW l \in DL!Lives, DL!Chmod(l) PROVE LifeInv'
  <2>1. DL!Step(l, "chmods", IF sock = 0 THEN "failed" ELSE "writes")
    BY <1>8 DEF DL!Chmod
  <2>2. /\ pc[l] = "chmods"
        /\ \A k \in DL!Lives : pc'[k] = IF k = l THEN IF sock = 0 THEN "failed" ELSE "writes"
                                        ELSE pc[k]
        /\ ~overlap' => ~overlap /\ \A k, j \in DL!Handles(pc') : k = j
    BY <1>1, <2>1, LifeMoves
  <2>3. DL!TypeOK'
    BY <1>1, <1>8 DEF DL!Chmod, DL!Step, DL!TypeOK, DL!Starting, DL!Ending, DL!Over
  <2>4. LifeOrder'
    BY <1>1, <1>8, <2>2 DEF DL!Chmod, LifeOrder, LifeFacts, DL!TypeOK, DL!Handles,
       DL!Starting, DL!Ending, Early, Bound
  <2>5. LifeFacts'
    BY <1>1, <1>8, <2>2 DEF DL!Chmod, LifeFacts, DL!TypeOK, Early, Bound
  <2> QED BY <2>3, <2>4, <2>5 DEF LifeInv
<1>9. ASSUME NEW l \in DL!Lives, DL!WritePid(l) PROVE LifeInv'
  <2>1. DL!Step(l, "writes", "serves")
    BY <1>9 DEF DL!WritePid
  <2>2. /\ pc[l] = "writes"
        /\ \A k \in DL!Lives : pc'[k] = IF k = l THEN "serves" ELSE pc[k]
        /\ ~overlap' => ~overlap /\ \A k, j \in DL!Handles(pc') : k = j
    BY <1>1, <2>1, LifeMoves
  <2>3. DL!TypeOK'
    BY <1>1, <1>9 DEF DL!WritePid, DL!Step, DL!TypeOK, DL!Starting, DL!Ending, DL!Over
  <2>4. LifeOrder'
    BY <1>1, <1>9, <2>2 DEF DL!WritePid, LifeOrder, LifeFacts, DL!TypeOK, DL!Handles,
       DL!Starting, DL!Ending, Early, Bound
  <2>5. LifeFacts'
    BY <1>1, <1>9, <2>2 DEF DL!WritePid, LifeFacts, DL!TypeOK, Early, Bound
  <2> QED BY <2>3, <2>4, <2>5 DEF LifeInv
<1>10. ASSUME NEW l \in DL!Lives, DL!Shutdown(l) PROVE LifeInv'
  <2>1. DL!Step(l, "serves", "stopping")
    BY <1>10 DEF DL!Shutdown
  <2>2. /\ pc[l] = "serves"
        /\ \A k \in DL!Lives : pc'[k] = IF k = l THEN "stopping" ELSE pc[k]
        /\ ~overlap' => ~overlap /\ \A k, j \in DL!Handles(pc') : k = j
    BY <1>1, <2>1, LifeMoves
  <2>3. DL!TypeOK'
    BY <1>1, <1>10 DEF DL!Shutdown, DL!Step, DL!TypeOK, DL!Starting, DL!Ending, DL!Over
  <2>4. LifeOrder'
    BY <1>1, <1>10, <2>2 DEF DL!Shutdown, LifeOrder, LifeFacts, DL!TypeOK, DL!Handles,
       DL!Starting, DL!Ending, Early, Bound
  <2>5. LifeFacts'
    BY <1>1, <1>10, <2>2 DEF DL!Shutdown, LifeFacts, DL!TypeOK, Early, Bound
  <2> QED BY <2>3, <2>4, <2>5 DEF LifeInv
<1>11. ASSUME NEW l \in DL!Lives, DL!Abort(l) PROVE LifeInv'
  <2>1. DL!Step(l, "stopping", "unlinks")
    BY <1>11 DEF DL!Abort
  <2>2. /\ pc[l] = "stopping"
        /\ \A k \in DL!Lives : pc'[k] = IF k = l THEN "unlinks" ELSE pc[k]
        /\ ~overlap' => ~overlap /\ \A k, j \in DL!Handles(pc') : k = j
    BY <1>1, <2>1, LifeMoves
  <2>3. DL!TypeOK'
    BY <1>1, <1>11 DEF DL!Abort, DL!Step, DL!TypeOK, DL!Starting, DL!Ending, DL!Over
  <2>4. LifeOrder'
    BY <1>1, <1>11, <2>2 DEF DL!Abort, LifeOrder, LifeFacts, DL!TypeOK, DL!Handles,
       DL!Starting, DL!Ending, Early, Bound
  <2>5. LifeFacts'
    BY <1>1, <1>11, <2>2 DEF DL!Abort, LifeFacts, DL!TypeOK, Early, Bound
  <2> QED BY <2>3, <2>4, <2>5 DEF LifeInv
<1>12. ASSUME NEW l \in DL!Lives, DL!UnlinkSocket(l) PROVE LifeInv'
  <2>1. DL!Step(l, "unlinks", "unlinksPid")
    BY <1>12 DEF DL!UnlinkSocket
  <2>2. /\ pc[l] = "unlinks"
        /\ \A k \in DL!Lives : pc'[k] = IF k = l THEN "unlinksPid" ELSE pc[k]
        /\ ~overlap' => ~overlap /\ \A k, j \in DL!Handles(pc') : k = j
    BY <1>1, <2>1, LifeMoves
  <2>3. DL!TypeOK'
    BY <1>1, <1>12 DEF DL!UnlinkSocket, DL!Step, DL!TypeOK, DL!Starting, DL!Ending, DL!Over
  <2>4. LifeOrder'
    BY <1>1, <1>12, <2>2 DEF DL!UnlinkSocket, LifeOrder, LifeFacts, DL!TypeOK, DL!Handles,
       DL!Starting, DL!Ending, Early, Bound
  <2>5. LifeFacts'
    BY <1>1, <1>12, <2>2 DEF DL!UnlinkSocket, LifeFacts, DL!TypeOK, Early, Bound
  <2> QED BY <2>3, <2>4, <2>5 DEF LifeInv
<1>13. ASSUME NEW l \in DL!Lives, DL!UnlinkPid(l) PROVE LifeInv'
  <2>1. DL!Step(l, "unlinksPid", "gone")
    BY <1>13 DEF DL!UnlinkPid
  <2>2. /\ pc[l] = "unlinksPid"
        /\ \A k \in DL!Lives : pc'[k] = IF k = l THEN "gone" ELSE pc[k]
        /\ ~overlap' => ~overlap /\ \A k, j \in DL!Handles(pc') : k = j
    BY <1>1, <2>1, LifeMoves
  <2>3. DL!TypeOK'
    BY <1>1, <1>13 DEF DL!UnlinkPid, DL!Step, DL!TypeOK, DL!Starting, DL!Ending, DL!Over
  <2>4. LifeOrder'
    BY <1>1, <1>13, <2>2 DEF DL!UnlinkPid, LifeOrder, LifeFacts, DL!TypeOK, DL!Handles,
       DL!Starting, DL!Ending, Early, Bound
  <2>5. LifeFacts'
    BY <1>1, <1>13, <2>2 DEF DL!UnlinkPid, LifeFacts, DL!TypeOK, Early, Bound
  <2> QED BY <2>3, <2>4, <2>5 DEF LifeInv
<1>14. ASSUME NEW l \in DL!Lives, DL!Crash(l) PROVE LifeInv'
  <2>1. DL!Step(l, pc[l], "crashed")
    BY <1>14 DEF DL!Crash
  <2>2. /\ pc[l] = pc[l]
        /\ \A k \in DL!Lives : pc'[k] = IF k = l THEN "crashed" ELSE pc[k]
        /\ ~overlap' => ~overlap /\ \A k, j \in DL!Handles(pc') : k = j
    BY <1>1, <2>1, LifeMoves
  <2>3. DL!TypeOK'
    BY <1>1, <1>14 DEF DL!Crash, DL!Step, DL!TypeOK, DL!Starting, DL!Ending, DL!Over
  <2>4. LifeOrder'
    BY <1>1, <1>14, <2>2 DEF DL!Crash, LifeOrder, LifeFacts, DL!TypeOK, DL!Handles,
       DL!Starting, DL!Ending, Early, Bound, DL!Over
  <2>5. LifeFacts'
    BY <1>1, <1>14, <2>2 DEF DL!Crash, LifeFacts, DL!TypeOK, Early, Bound, DL!Over
  <2> QED BY <2>3, <2>4, <2>5 DEF LifeInv
<1> QED BY <1>2, <1>3, <1>4, <1>5, <1>6, <1>7, <1>8,
           <1>9, <1>10, <1>11, <1>12, <1>13, <1>14 DEF DL!Next

LEMMA LifeIsClean == LifeInv => DL!ServingIsReachable /\ DL!EndLeavesNothing
<1> SUFFICES ASSUME LifeInv PROVE DL!ServingIsReachable /\ DL!EndLeavesNothing
  OBVIOUS
<1>1. DL!ServingIsReachable
  BY DEF LifeInv, LifeOrder, Bound, DL!ServingIsReachable, DL!Serving
<1>2. DL!EndLeavesNothing
  BY DEF LifeInv, LifeOrder, LifeFacts, DL!EndLeavesNothing
<1> QED BY <1>1, <1>2

(* Only the probe of a socket that somebody listens at refuses a start,    *)
(* and the other steps find the files as they left them.                   *)
LEMMA FailsOnlyIfServedInStep ==
    ASSUME DL!LifeConstants, LifeInv, [DL!Next]_lifeVars,
           NEW l \in DL!Lives, pc'[l] \in {"refused", "failed"}, pc[l] \in DL!Starting, ~overlap
    PROVE  \E k \in DL!Lives \ {l} : DL!Serving(k)
<1>1. DL!TypeOK /\ LifeOrder /\ LifeFacts /\ 0 \notin DL!Lives
  BY DEF LifeInv, DL!Lives, DL!LifeConstants
<1>2. PICK m \in DL!Lives :
        \/ DL!Start(m) \/ DL!Look(m) \/ DL!Probe(m) \/ DL!RemoveStale(m) \/ DL!Bind(m)
        \/ DL!Chmod(m) \/ DL!WritePid(m) \/ DL!Shutdown(m) \/ DL!Abort(m)
        \/ DL!UnlinkSocket(m) \/ DL!UnlinkPid(m) \/ DL!Crash(m)
  BY DEF DL!Next, lifeVars, DL!Starting
<1>3. \E to : to = pc'[l] /\ \E from : DL!Step(m, from, to)
  BY <1>1, <1>2 DEF DL!TypeOK, DL!Step, DL!Start, DL!Look, DL!Probe, DL!RemoveStale, DL!Bind,
     DL!Chmod, DL!WritePid, DL!Shutdown, DL!Abort, DL!UnlinkSocket, DL!UnlinkPid, DL!Crash,
     DL!Starting
<1>4. m = l
  BY <1>1, <1>3 DEF DL!Step, DL!TypeOK, DL!Starting
<1>5. CASE DL!Probe(l)
  <2>1. pc[l] = "probes" /\ sock \in listening
    BY <1>1, <1>5 DEF DL!Probe, DL!Step, DL!TypeOK, DL!is_socket_alive
  <2>2. sock \in DL!Lives /\ pc[sock] \in Bound
    BY <1>1, <2>1 DEF DL!TypeOK, LifeFacts
  <2>3. sock \notin DL!Handles(pc) \/ sock = l
    BY <1>1, <2>1 DEF LifeOrder, DL!Handles, DL!Starting
  <2>4. sock # l
    BY <2>1, <2>2 DEF Bound
  <2>5. pc[sock] \in {"serves", "stopping"}
    BY <2>2, <2>3, <2>4 DEF Bound, DL!Handles, DL!Starting
  <2> QED BY <2>2, <2>4, <2>5 DEF DL!Serving
<1>6. CASE ~DL!Probe(l)
  <2>1. FALSE
    BY <1>1, <1>2, <1>4, <1>6 DEF DL!TypeOK, DL!Step, DL!Start, DL!Look, DL!RemoveStale,
       DL!Bind, DL!Chmod, DL!WritePid, DL!Shutdown, DL!Abort, DL!UnlinkSocket,
       DL!UnlinkPid, DL!Crash, DL!Starting, LifeOrder, Bound
  <2> QED BY <2>1
<1> QED BY <1>5, <1>6

-----------------------------------------------------------------------------
(* Tool calls.                                                             *)
Contents == Seq(STRING) \cup {Missing}

FileStages == {"resolve", "read", "open", "fill"}
Stages == T!Idle \cup FileStages \cup {"waits", "terms", "add", "commit"}
CallsOfTools ==
    [tool : {"file_read", "file_write", "file_edit", "shell", "git_commit", NoTool},
     names : SUBSET Paths, all : BOOLEAN]

Snapshots ==
    [disk : [Paths -> Contents], index : [T!Tracked -> Contents],
     head : [T!Tracked -> Contents]]

ToolTypes ==
    /\ disk \in [Paths -> Contents] /\ text \in Seq(STRING)
    /\ index \in [T!Tracked -> Contents] /\ head \in [T!Tracked -> Contents]
    /\ folder \in BOOLEAN /\ disturbed \in BOOLEAN /\ kid \in BOOLEAN
    /\ stage \in Stages /\ sh \in {"none", "runs", "gone"}
    /\ call \in CallsOfTools /\ before \in Snapshots
    /\ calls \in 0 .. MaxCalls /\ saves \in 0 .. MaxSaves

(* What the stage says of the call.                                        *)
StageFits ==
    /\ stage \in FileStages =>
         /\ call.tool \in {"file_read", "file_write", "file_edit"}
         /\ T!Target \in Paths
    /\ stage \in {"open", "fill"} => call.tool \in {"file_write", "file_edit"}

(* What is going to be written.                                            *)
TextFits ==
    /\ call.tool = "file_write" => text = <<new>>
    /\ call.tool = "file_edit" =>
         /\ T!Unique(before.disk[T!Target])
         /\ text = T!Replaced(before.disk[T!Target])

(* The workspace of a call nobody has disturbed.                           *)
Undisturbed ==
    /\ stage \in {"resolve", "read", "open", "waits", "terms", "add", "commit"} =>
         disk = before.disk
    /\ stage \in {"open", "fill"} => TextFits
    /\ stage = "fill" => disk = [before.disk EXCEPT ![T!Target] = <<>>]
    /\ stage \in {"add", "commit"} => head = before.head
    /\ stage = "add" => index = before.index
    /\ stage = "commit" =>
         \A f \in T!Tracked :
            index[f] = IF f \in call.names THEN before.disk[f] ELSE before.index[f]

ToolInv ==
    /\ ToolTypes /\ StageFits /\ (~disturbed => Undisturbed)
    /\ T!EditsAreExact /\ T!CommandIsOver /\ T!CommitsAreExact

LEMMA ToolInit ==
    ASSUME T!ToolsConstants, T!Init PROVE ToolInv
<1>1. disk \in [Paths -> Contents] /\ index \in [T!Tracked -> Contents] /\ head = index
  BY DEF T!Init, T!ToolsConstants, Contents, T!Tracked
<1>2. before = [disk |-> disk, index |-> index, head |-> head] /\ before \in Snapshots
  BY <1>1 DEF T!Init, T!Now, Snapshots
<1>3. call \in CallsOfTools /\ text \in Seq(STRING)
  BY DEF T!Init, T!NoCall, CallsOfTools
<1>4. ToolTypes
  <2>1. calls \in 0 .. MaxCalls /\ saves \in 0 .. MaxSaves
    BY DEF T!Init, T!ToolsConstants
  <2>2. /\ folder \in BOOLEAN /\ disturbed \in BOOLEAN /\ kid \in BOOLEAN
        /\ stage \in Stages /\ sh \in {"none", "runs", "gone"}
    BY DEF T!Init, Stages, T!Idle
  <2> QED BY <1>1, <1>2, <1>3, <2>1, <2>2 DEF ToolTypes
<1>5. StageFits /\ Undisturbed
  BY DEF T!Init, StageFits, Undisturbed, FileStages
<1>6. T!EditsAreExact /\ T!CommandIsOver /\ T!CommitsAreExact
  BY DEF T!Init, T!EditsAreExact, T!CommandIsOver, T!CommitsAreExact, T!Ended
<1> QED BY <1>4, <1>5, <1>6 DEF ToolInv

(* A step that has not ended a call, and leaves the types right.           *)
LEMMA NotEnded ==
    ASSUME stage # "done" PROVE T!EditsAreExact /\ T!CommandIsOver /\ T!CommitsAreExact
  BY DEF T!EditsAreExact, T!CommandIsOver, T!CommitsAreExact, T!Ended

(* A call begins.                                                          *)
LEMMA BeginTypes ==
    ASSUME T!ToolsConstants, ToolInv,
           NEW tool \in {"file_read", "file_write", "file_edit", "shell", "git_commit"},
           NEW names \in SUBSET Paths, NEW all \in BOOLEAN, NEW first \in Stages,
           T!Begin(tool, names, all, first), UNCHANGED <<disk, folder, text, index, head>>,
           sh' \in {"none", "runs", "gone"}, kid' \in BOOLEAN
    PROVE  /\ ToolTypes' /\ ~disturbed' /\ stage' = first /\ result' = NoTool
           /\ call' = [tool |-> tool, names |-> names, all |-> all]
           /\ before' = [disk |-> disk, index |-> index, head |-> head]
<1>1. call' \in CallsOfTools
  BY DEF T!Begin, CallsOfTools
<1>2. before' = [disk |-> disk, index |-> index, head |-> head] /\ before' \in Snapshots
  BY DEF T!Begin, T!Now, Snapshots, ToolInv, ToolTypes
<1>3. calls' \in 0 .. MaxCalls /\ saves' = saves
  BY DEF T!Begin, ToolInv, ToolTypes, T!ToolsConstants
<1> QED BY <1>1, <1>2, <1>3 DEF T!Begin, ToolInv, ToolTypes

LEMMA BeginFileToolInv ==
    ASSUME T!ToolsConstants, ToolInv, T!BeginFileTool PROVE ToolInv'
<1>1. PICK tool \in {"file_read", "file_write", "file_edit"}, f \in Paths, given \in BOOLEAN :
        T!Begin(tool, {f}, FALSE, IF T!validate_args(given) THEN "resolve" ELSE "done")
  BY DEF T!BeginFileTool
<1> DEFINE first == IF T!validate_args(given) THEN "resolve" ELSE "done"
<1>2. first \in {"resolve", "done"} /\ first \in Stages
  BY DEF Stages, FileStages, T!Idle
<1>3. UNCHANGED <<disk, folder, text, index, head, sh, kid>>
  BY DEF T!BeginFileTool, T!files, T!procs, T!repo
<1>4. T!Begin(tool, {f}, FALSE, first)
  BY <1>1
<1> HIDE DEF first
<1>5. /\ ToolTypes' /\ ~disturbed' /\ stage' = first /\ result' = NoTool
      /\ call' = [tool |-> tool, names |-> {f}, all |-> FALSE]
      /\ before' = [disk |-> disk, index |-> index, head |-> head]
  <2>1. sh' \in {"none", "runs", "gone"} /\ kid' \in BOOLEAN
    BY <1>3 DEF ToolInv, ToolTypes
  <2>2. {f} \in SUBSET Paths /\ FALSE \in BOOLEAN
    OBVIOUS
  <2> QED BY <1>2, <1>3, <1>4, <2>1, <2>2, BeginTypes
<1>6. T!Target' = f
  BY <1>5 DEF T!Target
<1>7. StageFits' /\ Undisturbed'
  BY <1>2, <1>3, <1>5, <1>6 DEF StageFits, Undisturbed, FileStages
<1>8. (T!EditsAreExact /\ T!CommandIsOver /\ T!CommitsAreExact)'
  BY <1>5 DEF T!EditsAreExact, T!CommandIsOver, T!CommitsAreExact, T!Ended, T!ToolsConstants,
     T!Results
<1> QED BY <1>5, <1>7, <1>8 DEF ToolInv

LEMMA BeginShellInv ==
    ASSUME T!ToolsConstants, ToolInv, T!BeginShell PROVE ToolInv'
<1>1. T!Begin("shell", {}, FALSE, "waits") /\ sh' = "runs" /\ kid' = FALSE
      /\ UNCHANGED <<disk, folder, text, index, head>>
  BY DEF T!BeginShell, T!files, T!repo
<1>2. /\ ToolTypes' /\ ~disturbed' /\ stage' = "waits"
      /\ before' = [disk |-> disk, index |-> index, head |-> head]
  BY <1>1, BeginTypes DEF Stages
<1>3. StageFits' /\ Undisturbed'
  BY <1>1, <1>2 DEF StageFits, Undisturbed, FileStages
<1>4. (T!EditsAreExact /\ T!CommandIsOver /\ T!CommitsAreExact)'
  BY <1>2 DEF T!EditsAreExact, T!CommandIsOver, T!CommitsAreExact, T!Ended
<1> QED BY <1>2, <1>3, <1>4 DEF ToolInv

LEMMA BeginCommitInv ==
    ASSUME T!ToolsConstants, ToolInv, T!BeginCommit PROVE ToolInv'
<1>1. PICK names \in SUBSET Paths, all \in BOOLEAN :
        T!Begin("git_commit", names, all, IF names = {} THEN "commit" ELSE "add")
  BY DEF T!BeginCommit
<1> DEFINE first == IF names = {} THEN "commit" ELSE "add"
<1>2. UNCHANGED <<disk, folder, text, index, head, sh, kid>>
  BY DEF T!BeginCommit, T!files, T!procs, T!repo
<1>3. first \in Stages
  BY DEF Stages
<1>4. /\ ToolTypes' /\ ~disturbed' /\ stage' = first
      /\ call' = [tool |-> "git_commit", names |-> names, all |-> all]
      /\ before' = [disk |-> disk, index |-> index, head |-> head]
  BY <1>1, <1>2, <1>3, BeginTypes DEF ToolInv, ToolTypes
<1>5. StageFits' /\ Undisturbed'
  BY <1>2, <1>4 DEF StageFits, Undisturbed, FileStages
<1>6. (T!EditsAreExact /\ T!CommandIsOver /\ T!CommitsAreExact)'
  BY <1>4 DEF T!EditsAreExact, T!CommandIsOver, T!CommitsAreExact, T!Ended
<1> QED BY <1>4, <1>5, <1>6 DEF ToolInv

(* The types after a step in a call, which it ends or takes further.       *)
LEMMA StepTypes ==
    ASSUME ToolInv, NEW how, NEW next \in Stages, T!End(how) \/ T!Go(next),
           disk' \in [Paths -> Contents], text' \in Seq(STRING), folder' \in BOOLEAN,
           index' \in [T!Tracked -> Contents], head' \in [T!Tracked -> Contents],
           kid' \in BOOLEAN, sh' \in {"none", "runs", "gone"}
    PROVE  /\ ToolTypes' /\ UNCHANGED <<call, before, disturbed>>
           /\ T!End(how) => stage' = "done" /\ result' = how
           /\ T!Go(next) => stage' = next
           /\ T!Target' = T!Target
<1>1. UNCHANGED <<call, before, disturbed, calls, saves>> /\ stage' \in Stages
  BY DEF T!End, T!Go, Stages, T!Idle
<1> QED BY <1>1 DEF ToolInv, ToolTypes, T!End, T!Go, T!Target

(* A call that is refused or only reads.                                   *)
LEMMA EndsUnchanged ==
    ASSUME ToolInv, NEW how \in {"error", "text"}, T!End(how), ToolTypes',
           ~disturbed => disk' = before.disk
    PROVE  ToolInv'
<1>1. stage' = "done" /\ result' = how /\ UNCHANGED <<call, before, disturbed>>
  BY DEF T!End
<1>2. StageFits' /\ Undisturbed'
  BY <1>1 DEF StageFits, Undisturbed, FileStages
<1>3. (T!EditsAreExact /\ T!CommandIsOver /\ T!CommitsAreExact)'
  BY <1>1 DEF T!EditsAreExact, T!CommandIsOver, T!CommitsAreExact, T!Ended
<1> QED BY <1>2, <1>3 DEF ToolInv

LEMMA resolve_pathInv ==
    ASSUME T!ToolsConstants, ToolInv, T!resolve_path PROVE ToolInv'
<1>1. /\ stage = "resolve" /\ UNCHANGED <<disk, sh, kid, index, head>>
      /\ folder' = (folder \/ (T!Target \in Nested /\ disk[T!Target] = Missing))
      /\ \/ T!End("error") /\ UNCHANGED text
         \/ call.tool = "file_write" /\ T!Go("open") /\ text' = <<new>>
         \/ call.tool # "file_write" /\ T!Go("read") /\ UNCHANGED text
  BY DEF T!resolve_path, T!procs, T!repo
<1>2. text' \in Seq(STRING)
  <2>1. text' = text \/ text' = <<new>>
    BY <1>1
  <2>2. new \in STRING
    BY DEF T!ToolsConstants
  <2>3. \A some : \A x \in some : <<x>> \in Seq(some)
    OBVIOUS
  <2>4. text \in Seq(STRING)
    BY DEF ToolInv, ToolTypes
  <2> QED BY <2>1, <2>2, <2>3, <2>4, Zenon
<1>3. folder' \in BOOLEAN
  BY <1>1 DEF ToolInv, ToolTypes
<1>4. ~disturbed => disk' = before.disk
  BY <1>1 DEF ToolInv, Undisturbed
<1>5. /\ disk' \in [Paths -> Contents] /\ kid' \in BOOLEAN /\ sh' \in {"none", "runs", "gone"}
      /\ index' \in [T!Tracked -> Contents] /\ head' \in [T!Tracked -> Contents]
  BY <1>1 DEF ToolInv, ToolTypes
<1>6. {"open", "read"} \subseteq Stages
  BY DEF Stages, FileStages
<1>7. CASE T!End("error")
  BY <1>2, <1>3, <1>4, <1>5, <1>6, <1>7, StepTypes, EndsUnchanged
<1>8. CASE call.tool = "file_write" /\ T!Go("open") /\ text' = <<new>>
  <2>1. /\ ToolTypes' /\ UNCHANGED <<call, before, disturbed>> /\ stage' = "open"
        /\ T!Target' = T!Target
    BY <1>2, <1>3, <1>5, <1>6, <1>8, StepTypes
  <2>2. StageFits'
    <3>1. call.tool \in {"file_read", "file_write", "file_edit"} /\ T!Target \in Paths
      BY <1>1 DEF ToolInv, StageFits, FileStages
    <3> QED BY <1>8, <2>1, <3>1 DEF StageFits
  <2>3. ~disturbed' => Undisturbed'
    BY <1>4, <1>8, <2>1 DEF Undisturbed, TextFits
  <2> QED BY <2>1, <2>2, <2>3 DEF ToolInv, T!EditsAreExact, T!CommandIsOver,
             T!CommitsAreExact, T!Ended
<1>9. CASE call.tool # "file_write" /\ T!Go("read") /\ UNCHANGED text
  <2>1. /\ ToolTypes' /\ UNCHANGED <<call, before, disturbed>> /\ stage' = "read"
        /\ T!Target' = T!Target
    BY <1>2, <1>3, <1>5, <1>6, <1>9, StepTypes
  <2>2. StageFits'
    <3>1. call.tool \in {"file_read", "file_write", "file_edit"} /\ T!Target \in Paths
      BY <1>1 DEF ToolInv, StageFits, FileStages
    <3> QED BY <2>1, <3>1 DEF StageFits
  <2>3. ~disturbed' => Undisturbed'
    BY <1>4, <2>1 DEF Undisturbed
  <2> QED BY <2>1, <2>2, <2>3 DEF ToolInv, T!EditsAreExact, T!CommandIsOver,
             T!CommitsAreExact, T!Ended
<1> QED BY <1>1, <1>7, <1>8, <1>9

LEMMA file_readInv ==
    ASSUME T!ToolsConstants, ToolInv, T!file_read PROVE ToolInv'
<1>1. /\ stage = "read" /\ UNCHANGED <<disk, folder, sh, kid, index, head>>
      /\ \/ T!End("error") /\ UNCHANGED text
         \/ disk[T!Target] # Missing /\ T!End("text") /\ text' = disk[T!Target]
  BY DEF T!file_read, T!procs, T!repo
<1>2. T!Target \in Paths /\ disk[T!Target] \in Contents
  BY <1>1 DEF ToolInv, StageFits, FileStages, ToolTypes
<1>3. text' \in Seq(STRING)
  BY <1>1, <1>2 DEF Contents, ToolInv, ToolTypes
<1>4. ~disturbed => disk' = before.disk
  BY <1>1 DEF ToolInv, Undisturbed
<1>5. /\ disk' \in [Paths -> Contents] /\ kid' \in BOOLEAN /\ sh' \in {"none", "runs", "gone"}
      /\ index' \in [T!Tracked -> Contents] /\ head' \in [T!Tracked -> Contents]
      /\ folder' \in BOOLEAN /\ stage \in Stages
  BY <1>1 DEF ToolInv, ToolTypes
<1>6. PICK how \in {"error", "text"} : T!End(how)
  BY <1>1
<1> QED BY <1>3, <1>4, <1>5, <1>6, StepTypes, EndsUnchanged

(* What is left of a text when a piece of it has been replaced.            *)
LEMMA ReplacedIs ==
    ASSUME T!ToolsConstants, NEW t \in Seq(STRING) PROVE T!Replaced(t) \in Seq(STRING)
<1>1. DOMAIN t = 1 .. Len(t) /\ Len(t) \in Nat /\ \A i \in 1 .. Len(t) : t[i] \in STRING
  BY LenProperties, ElementOfSeq
<1>2. new \in STRING
  BY DEF T!ToolsConstants
<1>3. T!Replaced(t) = [i \in 1 .. Len(t) |-> IF t[i] = old THEN new ELSE t[i]]
  BY <1>1 DEF T!Replaced
<1>4. \A i \in 1 .. Len(t) : (IF t[i] = old THEN new ELSE t[i]) \in STRING
  BY <1>1, <1>2
<1> QED BY <1>1, <1>3, <1>4, IsASeq

LEMMA file_editInv ==
    ASSUME T!ToolsConstants, ToolInv, T!file_edit PROVE ToolInv'
<1> DEFINE t == disk[T!Target]
<1>1. /\ stage = "read" /\ call.tool = "file_edit"
      /\ UNCHANGED <<disk, folder, sh, kid, index, head>>
      /\ \/ T!End("error") /\ UNCHANGED text
         \/ T!Unique(t) /\ T!Go("open") /\ text' = T!Replaced(t)
  BY DEF T!file_edit, T!Editing, T!procs, T!repo
<1>2. T!Target \in Paths /\ t \in Contents
  BY <1>1 DEF ToolInv, StageFits, FileStages, ToolTypes
<1>3. text' \in Seq(STRING)
  <2>1. CASE UNCHANGED text
    BY <2>1 DEF ToolInv, ToolTypes
  <2>2. CASE T!Unique(t) /\ text' = T!Replaced(t)
    <3>1. t \in Seq(STRING)
      BY <1>2, <2>2 DEF T!Unique, Contents
    <3> QED BY <2>2, <3>1, ReplacedIs
  <2> QED BY <1>1, <2>1, <2>2
<1>4. ~disturbed => disk = before.disk /\ disk' = before.disk
  BY <1>1 DEF ToolInv, Undisturbed
<1>5. /\ disk' \in [Paths -> Contents] /\ kid' \in BOOLEAN /\ sh' \in {"none", "runs", "gone"}
      /\ index' \in [T!Tracked -> Contents] /\ head' \in [T!Tracked -> Contents]
      /\ folder' \in BOOLEAN
  BY <1>1 DEF ToolInv, ToolTypes
<1>6. "open" \in Stages
  BY DEF Stages, FileStages
<1>7. CASE T!End("error")
  BY <1>3, <1>4, <1>5, <1>6, <1>7, StepTypes, EndsUnchanged
<1>8. CASE T!Unique(t) /\ T!Go("open") /\ text' = T!Replaced(t)
  <2>1. /\ ToolTypes' /\ UNCHANGED <<call, before, disturbed>> /\ stage' = "open"
        /\ T!Target' = T!Target
    BY <1>3, <1>5, <1>6, <1>8, StepTypes
  <2>2. StageFits'
    BY <1>1, <1>2, <2>1 DEF StageFits, FileStages
  <2>3. ~disturbed' => TextFits'
    BY <1>1, <1>4, <1>8, <2>1 DEF TextFits, T!Unique, T!Count, T!Replaced
  <2>4. ~disturbed' => Undisturbed'
    BY <1>4, <2>1, <2>3 DEF Undisturbed
  <2> QED BY <2>1, <2>2, <2>4 DEF ToolInv, T!EditsAreExact, T!CommandIsOver,
             T!CommitsAreExact, T!Ended
<1> QED BY <1>1, <1>7, <1>8

LEMMA safe_writeInv ==
    ASSUME T!ToolsConstants, ToolInv, T!safe_write PROVE ToolInv'
<1>1. /\ stage = "open" /\ UNCHANGED <<text, folder, sh, kid, index, head>>
      /\ T!Go("fill") /\ disk' = [disk EXCEPT ![T!Target] = <<>>]
  BY DEF T!safe_write, T!procs, T!repo
<1>2. /\ T!Target \in Paths /\ call.tool \in {"file_write", "file_edit"}
      /\ disk \in [Paths -> Contents]
  BY <1>1 DEF ToolInv, StageFits, FileStages, ToolTypes
<1>3. disk' \in [Paths -> Contents]
  <2>1. <<>> \in Contents
    BY DEF Contents
  <2> QED BY <1>1, <1>2, <2>1
<1>4. /\ kid' \in BOOLEAN /\ sh' \in {"none", "runs", "gone"} /\ text' \in Seq(STRING)
      /\ index' \in [T!Tracked -> Contents] /\ head' \in [T!Tracked -> Contents]
      /\ folder' \in BOOLEAN /\ "fill" \in Stages
  BY <1>1 DEF ToolInv, ToolTypes, Stages, FileStages
<1>5. /\ ToolTypes' /\ UNCHANGED <<call, before, disturbed>> /\ stage' = "fill"
      /\ T!Target' = T!Target
  BY <1>1, <1>3, <1>4, StepTypes
<1>6. StageFits'
  BY <1>2, <1>5 DEF StageFits
<1>7. ~disturbed' => Undisturbed'
  <2> SUFFICES ASSUME ~disturbed PROVE Undisturbed'
    BY <1>5
  <2>1. disk = before.disk /\ TextFits
    BY <1>1 DEF ToolInv, Undisturbed
  <2>2. TextFits'
    BY <1>1, <1>5, <2>1 DEF TextFits, T!Unique, T!Count, T!Replaced
  <2> QED BY <1>1, <1>5, <2>1, <2>2 DEF Undisturbed
<1> QED BY <1>5, <1>6, <1>7 DEF ToolInv, T!EditsAreExact, T!CommandIsOver,
           T!CommitsAreExact, T!Ended

(* A text laid over an empty one is that text; over any, it is a text.     *)
LEMMA OverIs ==
    ASSUME NEW t \in Seq(STRING)
    PROVE  /\ \A there \in Contents : T!Over(t, there) \in Contents
           /\ <<>> # Missing => T!Over(t, <<>>) = t
<1>1. Len(t) \in Nat
  BY LenProperties
<1>2. ASSUME NEW there \in Contents PROVE T!Over(t, there) \in Contents
  <2>1. CASE there = Missing
    BY <2>1 DEF T!Over, Contents
  <2>2. CASE there # Missing
    <3>1. there \in Seq(STRING) /\ Len(there) \in Nat
      BY <2>2, LenProperties DEF Contents
    <3>2. SubSeq(there, Len(t) + 1, Len(there)) \in Seq(STRING)
      <4>1. \A i \in Len(t) + 1 .. Len(there) : i \in 1 .. Len(there)
        BY <1>1, <3>1
      <4> QED BY <1>1, <3>1, <4>1, SubSeqProperties
    <3>3. t \o SubSeq(there, Len(t) + 1, Len(there)) \in Seq(STRING)
      BY <3>2, ConcatProperties
    <3> QED BY <2>2, <3>3 DEF T!Over, Contents
  <2> QED BY <2>1, <2>2
<1>3. ASSUME <<>> # Missing PROVE T!Over(t, <<>>) = t
  <2>1. SubSeq(<<>>, Len(t) + 1, Len(<<>>)) = <<>>
    BY <1>1, SubSeqEmpty, EmptySeq
  <2>2. t \o <<>> = t
    BY ConcatEmptySeq
  <2> QED BY <1>3, <2>1, <2>2 DEF T!Over
<1> QED BY <1>2, <1>3

LEMMA FillInv ==
    ASSUME T!ToolsConstants, ToolInv, T!Fill PROVE ToolInv'
<1>1. /\ stage = "fill" /\ UNCHANGED <<text, folder, sh, kid, index, head>>
      /\ \/ T!End("written") /\ disk' = [disk EXCEPT ![T!Target] = T!Over(text, @)]
         \/ T!End("full") /\ UNCHANGED disk
  BY DEF T!Fill, T!procs, T!repo
<1>2. /\ T!Target \in Paths /\ call.tool \in {"file_write", "file_edit"}
      /\ disk \in [Paths -> Contents] /\ text \in Seq(STRING)
  BY <1>1 DEF ToolInv, StageFits, FileStages, ToolTypes
<1>3. disk' \in [Paths -> Contents]
  <2>1. T!Over(text, disk[T!Target]) \in Contents
    BY <1>2, OverIs
  <2> QED BY <1>1, <1>2, <2>1
<1>4. /\ kid' \in BOOLEAN /\ sh' \in {"none", "runs", "gone"} /\ text' \in Seq(STRING)
      /\ index' \in [T!Tracked -> Contents] /\ head' \in [T!Tracked -> Contents]
      /\ folder' \in BOOLEAN /\ stage \in Stages
  BY <1>1 DEF ToolInv, ToolTypes
<1>5. /\ ToolTypes' /\ UNCHANGED <<call, before, disturbed>> /\ stage' = "done"
      /\ T!Target' = T!Target
      /\ \/ result' = "full"
         \/ result' = "written" /\ disk' = [disk EXCEPT ![T!Target] = T!Over(text, @)]
  BY <1>1, <1>3, <1>4, StepTypes
<1>6. StageFits' /\ Undisturbed'
  BY <1>5 DEF StageFits, Undisturbed, FileStages
<1>7. T!EditsAreExact'
  <2> SUFFICES ASSUME ~disturbed, result' = "written"
               PROVE  /\ call.tool = "file_write" =>
                           disk' = [before.disk EXCEPT ![T!Target] = <<new>>]
                      /\ call.tool = "file_edit" =>
                           /\ T!Unique(before.disk[T!Target])
                           /\ disk' = [before.disk EXCEPT ![T!Target] = T!Replaced(@)]
    BY <1>5 DEF T!EditsAreExact, T!Ended, T!Unique, T!Count, T!Replaced
  <2>1. TextFits /\ disk = [before.disk EXCEPT ![T!Target] = <<>>]
    BY <1>1 DEF ToolInv, Undisturbed
  <2>2. before.disk \in [Paths -> Contents]
    BY DEF ToolInv, ToolTypes, Snapshots
  <2>3. disk[T!Target] = <<>> /\ T!Over(text, <<>>) = text
    <3>1. <<>> # Missing
      BY DEF T!ToolsConstants
    <3> QED BY <1>2, <2>1, <2>2, <3>1, OverIs
  <2>4. disk' = [before.disk EXCEPT ![T!Target] = text]
    BY <1>2, <1>5, <2>1, <2>2, <2>3
  <2> QED BY <2>1, <2>4 DEF TextFits
<1>8. (T!CommandIsOver /\ T!CommitsAreExact)'
  BY <1>5 DEF T!CommandIsOver, T!CommitsAreExact, T!Ended
<1> QED BY <1>5, <1>6, <1>7, <1>8 DEF ToolInv

(* What happens to the processes while a command is waited for, and how    *)
(* the wait ends.                                                          *)
LEMMA ShellInv ==
    ASSUME T!ToolsConstants, ToolInv,
           \/ T!ShellForks \/ T!ShellEnds \/ T!KidEnds \/ T!Output \/ T!TimeOut \/ T!Kill
    PROVE  ToolInv'
<1>1. /\ stage \in {"waits", "terms"} /\ UNCHANGED <<disk, folder, text, index, head>>
      /\ UNCHANGED <<call, before, disturbed, calls, saves>>
      /\ sh' \in {"none", "runs", "gone"} /\ kid' \in BOOLEAN
      /\ \/ UNCHANGED <<stage, result>>
         \/ stage' = "terms"
         \/ stage' = "done" /\ result' = "exit" /\ sh' = "gone" /\ ~kid'
         \/ stage' = "done" /\ result' = "timeout" /\ sh' = "gone"
  <2>1. sh \in {"none", "runs", "gone"} /\ kid \in BOOLEAN
    BY DEF ToolInv, ToolTypes
  <2>2. CASE T!ShellForks \/ T!ShellEnds \/ T!KidEnds
    BY <2>1, <2>2 DEF T!ShellForks, T!ShellEnds, T!KidEnds, T!InShell, T!Outer, T!files, T!repo
  <2>3. CASE T!Output
    BY <2>1, <2>3 DEF T!Output, T!End, T!files, T!procs, T!repo
  <2>4. CASE T!TimeOut \/ T!Kill
    BY <2>1, <2>4 DEF T!TimeOut, T!Kill, T!End, T!Go, T!files, T!procs, T!repo
  <2> QED BY <2>2, <2>3, <2>4
<1>2. ToolTypes'
  <2>1. stage' \in Stages
    BY <1>1 DEF Stages, T!Idle
  <2> QED BY <1>1, <2>1 DEF ToolInv, ToolTypes
<1>3. StageFits'
  BY <1>1 DEF StageFits, FileStages
<1>4. ~disturbed' => Undisturbed'
  BY <1>1 DEF ToolInv, Undisturbed
<1>5. (T!EditsAreExact /\ T!CommandIsOver /\ T!CommitsAreExact)'
  BY <1>1 DEF T!EditsAreExact, T!CommandIsOver, T!CommitsAreExact, T!Ended
<1> QED BY <1>2, <1>3, <1>4, <1>5 DEF ToolInv

LEMMA git_addInv ==
    ASSUME T!ToolsConstants, ToolInv, T!git_add PROVE ToolInv'
<1>1. /\ stage = "add" /\ UNCHANGED <<disk, text, folder, sh, kid, head>>
      /\ \/ T!End("error") /\ UNCHANGED index
         \/ /\ T!Go("commit")
            /\ index' = [f \in T!Tracked |-> IF f \in call.names THEN disk[f] ELSE index[f]]
  BY DEF T!git_add, T!files, T!procs
<1>2. T!Tracked \subseteq Paths /\ disk \in [Paths -> Contents]
      /\ index \in [T!Tracked -> Contents]
  BY DEF T!Tracked, ToolInv, ToolTypes
<1>3. index' \in [T!Tracked -> Contents]
  BY <1>1, <1>2
<1>4. /\ kid' \in BOOLEAN /\ sh' \in {"none", "runs", "gone"} /\ text' \in Seq(STRING)
      /\ disk' \in [Paths -> Contents] /\ head' \in [T!Tracked -> Contents]
      /\ folder' \in BOOLEAN /\ "commit" \in Stages
  BY <1>1 DEF ToolInv, ToolTypes, Stages
<1>5. ~disturbed => disk = before.disk /\ index = before.index /\ head = before.head
  BY <1>1 DEF ToolInv, Undisturbed
<1>6. CASE T!End("error")
  BY <1>1, <1>3, <1>4, <1>5, <1>6, StepTypes, EndsUnchanged
<1>7. CASE /\ T!Go("commit")
           /\ index' = [f \in T!Tracked |-> IF f \in call.names THEN disk[f] ELSE index[f]]
  <2>1. /\ ToolTypes' /\ UNCHANGED <<call, before, disturbed>> /\ stage' = "commit"
    BY <1>3, <1>4, <1>7, StepTypes
  <2>2. StageFits'
    BY <2>1 DEF StageFits, FileStages
  <2>3. ~disturbed' => Undisturbed'
    BY <1>1, <1>5, <1>7, <2>1 DEF Undisturbed, T!Tracked
  <2> QED BY <2>1, <2>2, <2>3 DEF ToolInv, T!EditsAreExact, T!CommandIsOver,
             T!CommitsAreExact, T!Ended
<1> QED BY <1>1, <1>6, <1>7

LEMMA git_commitInv ==
    ASSUME T!ToolsConstants, ToolInv, T!git_commit PROVE ToolInv'
<1>1. /\ stage = "commit" /\ UNCHANGED <<disk, text, folder, sh, kid>>
      /\ \/ T!Clean /\ T!End("clean") /\ UNCHANGED <<index, head>>
         \/ T!End("error") /\ UNCHANGED <<index, head>>
         \/ T!End("committed") /\ head' = T!Staged /\ index' = T!Staged
  BY DEF T!git_commit, T!files, T!procs, T!repo
<1>2. T!Tracked \subseteq Paths /\ disk \in [Paths -> Contents]
      /\ index \in [T!Tracked -> Contents] /\ head \in [T!Tracked -> Contents]
  BY DEF T!Tracked, ToolInv, ToolTypes
<1>3. T!Staged \in [T!Tracked -> Contents]
  BY <1>2 DEF T!Staged, T!Known, Contents
<1>4. /\ kid' \in BOOLEAN /\ sh' \in {"none", "runs", "gone"} /\ text' \in Seq(STRING)
      /\ disk' \in [Paths -> Contents] /\ folder' \in BOOLEAN /\ stage \in Stages
      /\ index' \in [T!Tracked -> Contents] /\ head' \in [T!Tracked -> Contents]
  BY <1>1, <1>2, <1>3 DEF ToolInv, ToolTypes
<1>5. ASSUME ~disturbed
      PROVE  /\ disk = before.disk /\ head = before.head
             /\ \A f \in T!Tracked :
                  index[f] = IF f \in call.names THEN before.disk[f] ELSE before.index[f]
  BY <1>1, <1>5 DEF ToolInv, Undisturbed
<1>6. CASE T!End("error")
  BY <1>1, <1>4, <1>5, <1>6, StepTypes, EndsUnchanged
<1>7. CASE ~T!End("error")
  <2>1. PICK how \in {"clean", "committed"} :
          /\ T!End(how)
          /\ how = "clean" => T!Clean /\ head' = head
          /\ how = "committed" => head' = T!Staged
    BY <1>1, <1>7
  <2>2. /\ ToolTypes' /\ UNCHANGED <<call, before, disturbed>> /\ stage' = "done"
        /\ result' = how
    BY <1>4, <2>1, StepTypes
  <2>3. StageFits' /\ Undisturbed'
    BY <2>2 DEF StageFits, Undisturbed, FileStages
  <2>4. (T!EditsAreExact /\ T!CommandIsOver)'
    BY <2>2 DEF T!EditsAreExact, T!CommandIsOver, T!Ended
  <2>5. how = "clean" /\ ~disturbed => \A f \in T!Tracked : disk'[f] = before.head[f]
    BY <1>1, <1>5, <2>1 DEF T!Clean
  <2>6. ASSUME how = "committed", ~disturbed, NEW f \in T!Tracked
        PROVE  /\ f \in call.names => head'[f] = before.disk[f]
               /\ f \notin call.names /\ (call.names # {} \/ ~call.all) =>
                    head'[f] = before.index[f]
    <3>1. f \in call.names \/ call.names # {} \/ ~call.all => T!Staged = index
      BY DEF T!Staged
    <3> QED BY <1>5, <2>1, <2>6, <3>1
  <2>7. T!CommitsAreExact'
    BY <2>2, <2>5, <2>6 DEF T!CommitsAreExact, T!Ended, T!Tracked
  <2> QED BY <2>2, <2>3, <2>4, <2>7 DEF ToolInv
<1> QED BY <1>6, <1>7

(* The user's own steps, and the end of Anvil in the middle of a call.     *)
LEMMA OthersInv ==
    ASSUME T!ToolsConstants, ToolInv,
           T!Crash \/ (\E f \in T!Tracked : T!Save(f) \/ T!Stage(f))
    PROVE  ToolInv'
<1>1. CASE T!Crash
  <2>1. /\ stage' = "crashed" /\ UNCHANGED <<disk, folder, text, index, head, sh, kid>>
        /\ UNCHANGED <<call, result, before, disturbed, calls, saves>>
    BY <1>1 DEF T!Crash, T!files, T!procs, T!repo
  <2>2. ToolTypes'
    BY <2>1 DEF ToolInv, ToolTypes, Stages, T!Idle
  <2> QED BY <2>1, <2>2 DEF ToolInv, StageFits, Undisturbed, FileStages, T!EditsAreExact,
             T!CommandIsOver, T!CommitsAreExact, T!Ended
<1>2. CASE \E f \in T!Tracked : T!Save(f) \/ T!Stage(f)
  <2>1. PICK f \in T!Tracked : T!Save(f) \/ T!Stage(f)
    BY <1>2
  <2>2. /\ saves < MaxSaves /\ saves' = saves + 1 /\ disturbed' = TRUE
        /\ UNCHANGED <<folder, text, head, sh, kid, call, stage, result, before, calls>>
        /\ \/ UNCHANGED index /\ \E t \in Texts : disk' = [disk EXCEPT ![f] = t]
           \/ UNCHANGED disk /\ index' = [index EXCEPT ![f] = disk[f]]
    BY <2>1 DEF T!Save, T!Stage, T!files, T!procs, T!repo
  <2>3. /\ f \in Paths /\ f \in T!Tracked /\ disk \in [Paths -> Contents]
        /\ index \in [T!Tracked -> Contents] /\ Texts \subseteq Contents
    BY DEF ToolInv, ToolTypes, T!Tracked, T!ToolsConstants, Contents
  <2>4. disk' \in [Paths -> Contents] /\ index' \in [T!Tracked -> Contents]
    BY <2>2, <2>3
  <2>5. saves' \in 0 .. MaxSaves /\ calls' \in 0 .. MaxCalls
    BY <2>2 DEF ToolInv, ToolTypes, T!ToolsConstants
  <2>6. ToolTypes'
    BY <2>2, <2>4, <2>5 DEF ToolInv, ToolTypes
  <2>7. T!Target' = T!Target
    BY <2>2 DEF T!Target
  <2> QED BY <2>2, <2>6, <2>7 DEF ToolInv, StageFits, FileStages, T!EditsAreExact,
             T!CommandIsOver, T!CommitsAreExact, T!Ended
<1> QED BY <1>1, <1>2

LEMMA ToolStepInv ==
    ASSUME T!ToolsConstants, ToolInv, [T!Next]_toolVars PROVE ToolInv'
<1>1. CASE UNCHANGED toolVars
  <2>1. /\ UNCHANGED <<disk, folder, text, index, head, sh, kid>>
        /\ UNCHANGED <<call, stage, result, before, disturbed, calls, saves>>
    BY <1>1 DEF toolVars
  <2>2. T!Target' = T!Target
    BY <2>1 DEF T!Target
  <2>3. TextFits' = TextFits
    BY <2>1, <2>2 DEF TextFits, T!Unique, T!Count, T!Replaced
  <2>4. ToolTypes' /\ StageFits' /\ (~disturbed' => Undisturbed')
    BY <2>1, <2>2, <2>3 DEF ToolInv, ToolTypes, StageFits, Undisturbed
  <2>5. (T!EditsAreExact /\ T!CommandIsOver /\ T!CommitsAreExact)'
    BY <2>1, <2>2 DEF ToolInv, T!EditsAreExact, T!CommandIsOver, T!CommitsAreExact, T!Ended,
       T!Unique, T!Count, T!Replaced
  <2> QED BY <2>4, <2>5 DEF ToolInv
<1>2. CASE T!FileStep
  BY <1>2, BeginFileToolInv, resolve_pathInv, file_readInv, file_editInv, safe_writeInv, FillInv
     DEF T!FileStep
<1>3. CASE T!ShellStep
  BY <1>3, BeginShellInv, ShellInv DEF T!ShellStep
<1>4. CASE T!GitStep
  BY <1>4, BeginCommitInv, git_addInv, git_commitInv DEF T!GitStep
<1> QED BY <1>1, <1>2, <1>3, <1>4, OthersInv DEF T!Next

LEMMA ToolTypesHold == ToolInv => T!TypeOK
  BY DEF ToolInv, ToolTypes, Stages, FileStages, T!TypeOK

-----------------------------------------------------------------------------
(* Badges.  While one prompt at a time is open and none is killed as it    *)
(* writes, the file holds the badges that were announced, and so does the  *)
(* copy of the prompt; between unlocking and announcing, one more.         *)
BadgeFacts ==
    /\ \A b \in B!Badge : announced[b] \in {0, 1}
    /\ file # B!Torn => \A b \in B!Badge : b \in file <=> announced[b] = 1
    /\ file = B!Torn => \E p \in Terminals : at[p] = "saves"
    /\ \A p \in Terminals : at[p] \in {"prompt", "turn", "awards"} =>
         file # B!Torn /\ unlocked[p] = file
    /\ \A p \in Terminals : at[p] = "saves" =>
         /\ file = B!Torn /\ announced[award[p]] = 0
         /\ \A b \in B!Badge : b \in unlocked[p] <=> announced[b] = 1 \/ b = award[p]

BadgeInv ==
    /\ B!TypeOK /\ announced \in [B!Badge -> Nat] /\ shared \in BOOLEAN /\ torn \in BOOLEAN
    /\ \A p \in Terminals : at[p] = "saves" => award[p] \in B!Badge
    /\ ~shared => \A p, q \in Terminals : at[p] # "down" /\ at[q] # "down" => p = q
    /\ ~shared /\ ~torn => BadgeFacts

LEMMA BadgesAre ==
    /\ B!Badge = {"first_command", "first_file", "git_hero", "tool_master", "marathon"}
    /\ "torn" \notin B!Badge /\ "none" \notin B!Badge
    /\ \A t \in {"shell", "file_write", "git_commit"} : B!Trigger[t] \in B!Badge
<1>1. DOMAIN B!Trigger = {"shell", "file_write", "git_commit"}
  BY DEF B!Trigger
<1>2. B!Trigger["shell"] = "first_command" /\ B!Trigger["file_write"] = "first_file"
      /\ B!Trigger["git_commit"] = "git_hero"
  BY DEF B!Trigger
<1> QED BY <1>1, <1>2 DEF B!Badge

LEMMA BadgeInit == B!BadgesConstants /\ B!Init => BadgeInv
<1> SUFFICES ASSUME B!BadgesConstants, B!Init PROVE BadgeInv
  OBVIOUS
<1>1. /\ file = {} /\ shared = FALSE /\ torn = FALSE
      /\ \A p \in Terminals : at[p] = "down" /\ unlocked[p] = {}
      /\ \A b \in B!Badge : announced[b] = 0
      /\ announced \in [B!Badge -> Nat]
  BY DEF B!Init
<1>2. B!TypeOK
  BY DEF B!Init, B!TypeOK
<1>3. BadgeFacts
  BY <1>1 DEF BadgeFacts, B!Torn
<1> QED BY <1>1, <1>2, <1>3 DEF BadgeInv

(* Steps that leave the file, what was announced and every copy alone, and *)
(* move an open prompt between two places at which it does not write.      *)
LEMMA BadgeTurn ==
    ASSUME BadgeInv, NEW p \in Terminals, NEW from, NEW to,
           at[p] = from, at' = [at EXCEPT ![p] = to],
           {from, to} \subseteq {"prompt", "turn", "awards"},
           triggered' \in [Terminals -> SUBSET B!Badge], used' \in [Terminals -> SUBSET Asking],
           UNCHANGED <<file, unlocked, award, announced, shared, torn>>
    PROVE  BadgeInv'
<1>1. /\ at' \in [Terminals -> {"down", "prompt", "turn", "awards", "saves"}]
      /\ \A q \in Terminals : at'[q] = IF q = p THEN to ELSE at[q]
  BY DEF BadgeInv, B!TypeOK
<1>2. B!TypeOK'
  BY <1>1 DEF BadgeInv, B!TypeOK
<1>3. BadgeFacts => BadgeFacts'
  BY <1>1 DEF BadgeFacts
<1>4. ~shared => \A q, r \in Terminals : at'[q] # "down" /\ at'[r] # "down" => q = r
  BY <1>1 DEF BadgeInv
<1> QED BY <1>1, <1>2, <1>3, <1>4 DEF BadgeInv

LEMMA BadgeStepInv == B!BadgesConstants /\ BadgeInv /\ [B!Next]_badgeVars => BadgeInv'
<1> SUFFICES ASSUME B!BadgesConstants, BadgeInv, [B!Next]_badgeVars PROVE BadgeInv'
  OBVIOUS
<1>1. /\ at \in [Terminals -> {"down", "prompt", "turn", "awards", "saves"}]
      /\ unlocked \in [Terminals -> SUBSET B!Badge] /\ triggered \in [Terminals -> SUBSET B!Badge]
      /\ used \in [Terminals -> SUBSET Asking] /\ award \in [Terminals -> B!Badge \cup {"none"}]
      /\ file = B!Torn \/ file \subseteq B!Badge
      /\ announced \in [B!Badge -> Nat]
  BY DEF BadgeInv, B!TypeOK
<1>2. CASE UNCHANGED badgeVars
  BY <1>2 DEF badgeVars, BadgeInv, B!TypeOK, BadgeFacts
<1>3. ASSUME NEW p \in Terminals, B!Start(p) PROVE BadgeInv'
  <2>1. /\ at[p] = "down" /\ at' = [at EXCEPT ![p] = "prompt"]
        /\ unlocked' = [unlocked EXCEPT ![p] = B!load]
        /\ UNCHANGED <<file, used, triggered, award, announced, torn>>
    BY <1>3 DEF B!Start, B!Go
  <2>2. shared' \in BOOLEAN /\ (~shared' => ~shared /\ \A q \in Terminals \ {p} : at[q] = "down")
    BY <1>3 DEF B!Start, BadgeInv
  <2>3. /\ \A q \in Terminals : at'[q] = IF q = p THEN "prompt" ELSE at[q]
        /\ \A q \in Terminals : unlocked'[q] = IF q = p THEN B!load ELSE unlocked[q]
    BY <1>1, <2>1
  <2>4. B!load \subseteq B!Badge
    BY <1>1 DEF B!load
  <2>5. B!TypeOK'
    BY <1>1, <2>1, <2>4 DEF B!TypeOK
  <2>6. ~shared' /\ ~torn' => BadgeFacts'
    <3> SUFFICES ASSUME ~shared', ~torn' PROVE BadgeFacts'
      OBVIOUS
    <3>1. BadgeFacts /\ \A q \in Terminals \ {p} : at[q] = "down"
      BY <2>1, <2>2 DEF BadgeInv
    <3>2. file # B!Torn /\ B!load = file
      BY <2>1, <3>1 DEF BadgeFacts, B!load
    <3> QED BY <2>1, <2>3, <3>1, <3>2 DEF BadgeFacts
  <2> QED BY <2>1, <2>2, <2>3, <2>5, <2>6 DEF BadgeInv
<1>4. ASSUME NEW p \in Terminals, B!record_message(p) PROVE BadgeInv'
  <2>1. triggered' \in [Terminals -> SUBSET B!Badge]
    BY <1>1, <1>4, BadgesAre DEF B!record_message
  <2> QED BY <1>1, <1>4, <2>1, BadgeTurn DEF B!record_message, B!Go
<1>5. ASSUME NEW p \in Terminals, B!record_tool_call(p) PROVE BadgeInv'
  <2>1. PICK tool \in Asking : \E more \in {{}, {"tool_master"}} :
          /\ used' = [used EXCEPT ![p] = @ \cup {tool}]
          /\ triggered' = [triggered EXCEPT ![p] = @ \cup {B!Trigger[tool]} \cup more]
    BY <1>5 DEF B!record_tool_call
  <2>2. B!Trigger[tool] \in B!Badge /\ "tool_master" \in B!Badge
    BY BadgesAre DEF B!BadgesConstants
  <2>3. triggered' \in [Terminals -> SUBSET B!Badge] /\ used' \in [Terminals -> SUBSET Asking]
    BY <1>1, <2>1, <2>2
  <2>4. at[p] = "turn" /\ at' = [at EXCEPT ![p] = "turn"]
        /\ UNCHANGED <<file, unlocked, award, announced, shared, torn>>
    BY <1>1, <1>5 DEF B!record_tool_call
  <2> QED BY <2>3, <2>4, BadgeTurn
<1>6. ASSUME NEW p \in Terminals, B!TurnEnds(p) PROVE BadgeInv'
  <2>1. triggered' \in [Terminals -> SUBSET B!Badge]
    BY <1>1, <1>6 DEF B!TurnEnds
  <2> QED BY <1>1, <1>6, <2>1, BadgeTurn DEF B!TurnEnds, B!Go
<1>7. ASSUME NEW p \in Terminals, B!unlock(p) PROVE BadgeInv'
  <2>1. PICK b \in triggered[p] :
          /\ triggered' = [triggered EXCEPT ![p] = @ \ {b}]
          /\ IF b \in unlocked[p] THEN UNCHANGED <<at, file, unlocked, award>>
             ELSE /\ B!Go(p, "saves") /\ file' = B!Torn
                  /\ unlocked' = [unlocked EXCEPT ![p] = @ \cup {b}]
                  /\ award' = [award EXCEPT ![p] = b]
    BY <1>7 DEF B!unlock
  <2>2. at[p] = "awards" /\ b \in B!Badge /\ UNCHANGED <<used, announced, shared, torn>>
    BY <1>1, <1>7, <2>1 DEF B!unlock
  <2>3. triggered' \in [Terminals -> SUBSET B!Badge]
    BY <1>1, <2>1
  <2>4. CASE b \in unlocked[p]
    <3>1. at' = [at EXCEPT ![p] = "awards"]
      BY <1>1, <2>1, <2>2, <2>4
    <3> QED BY <1>1, <2>1, <2>2, <2>3, <2>4, <3>1, BadgeTurn
  <2>5. CASE b \notin unlocked[p]
    <3>1. /\ file' = B!Torn
          /\ \A q \in Terminals : /\ at'[q] = IF q = p THEN "saves" ELSE at[q]
                                  /\ unlocked'[q] = IF q = p THEN unlocked[p] \cup {b}
                                                    ELSE unlocked[q]
                                  /\ award'[q] = IF q = p THEN b ELSE award[q]
      BY <1>1, <2>1, <2>5 DEF B!Go
    <3>2. B!TypeOK'
      BY <1>1, <2>1, <2>2, <2>3, <2>5 DEF B!TypeOK, B!Go
    <3>3. ~shared /\ ~torn => BadgeFacts'
      <4> SUFFICES ASSUME ~shared, ~torn PROVE BadgeFacts'
        OBVIOUS
      <4>1. BadgeFacts /\ \A q \in Terminals : q # p => at[q] = "down"
        BY <2>2 DEF BadgeInv
      <4>2. unlocked[p] = file /\ file # B!Torn
        BY <2>2, <4>1 DEF BadgeFacts
      <4>3. announced[b] = 0 /\ \A c \in B!Badge : c \in unlocked[p] <=> announced[c] = 1
        BY <2>2, <2>5, <4>1, <4>2 DEF BadgeFacts
      <4> QED BY <2>2, <3>1, <4>1, <4>3 DEF BadgeFacts
    <3> QED BY <1>1, <2>2, <3>1, <3>2, <3>3 DEF BadgeInv
  <2> QED BY <2>4, <2>5
<1>8. ASSUME NEW p \in Terminals, B!save(p) PROVE BadgeInv'
  <2>1. /\ at[p] = "saves" /\ at' = [at EXCEPT ![p] = "awards"] /\ file' = unlocked[p]
        /\ announced' = [announced EXCEPT ![award[p]] = @ + 1]
        /\ award' = [award EXCEPT ![p] = "none"]
        /\ UNCHANGED <<unlocked, used, triggered, shared, torn>>
    BY <1>8 DEF B!save, B!Go
  <2>2. award[p] \in B!Badge
    BY <2>1 DEF BadgeInv
  <2>3. /\ \A q \in Terminals : at'[q] = IF q = p THEN "awards" ELSE at[q]
        /\ \A q \in Terminals : award'[q] = IF q = p THEN "none" ELSE award[q]
        /\ \A b \in B!Badge : announced'[b] = IF b = award[p] THEN announced[b] + 1
                                              ELSE announced[b]
        /\ announced' \in [B!Badge -> Nat]
    BY <1>1, <2>1, <2>2
  <2>4. B!TypeOK'
    BY <1>1, <2>1 DEF B!TypeOK
  <2>5. file' # B!Torn
    BY <1>1, <2>1, BadgesAre DEF B!Torn
  <2>6. ~shared /\ ~torn => BadgeFacts'
    <3> SUFFICES ASSUME ~shared, ~torn PROVE BadgeFacts'
      OBVIOUS
    <3>1. BadgeFacts /\ \A q \in Terminals : q # p => at[q] = "down"
      BY <2>1 DEF BadgeInv
    <3>2. \A b \in B!Badge : b \in file' <=> announced'[b] = 1
      BY <2>1, <2>2, <2>3, <3>1 DEF BadgeFacts
    <3>3. \A b \in B!Badge : announced'[b] \in {0, 1}
      BY <2>1, <2>2, <2>3, <3>1 DEF BadgeFacts
    <3> QED BY <2>1, <2>3, <2>5, <3>1, <3>2, <3>3 DEF BadgeFacts
  <2> QED BY <2>1, <2>2, <2>3, <2>4, <2>6 DEF BadgeInv
<1>9. ASSUME NEW p \in Terminals, B!Awarded(p) PROVE BadgeInv'
  BY <1>1, <1>9, BadgeTurn DEF B!Awarded, B!Go
<1>10. ASSUME NEW p \in Terminals, B!Ends(p) PROVE BadgeInv'
  <2>1. /\ at[p] # "down" /\ at' = [at EXCEPT ![p] = "down"]
        /\ triggered' = [triggered EXCEPT ![p] = {}]
        /\ award' = [award EXCEPT ![p] = "none"] /\ unlocked' = [unlocked EXCEPT ![p] = {}]
        /\ used' = [used EXCEPT ![p] = {}]
        /\ UNCHANGED <<file, announced, shared>>
    BY <1>10 DEF B!Ends, B!Go
  <2>2. torn' \in BOOLEAN /\ (~torn' => ~torn /\ at[p] # "saves")
    BY <1>10 DEF B!Ends, BadgeInv
  <2>3. \A q \in Terminals : /\ at'[q] = IF q = p THEN "down" ELSE at[q]
                             /\ award'[q] = IF q = p THEN "none" ELSE award[q]
                             /\ unlocked'[q] = IF q = p THEN {} ELSE unlocked[q]
    BY <1>1, <2>1
  <2>4. B!TypeOK'
    BY <1>1, <2>1 DEF B!TypeOK
  <2>5. BadgeFacts /\ at[p] # "saves" => BadgeFacts'
    BY <2>1, <2>3 DEF BadgeFacts
  <2> QED BY <2>1, <2>2, <2>3, <2>4, <2>5 DEF BadgeInv
<1> QED BY <1>2, <1>3, <1>4, <1>5, <1>6, <1>7, <1>8, <1>9, <1>10 DEF B!Next

LEMMA BadgesLast == BadgeInv => B!AwardsLast
  BY DEF BadgeInv, BadgeFacts, B!AwardsLast

-----------------------------------------------------------------------------
(* Long outputs: a file has the name and the number it was told for, and a *)
(* name that was used once was told once.                                  *)
FileOf(d, m) == d \subseteq [name : O!Names, output : 1 .. m, lines : 1 .. MaxLines]

OverflowInv ==
    /\ second \in 0 .. MaxSecond /\ made \in 0 .. MaxOutputs
    /\ FileOf(dir, made) /\ IsFiniteSet(dir)
    /\ \A f, g \in dir : f.name = g.name => f = g
    /\ told \subseteq [name : O!Names, output : 1 .. made, lines : Nat]
    /\ \A t \in told, f \in dir :
         f.name = t.name /\ t.name \notin clobbered => f.output = t.output
    /\ clobbered \subseteq O!Names

LEMMA OverflowInit == O!OverflowConstants /\ O!Init => OverflowInv
<1> SUFFICES ASSUME O!OverflowConstants, O!Init PROVE OverflowInv
  OBVIOUS
<1>1. IsFiniteSet({})
  BY FS_EmptySet
<1> QED BY <1>1 DEF O!OverflowConstants, O!Init, OverflowInv, FileOf

(* What is written: one file under the name that is told.                  *)
LEMMA SavedIs ==
    ASSUME O!OverflowConstants, OverflowInv, made < MaxOutputs, made' = made + 1,
           NEW name \in O!Names, NEW n \in 1 .. MaxLines, NEW k \in Nat, UNCHANGED second,
           dir' = (dir \ {f \in dir : f.name = name}) \cup
                  {[name |-> name, output |-> made + 1, lines |-> n]},
           told' = told \cup {[name |-> name, output |-> made + 1, lines |-> k]},
           clobbered' = IF \E t \in told : t.name = name THEN clobbered \cup {name} ELSE clobbered
    PROVE  OverflowInv'
<1> DEFINE saved == [name |-> name, output |-> made + 1, lines |-> n]
           line == [name |-> name, output |-> made + 1, lines |-> k]
<1>1. made \in Nat /\ made' \in 0 .. MaxOutputs /\ second' \in 0 .. MaxSecond
  BY DEF OverflowInv, O!OverflowConstants
<1>2. FileOf(dir', made')
  <2>1. saved \in [name : O!Names, output : 1 .. made + 1, lines : 1 .. MaxLines]
    BY <1>1
  <2>2. dir \subseteq [name : O!Names, output : 1 .. made + 1, lines : 1 .. MaxLines]
    BY <1>1 DEF OverflowInv, FileOf
  <2> QED BY <2>1, <2>2 DEF FileOf
<1>3. IsFiniteSet(dir')
  <2>1. IsFiniteSet(dir \ {f \in dir : f.name = name})
    BY FS_Subset DEF OverflowInv
  <2> QED BY <2>1, FS_AddElement
<1>4. told' \subseteq [name : O!Names, output : 1 .. made', lines : Nat]
  <2>1. line \in [name : O!Names, output : 1 .. made + 1, lines : Nat]
    BY <1>1
  <2>2. told \subseteq [name : O!Names, output : 1 .. made + 1, lines : Nat]
    BY <1>1 DEF OverflowInv
  <2> QED BY <2>1, <2>2
<1>5. \A f \in dir' : f = saved \/ (f \in dir /\ f.name # name)
  OBVIOUS
<1>6. saved.name = name /\ saved.output = made + 1 /\ line.name = name /\ line.output = made + 1
  OBVIOUS
<1> HIDE DEF saved, line
<1>7. \A f, g \in dir' : f.name = g.name => f = g
  BY <1>5, <1>6 DEF OverflowInv
<1>8. \A t \in told' : t = line \/ t \in told
  BY DEF line
<1>9. ASSUME NEW t \in told', NEW f \in dir', f.name = t.name, t.name \notin clobbered'
      PROVE  f.output = t.output
  <2>1. CASE f = saved /\ t # line
    <3>1. t \in told /\ t.name = name
      BY <1>6, <1>8, <1>9, <2>1
    <3> QED BY <1>9, <3>1
  <2>2. CASE f # saved
    <3>1. f \in dir /\ f.name # name
      BY <1>5, <2>2
    <3>2. t \in told /\ t.name \notin clobbered
      BY <1>6, <1>8, <1>9, <3>1
    <3> QED BY <1>9, <3>1, <3>2 DEF OverflowInv
  <2>3. CASE f = saved /\ t = line
    BY <1>6, <2>3
  <2> QED BY <2>1, <2>2, <2>3
<1>10. clobbered' \subseteq O!Names
  BY DEF OverflowInv
<1> QED BY <1>1, <1>2, <1>3, <1>4, <1>7, <1>9, <1>10 DEF OverflowInv

(* The three ways a step goes.                                             *)
LEMMA OverflowMoves ==
    ASSUME O!OverflowConstants, OverflowInv, [O!Next]_overflowVars
    PROVE  \/ /\ dir' \subseteq dir /\ second' \in 0 .. MaxSecond /\ made' \in made .. MaxOutputs
              /\ UNCHANGED <<told, clobbered>>
           \/ OverflowInv'
<1>1. made \in 0 .. MaxOutputs /\ second \in 0 .. MaxSecond
      /\ {Threshold, MaxLines, MaxOutputs, MaxSecond} \subseteq Nat
  BY DEF OverflowInv, O!OverflowConstants
<1>2. CASE UNCHANGED overflowVars
  BY <1>1, <1>2 DEF overflowVars
<1>3. CASE O!save_overflow
  <2>1. PICK tool \in Tool, lines \in 1 .. MaxLines + 1 :
          IF O!Kept(lines) <= Threshold THEN UNCHANGED <<dir, told, clobbered>>
          ELSE /\ dir' = (dir \ {f \in dir : f.name = O!FileName(tool)}) \cup
                         {[name |-> O!FileName(tool), output |-> made', lines |-> O!Kept(lines)]}
               /\ told' = told \cup {[name |-> O!FileName(tool), output |-> made', lines |-> lines]}
               /\ clobbered' = IF \E t \in told : t.name = [tool |-> tool, second |-> second]
                               THEN clobbered \cup {O!FileName(tool)} ELSE clobbered
    BY <1>3 DEF O!save_overflow
  <2>2. made < MaxOutputs /\ made' = made + 1 /\ UNCHANGED second
    BY <1>3 DEF O!save_overflow
  <2>3. CASE O!Kept(lines) <= Threshold
    <3>1. UNCHANGED <<dir, told, clobbered>>
      BY <2>1, <2>3
    <3> QED BY <1>1, <2>2, <3>1
  <2>4. CASE ~(O!Kept(lines) <= Threshold)
    <3>1. O!FileName(tool) \in O!Names
      BY <1>1 DEF O!FileName, O!Names
    <3>2. O!Kept(lines) \in 1 .. MaxLines /\ lines \in Nat
      BY <1>1, <2>4 DEF O!Kept
    <3>3. [tool |-> tool, second |-> second] = O!FileName(tool)
      BY DEF O!FileName
    <3> QED BY <2>1, <2>2, <2>4, <3>1, <3>2, <3>3, SavedIs
  <2> QED BY <2>3, <2>4
<1>4. CASE O!cleanup_context
  BY <1>1, <1>4 DEF O!cleanup_context
<1>5. CASE O!Tick
  BY <1>1, <1>5 DEF O!Tick
<1> QED BY <1>2, <1>3, <1>4, <1>5 DEF O!Next

LEMMA OverflowStepInv ==
    O!OverflowConstants /\ OverflowInv /\ [O!Next]_overflowVars => OverflowInv'
<1> SUFFICES ASSUME O!OverflowConstants, OverflowInv, [O!Next]_overflowVars PROVE OverflowInv'
  OBVIOUS
<1>1. CASE OverflowInv'
  BY <1>1
<1>2. CASE /\ dir' \subseteq dir /\ second' \in 0 .. MaxSecond /\ made' \in made .. MaxOutputs
           /\ UNCHANGED <<told, clobbered>>
  <2>1. made \in Nat /\ 1 .. made \subseteq 1 .. made' /\ made' \in 0 .. MaxOutputs
    BY <1>2 DEF OverflowInv, O!OverflowConstants
  <2>2. IsFiniteSet(dir')
    BY <1>2, FS_Subset DEF OverflowInv
  <2>3. FileOf(dir', made')
    BY <1>2, <2>1 DEF OverflowInv, FileOf
  <2>4. told' \subseteq [name : O!Names, output : 1 .. made', lines : Nat]
    BY <1>2, <2>1 DEF OverflowInv
  <2> QED BY <1>2, <2>1, <2>2, <2>3, <2>4 DEF OverflowInv
<1> QED BY <1>1, <1>2, OverflowMoves

LEMMA OverflowTypes == OverflowInv => O!TypeOK
  BY DEF OverflowInv, FileOf, O!TypeOK

LEMMA CountIs == ASSUME NEW some PROVE O!Cardinality(some) = Cardinality(some)
  BY DEF O!Cardinality, Cardinality

LEMMA NamesDoLead == OverflowInv => O!NamesLead
<1> SUFFICES ASSUME OverflowInv, NEW t \in told, NEW f \in dir, f.name = t.name,
                    t.name \notin clobbered
             PROVE  O!read_context_file(t.name.tool, t.name.second) = t.output
  BY DEF O!NamesLead
<1>1. t.name \in O!Names
  BY DEF OverflowInv
<1>2. [tool |-> t.name.tool, second |-> t.name.second] = t.name
  BY <1>1 DEF O!Names
<1>3. O!Matches(t.name.tool, t.name.second) = {f}
  <2>1. {g \in dir : g.name = t.name} = {f}
    BY DEF OverflowInv
  <2> QED BY <1>2, <2>1 DEF O!Matches
<1>4. O!Cardinality({f}) = 1
  BY FS_Singleton, CountIs
<1>5. f.output = t.output
  BY DEF OverflowInv
<1>6. (CHOOSE g \in {f} : TRUE) = f
  OBVIOUS
<1>7. O!read_context_file(t.name.tool, t.name.second) = (CHOOSE g \in {f} : TRUE).output
  BY <1>3, <1>4, Zenon DEF O!read_context_file
<1> QED BY <1>5, <1>6, <1>7

LEMMA PlaceIs ==
    ASSUME NEW f \in dir
    PROVE  O!list_context_files[f] = Cardinality({g \in dir : ~O!Newer(f, g)})
  BY CountIs DEF O!list_context_files

(* A file that is newer has no higher place.                               *)
LEMMA NewerComesFirst ==
    ASSUME OverflowInv, NEW f \in dir, NEW g \in dir, O!Newer(f, g)
    PROVE  O!list_context_files[f] <= O!list_context_files[g]
<1> DEFINE F == {h \in dir : ~O!Newer(f, h)}
           G == {h \in dir : ~O!Newer(g, h)}
<1>1. \A h \in dir : h.output \in Nat
  <2>1. made \in Nat
    BY DEF OverflowInv
  <2> QED BY <2>1 DEF OverflowInv, FileOf
<1>2. F \subseteq G
  BY <1>1 DEF O!Newer
<1>3. IsFiniteSet(G)
  BY FS_Subset DEF OverflowInv
<1>4. Cardinality(F) <= Cardinality(G)
  BY <1>2, <1>3, FS_Subset
<1> QED BY <1>4, PlaceIs, Zenon

(* A place is a number.                                                    *)
LEMMA PlacesAreNumbers ==
    ASSUME OverflowInv, NEW f \in dir
    PROVE  O!list_context_files[f] \in Nat
<1>1. IsFiniteSet({g \in dir : ~O!Newer(f, g)})
  BY FS_Subset DEF OverflowInv
<1> QED BY <1>1, FS_CardinalityType, PlaceIs, Zenon

LEMMA CleanKeepsNewestInStep ==
    ASSUME O!OverflowConstants, OverflowInv, [O!Next]_overflowVars,
           NEW f \in dir \ dir', NEW g \in dir'
    PROVE  ~(g \in dir /\ O!Newer(f, g)) \/ \E h \in dir' \ dir : h.name = f.name
<1>1. CASE O!save_overflow
  <2>1. PICK tool \in Tool, lines \in 1 .. MaxLines + 1 :
          IF O!Kept(lines) <= Threshold THEN UNCHANGED <<dir, told, clobbered>>
          ELSE dir' = (dir \ {e \in dir : e.name = O!FileName(tool)}) \cup
                      {[name |-> O!FileName(tool), output |-> made', lines |-> O!Kept(lines)]}
    BY <1>1 DEF O!save_overflow
  <2> DEFINE h == [name |-> O!FileName(tool), output |-> made', lines |-> O!Kept(lines)]
  <2>2. dir' = (dir \ {e \in dir : e.name = O!FileName(tool)}) \cup {h}
    BY <2>1
  <2>3. f.name = O!FileName(tool) /\ h.name = f.name /\ h \in dir'
    BY <2>2
  <2>4. h \notin dir
    <3>1. made \in Nat /\ made' = made + 1
      BY <1>1 DEF O!save_overflow, OverflowInv
    <3>2. h.output = made + 1
      BY <3>1
    <3>3. \A e \in dir : e.output \in 1 .. made
      BY DEF OverflowInv, FileOf
    <3> QED BY <3>1, <3>2, <3>3
  <2> QED BY <2>3, <2>4
<1>2. CASE O!cleanup_context
  <2>1. PICK keep \in 0 .. MaxOutputs : dir' = {e \in dir : O!list_context_files[e] <= keep}
    BY <1>2 DEF O!cleanup_context
  <2>2. SUFFICES ASSUME g \in dir, O!Newer(f, g) PROVE FALSE
    OBVIOUS
  <2>3. O!list_context_files[f] <= O!list_context_files[g]
    BY <2>2, NewerComesFirst
  <2>4. O!list_context_files[f] \in Nat /\ O!list_context_files[g] \in Nat
    BY <2>2, PlacesAreNumbers
  <2>5. ~(O!list_context_files[f] <= keep) /\ O!list_context_files[g] <= keep
    BY <2>1
  <2>6. keep \in Int
    BY DEF O!OverflowConstants
  <2> QED BY <2>3, <2>4, <2>5, <2>6
<1>3. CASE O!Tick \/ UNCHANGED overflowVars
  BY <1>3 DEF O!Tick, overflowVars
<1> QED BY <1>1, <1>2, <1>3 DEF O!Next

-----------------------------------------------------------------------------
(* The .anvil folders: a file is cut off while it is written, or was when  *)
(* an init was killed.                                                     *)
SetupInv ==
    /\ U!TypeOK
    /\ writing => where # NoDir /\ step \in 1 .. Len(U!Plan)
    /\ where # NoDir => step # 0
    /\ \A d \in U!Dirs, k \in U!Item :
         item[d][k] = "torn" => killed \/ (writing /\ where = d /\ U!Plan[step] = k)
    /\ where # NoDir => \A n \in 1 .. Len(U!Plan) :
                          n < step => item[where][U!Plan[n]] # "none"

LEMMA PlanIs ==
    ASSUME U!SetupConstants
    PROVE  /\ Len(U!Plan) \in Nat /\ DOMAIN U!Plan = 1 .. Len(U!Plan)
           /\ \A n \in 1 .. Len(U!Plan) : U!Plan[n] \in U!Item
           /\ \A k \in U!Item : \E n \in 1 .. Len(U!Plan) : U!Plan[n] = k
<1> DEFINE Word == STRING \cup {"config"}
<1>1. U!Plan \in Seq(Word)
  <2>1. Items \in Seq(STRING)
    BY DEF U!SetupConstants
  <2>2. Items \in Seq(Word)
    BY <2>1
  <2>3. <<"config">> \in Seq(Word)
    OBVIOUS
  <2> HIDE DEF Word
  <2> QED BY <2>2, <2>3, ConcatProperties DEF U!Plan
<1>2. DOMAIN U!Plan = 1 .. Len(U!Plan) /\ Len(U!Plan) \in Nat
  BY <1>1
<1> QED BY <1>2 DEF U!Item

LEMMA SetupInit == U!SetupConstants /\ U!Init => SetupInv
<1> SUFFICES ASSUME U!SetupConstants, U!Init PROVE SetupInv
  OBVIOUS
<1>1. \A d \in U!Dirs, k \in U!Item : item[d][k] = "none"
  BY DEF U!Init
<1>2. U!TypeOK
  <2>1. Len(U!Plan) \in Nat
    BY PlanIs
  <2>2. /\ harness = [d \in U!Dirs |-> FALSE] /\ item = [d \in U!Dirs |-> [k \in U!Item |-> "none"]]
        /\ where = NoDir /\ step = 0 /\ writing = FALSE /\ killed = FALSE
    BY DEF U!Init
  <2>3. item \in [U!Dirs -> [U!Item -> {"none", "torn", "default", "user"}]]
    BY <2>2
  <2>4. where \in U!Dirs \cup {NoDir}
    BY <2>2
  <2>5. step \in 0 .. Len(U!Plan) + 1
    BY <2>1, <2>2
  <2>6. harness \in [U!Dirs -> BOOLEAN]
    BY <2>2
  <2>7. writing \in BOOLEAN /\ killed \in BOOLEAN
    BY <2>2
  <2> QED BY <2>3, <2>4, <2>5, <2>6, <2>7 DEF U!TypeOK
<1> QED BY <1>1, <1>2 DEF U!Init, SetupInv

(* What putting a file in its place does.                                  *)
LEMMA PutIs ==
    ASSUME U!SetupConstants, U!TypeOK, where \in U!Dirs, step \in 1 .. Len(U!Plan),
           NEW how \in {"none", "torn", "default", "user"}, U!Put(how)
    PROVE  /\ item' \in [U!Dirs -> [U!Item -> {"none", "torn", "default", "user"}]]
           /\ \A d \in U!Dirs, k \in U!Item :
                item'[d][k] = IF d = where /\ k = U!Plan[step] THEN how ELSE item[d][k]
<1>1. item \in [U!Dirs -> [U!Item -> {"none", "torn", "default", "user"}]]
  BY DEF U!TypeOK
<1>2. U!Plan[step] \in U!Item
  BY PlanIs
<1>3. item' = [item EXCEPT ![where] = [item[where] EXCEPT ![U!Plan[step]] = how]]
  BY DEF U!Put
<1> QED BY <1>1, <1>2, <1>3

LEMMA SetupStepInv == U!SetupConstants /\ SetupInv /\ [U!Next]_setupVars => SetupInv'
<1> SUFFICES ASSUME U!SetupConstants, SetupInv, [U!Next]_setupVars PROVE SetupInv'
  OBVIOUS
<1> DEFINE States == {"none", "torn", "default", "user"}
<1>1. /\ Len(U!Plan) \in Nat /\ \A n \in 1 .. Len(U!Plan) : U!Plan[n] \in U!Item
      /\ harness \in [U!Dirs -> BOOLEAN] /\ item \in [U!Dirs -> [U!Item -> States]]
      /\ where \in U!Dirs \cup {NoDir} /\ step \in 0 .. Len(U!Plan) + 1
      /\ writing \in BOOLEAN /\ killed \in BOOLEAN
  BY PlanIs DEF SetupInv, U!TypeOK
<1>2. CASE UNCHANGED setupVars
  BY <1>2 DEF setupVars, SetupInv, U!TypeOK
<1>3. CASE U!BeginInit
  <2>1. PICK d \in U!Dirs : where' = d /\ harness' = [harness EXCEPT ![d] = TRUE]
    BY <1>3 DEF U!BeginInit
  <2>2. where = NoDir /\ step' = 1 /\ UNCHANGED <<item, writing, killed>>
    BY <1>3 DEF U!BeginInit
  <2>3. ~writing
    BY <2>2 DEF SetupInv
  <2> QED BY <1>1, <2>1, <2>2, <2>3 DEF SetupInv, U!TypeOK
<1>4. CASE U!init_harness
  <2>1. /\ where \in U!Dirs /\ where # NoDir /\ step \in 1 .. Len(U!Plan) /\ ~writing
        /\ UNCHANGED <<harness, where, killed>>
    BY <1>1, <1>4 DEF U!init_harness, U!Stands, SetupInv
  <2>2. CASE writing' = TRUE /\ U!Put("torn") /\ step' = step
    <3>1. /\ item' \in [U!Dirs -> [U!Item -> States]]
          /\ \A d \in U!Dirs, k \in U!Item :
               item'[d][k] = IF d = where /\ k = U!Plan[step] THEN "torn" ELSE item[d][k]
      BY <2>1, <2>2, PutIs DEF SetupInv
    <3> QED BY <1>1, <2>1, <2>2, <3>1 DEF SetupInv, U!TypeOK
  <2>3. CASE item[where][U!Plan[step]] # "none" /\ step' = step + 1
             /\ UNCHANGED <<writing, item>>
    BY <1>1, <2>1, <2>3 DEF SetupInv, U!TypeOK
  <2> QED BY <1>4, <2>2, <2>3 DEF U!init_harness
<1>5. CASE U!Fill
  <2>1. /\ where \in U!Dirs /\ where # NoDir /\ step \in 1 .. Len(U!Plan) /\ writing
        /\ writing' = FALSE /\ step' = step + 1 /\ U!Put("default")
        /\ UNCHANGED <<harness, where, killed>>
    BY <1>1, <1>5 DEF U!Fill, SetupInv
  <2>2. /\ item' \in [U!Dirs -> [U!Item -> States]]
        /\ \A d \in U!Dirs, k \in U!Item :
             item'[d][k] = IF d = where /\ k = U!Plan[step] THEN "default" ELSE item[d][k]
    BY <2>1, PutIs DEF SetupInv
  <2>3. U!TypeOK'
    <3>1. step' \in 0 .. Len(U!Plan) + 1
      BY <1>1, <2>1
    <3> QED BY <1>1, <2>1, <2>2, <3>1 DEF U!TypeOK
  <2>4. \A d \in U!Dirs, k \in U!Item : item'[d][k] = "torn" => killed'
    BY <2>1, <2>2 DEF SetupInv
  <2>5. \A n \in 1 .. Len(U!Plan) : n < step' => item'[where'][U!Plan[n]] # "none"
    <3> SUFFICES ASSUME NEW n \in 1 .. Len(U!Plan), n < step + 1
                 PROVE  item'[where][U!Plan[n]] # "none"
      BY <2>1
    <3>1. CASE U!Plan[n] = U!Plan[step]
      BY <1>1, <2>1, <2>2, <3>1
    <3>2. CASE U!Plan[n] # U!Plan[step]
      <4>1. n < step
        BY <1>1, <2>1, <3>2
      <4>2. item[where][U!Plan[n]] # "none"
        BY <2>1, <4>1 DEF SetupInv
      <4> QED BY <1>1, <2>1, <2>2, <3>2, <4>2
    <3> QED BY <3>1, <3>2
  <2>6. step' # 0
    BY <1>1, <2>1
  <2> QED BY <2>1, <2>3, <2>4, <2>5, <2>6 DEF SetupInv
<1>6. CASE U!cmd_init \/ U!Crash
  <2>1. /\ where' = NoDir /\ step' = 0 /\ writing' = FALSE
        /\ killed' \in BOOLEAN /\ (killed => killed')
        /\ UNCHANGED <<harness, item>>
    BY <1>1, <1>6 DEF U!cmd_init, U!Crash, U!Over
  <2>2. writing => killed'
    <3>1. CASE U!cmd_init
      <4>1. step > Len(U!Plan)
        BY <3>1 DEF U!cmd_init
      <4>2. ~(step \in 1 .. Len(U!Plan))
        BY <1>1, <4>1
      <4> QED BY <4>2 DEF SetupInv
    <3>2. CASE U!Crash
      BY <3>2 DEF U!Crash
    <3> QED BY <1>6, <3>1, <3>2
  <2>3. U!TypeOK'
    <3>1. step' \in 0 .. Len(U!Plan) + 1
      BY <1>1, <2>1
    <3> QED BY <1>1, <2>1, <3>1 DEF U!TypeOK
  <2>4. \A d \in U!Dirs, k \in U!Item : item'[d][k] = "torn" => killed'
    BY <2>1, <2>2 DEF SetupInv
  <2> QED BY <2>1, <2>3, <2>4 DEF SetupInv
<1>7. CASE U!Start
  BY <1>1, <1>7 DEF U!Start, SetupInv, U!TypeOK
<1>8. CASE U!Keep
  BY <1>1, <1>8 DEF U!Keep, SetupInv, U!TypeOK
<1>9. CASE U!Edit
  <2>1. PICK d \in U!Dirs, k \in U!Item : item' = [item EXCEPT ![d][k] = "user"]
    BY <1>9 DEF U!Edit
  <2>2. UNCHANGED <<harness, where, step, writing, killed>>
    BY <1>9 DEF U!Edit
  <2>3. /\ item' \in [U!Dirs -> [U!Item -> States]]
        /\ \A e \in U!Dirs, j \in U!Item :
             item'[e][j] = IF e = d /\ j = k THEN "user" ELSE item[e][j]
    BY <1>1, <2>1
  <2> QED BY <1>1, <2>2, <2>3 DEF SetupInv, U!TypeOK
<1> QED BY <1>2, <1>3, <1>4, <1>5, <1>6, <1>7, <1>8, <1>9 DEF U!Next

(* No step touches a file of the user, but the one that fills a file it    *)
(* had begun before the user wrote it.                                     *)
LEMMA UserFilesStayInStep ==
    ASSUME U!SetupConstants, SetupInv, [U!Next]_setupVars,
           NEW d \in U!Dirs, NEW k \in U!Item, item[d][k] = "user",
           ~(writing /\ where = d /\ U!Plan[step] = k)
    PROVE  item'[d][k] = "user"
<1>1. item \in [U!Dirs -> [U!Item -> {"none", "torn", "default", "user"}]]
      /\ where \in U!Dirs \cup {NoDir} /\ Len(U!Plan) \in Nat
      /\ step \in 0 .. Len(U!Plan) + 1
  BY PlanIs DEF SetupInv, U!TypeOK
<1>2. CASE item' = item
  BY <1>2
<1>3. CASE U!init_harness /\ item' # item
  <2>1. /\ where \in U!Dirs /\ step \in 1 .. Len(U!Plan) /\ U!Put("torn")
        /\ item[where][U!Plan[step]] = "none"
    BY <1>1, <1>3 DEF U!init_harness, U!Stands, SetupInv
  <2>2. item'[d][k] = IF d = where /\ k = U!Plan[step] THEN "torn" ELSE item[d][k]
    BY <2>1, PutIs DEF SetupInv
  <2> QED BY <2>1, <2>2
<1>4. CASE U!Fill
  <2>1. writing /\ where \in U!Dirs /\ step \in 1 .. Len(U!Plan) /\ U!Put("default")
    BY <1>1, <1>4 DEF U!Fill, SetupInv
  <2>2. item'[d][k] = IF d = where /\ k = U!Plan[step] THEN "default" ELSE item[d][k]
    BY <2>1, PutIs DEF SetupInv
  <2> QED BY <2>1, <2>2
<1>5. CASE U!Edit
  <2>1. PICK e \in U!Dirs, j \in U!Item : item' = [item EXCEPT ![e][j] = "user"]
    BY <1>5 DEF U!Edit
  <2> QED BY <1>1, <2>1
<1> QED BY <1>2, <1>3, <1>4, <1>5 DEF U!Next, setupVars, U!BeginInit, U!cmd_init, U!Crash,
           U!Start, U!Keep


(* At its end every file has been made.                                    *)
LEMMA SetupIsWhole == U!SetupConstants /\ SetupInv => U!InitIsWhole
<1> SUFFICES ASSUME U!SetupConstants, SetupInv, where # NoDir, step > Len(U!Plan), NEW k \in U!Item
             PROVE  item[where][k] # "none" /\ (item[where][k] = "torn" => killed)
  BY DEF U!InitIsWhole
<1>1. Len(U!Plan) \in Nat /\ step \in 0 .. Len(U!Plan) + 1 /\ where \in U!Dirs
  BY PlanIs DEF SetupInv, U!TypeOK
<1>2. PICK n \in 1 .. Len(U!Plan) : U!Plan[n] = k
  BY PlanIs
<1>3. n < step /\ ~(step \in 1 .. Len(U!Plan))
  BY <1>1
<1>4. item[where][k] # "none"
  BY <1>2, <1>3 DEF SetupInv
<1>5. ~writing
  BY <1>3 DEF SetupInv
<1>6. item[where][k] = "torn" => killed
  BY <1>1, <1>5 DEF SetupInv
<1> QED BY <1>4, <1>6

-----------------------------------------------------------------------------
(* Guided projects: what has been seen are the steps before the current    *)
(* one.                                                                    *)
ProjectInv ==
    /\ P!TypeOK /\ current <= nexts /\ nexts \in 0 .. MaxNext
    /\ seen \in [Project -> SUBSET Nat]
    /\ \A p \in Project : done[p] \subseteq 0 .. Steps[p] - 1
    /\ active # NoProject =>
         /\ seen[active] = {k \in 0 .. Steps[active] - 1 : k < current}
         /\ said = "finished" => current >= Steps[active]

LEMMA ProjectInit == P!ProjectsConstants /\ P!Init => ProjectInv
  BY DEF P!ProjectsConstants, P!Init, ProjectInv, P!TypeOK, P!Answers

LEMMA ProjectStepInv == P!ProjectsConstants /\ ProjectInv /\ [P!Next]_projectVars => ProjectInv'
<1> SUFFICES ASSUME P!ProjectsConstants, ProjectInv, [P!Next]_projectVars PROVE ProjectInv'
  OBVIOUS
<1>1. /\ Steps \in [Project -> Nat] /\ MaxNext \in Nat
      /\ active \in Project \cup {NoProject} /\ current \in Nat
      /\ done \in [Project -> SUBSET Nat] /\ seen \in [Project -> SUBSET Nat]
  BY DEF P!ProjectsConstants, ProjectInv, P!TypeOK
<1>2. CASE UNCHANGED projectVars
  BY <1>2 DEF projectVars, ProjectInv, P!TypeOK
<1>3. ASSUME NEW p \in Project, P!start_project(p) PROVE ProjectInv'
  <2>1. active' = p /\ current' = 0 /\ seen' = [seen EXCEPT ![p] = {}]
        /\ UNCHANGED <<done, nexts>>
        /\ said' = IF 0 >= Steps[p] THEN "finished" ELSE "step"
    BY <1>3 DEF P!start_project, P!format_current_step, P!is_complete
  <2> QED BY <1>1, <2>1 DEF ProjectInv, P!TypeOK, P!Answers
<1>4. CASE P!project_next
  <2>1. nexts < MaxNext /\ nexts' = nexts + 1 /\ UNCHANGED <<active, done>>
    BY <1>4 DEF P!project_next
  <2>2. CASE current' = current /\ seen' = seen /\ said' \in {"no_project", "not_yet", "error"}
    BY <1>1, <2>1, <2>2 DEF ProjectInv, P!TypeOK, P!Answers
  <2>3. CASE /\ active # NoProject /\ P!verify_current
             /\ current' = current + 1 /\ said' = P!format_current_step(active, current')
             /\ seen' = [seen EXCEPT ![active] =
                    IF current \in done[active] THEN @ \cup {current} ELSE @]
    <3>1. active \in Project /\ Steps[active] \in Nat
          /\ done[active] \subseteq 0 .. Steps[active] - 1
      BY <1>1, <2>3 DEF ProjectInv
    <3>2. /\ seen' \in [Project -> SUBSET Nat]
          /\ seen'[active] = IF current \in done[active] THEN seen[active] \cup {current}
                             ELSE seen[active]
      BY <1>1, <2>3, <3>1
    <3>3. current >= Steps[active] \/ current \in done[active]
      BY <2>3 DEF P!verify_current, P!is_complete
    <3>4. seen'[active] = {k \in 0 .. Steps[active] - 1 : k < current + 1}
      <4>1. seen[active] = {k \in 0 .. Steps[active] - 1 : k < current}
        BY <2>3 DEF ProjectInv
      <4> QED BY <1>1, <3>1, <3>2, <3>3, <4>1
    <3>5. said' = (IF current + 1 >= Steps[active] THEN "finished" ELSE "step")
      BY <2>3 DEF P!format_current_step, P!is_complete
    <3> QED BY <1>1, <2>1, <2>3, <3>1, <3>2, <3>4, <3>5 DEF ProjectInv, P!TypeOK, P!Answers
  <2> QED BY <1>4, <2>2, <2>3 DEF P!project_next
<1>5. CASE P!Work
  <2>0. PICK p \in Project : \E k \in 0 .. Steps[p] - 1 :
          done' = [done EXCEPT ![p] = IF k \in @ THEN @ \ {k} ELSE @ \cup {k}]
    BY <1>5 DEF P!Work
  <2>1. PICK k \in 0 .. Steps[p] - 1 :
          done' = [done EXCEPT ![p] = IF k \in @ THEN @ \ {k} ELSE @ \cup {k}]
    BY <2>0
  <2>2. UNCHANGED <<active, current, seen, said, nexts>>
    BY <1>5 DEF P!Work
  <2>3. done' \in [Project -> SUBSET Nat]
        /\ \A q \in Project : done'[q] \subseteq 0 .. Steps[q] - 1
    <3>1. \A q \in Project : done'[q] \subseteq done[q] \cup {k} /\ (q # p => done'[q] = done[q])
      BY <1>1, <2>1
    <3> QED BY <1>1, <2>1, <3>1 DEF ProjectInv
  <2> QED BY <1>1, <2>2, <2>3 DEF ProjectInv, P!TypeOK
<1>6. CASE P!Restart
  BY <1>1, <1>6 DEF P!Restart, ProjectInv, P!TypeOK, P!Answers
<1> QED BY <1>2, <1>3, <1>4, <1>5, <1>6 DEF P!Next


(* A project that is called finished has had all its steps seen.           *)
LEMMA ProjectIsVerified ==
    P!ProjectsConstants /\ ProjectInv => P!FinishedIsVerified
<1> SUFFICES ASSUME P!ProjectsConstants, ProjectInv, said = "finished", active # NoProject
             PROVE  seen[active] = 0 .. Steps[active] - 1
  BY DEF P!FinishedIsVerified
<1>1. active \in Project /\ Steps[active] \in Nat /\ current \in Nat /\ current >= Steps[active]
  BY DEF P!ProjectsConstants, ProjectInv, P!TypeOK
<1>2. seen[active] = {k \in 0 .. Steps[active] - 1 : k < current}
  BY DEF ProjectInv
<1> QED BY <1>1, <1>2

-----------------------------------------------------------------------------
(* Notes.                                                                  *)
NoteNames == (0 .. MaxSeconds) \X (1 .. MaxNotes)
NoteTexts == Plain \cup Bracketed
NoteFiles ==
    [name : NoteNames, tag : M!Categories \cup {"none"}, text : NoteTexts \cup {Empty}]
KeptNotes == [name : NoteNames, category : M!Categories, text : NoteTexts]

Unwritten(name) == [name |-> name, tag |-> "none", text |-> Empty]
Written(name, category, words) == [name |-> name, tag |-> M!Tag(category), text |-> words]
Adding(name, category, words) ==
    [op |-> "add", file |-> Unwritten(name), category |-> category,
     whole |-> Written(name, category, words)]
Clearing(names) == [op |-> "clear", left |-> names]

Deeds ==
    {M!Idle}
    \cup {Adding(name, category, words) :
             name \in NoteNames, category \in M!Categories, words \in NoteTexts}
    \cup {Clearing(names) : names \in SUBSET NoteNames}

(* A file is one that has been made and not written yet, or it holds what  *)
(* was saved under its name.                                               *)
FileFits(files, saved) ==
    \A f \in files :
       \/ f = Unwritten(f.name) /\ \A k \in saved : k.name # f.name
       \/ \E k \in saved : f = Written(k.name, k.category, k.text)

MemoryInv ==
    /\ now \in 0 .. MaxSeconds /\ notes \in 0 .. MaxNotes
    /\ store \subseteq NoteFiles /\ IsFiniteSet(store)
    /\ \A f, g \in store : f.name = g.name => f = g
    /\ kept \subseteq KeptNotes
    /\ \A k, l \in kept : k.name = l.name => k = l
    /\ \A k \in kept : \E f \in store : f.name = k.name
    /\ FileFits(store, kept)
    /\ doing \in [Prompts -> Deeds]

LEMMA MemoryInit == M!MemoryConstants /\ M!Init => MemoryInv
<1> SUFFICES ASSUME M!MemoryConstants, M!Init PROVE MemoryInv
  OBVIOUS
<1>1. IsFiniteSet({})
  BY FS_EmptySet
<1>2. now \in 0 .. MaxSeconds /\ notes \in 0 .. MaxNotes
  BY DEF M!MemoryConstants, M!Init
<1>3. doing \in [Prompts -> Deeds]
  BY DEF M!Init, Deeds
<1> QED BY <1>1, <1>2, <1>3 DEF M!Init, MemoryInv, FileFits

LEMMA WrittenIs ==
    /\ \A name \in NoteNames : Unwritten(name) \in NoteFiles /\ Unwritten(name).name = name
    /\ \A name \in NoteNames, category \in M!Categories, words \in NoteTexts :
         /\ Written(name, category, words) \in NoteFiles
         /\ Written(name, category, words).name = name
  BY DEF Unwritten, Written, NoteFiles, M!Tag

(* The files that are left when some are removed, with what was saved.     *)
LEMMA RemovedIs ==
    ASSUME M!MemoryConstants, MemoryInv, NEW gone \in SUBSET NoteNames,
           store' = {f \in store : f.name \notin gone},
           kept' = {k \in kept : k.name \notin gone},
           doing' \in [Prompts -> Deeds], UNCHANGED <<now, notes>>
    PROVE  MemoryInv'
<1>1. store' \subseteq store /\ IsFiniteSet(store')
  BY FS_Subset DEF MemoryInv
<1>2. \A k \in kept' : \E f \in store' : f.name = k.name
  BY DEF MemoryInv
<1>3. FileFits(store', kept')
  <2> SUFFICES ASSUME NEW f \in store'
               PROVE  \/ f = Unwritten(f.name) /\ \A k \in kept' : k.name # f.name
                      \/ \E k \in kept' : f = Written(k.name, k.category, k.text)
    BY DEF FileFits
  <2>1. CASE f = Unwritten(f.name) /\ \A k \in kept : k.name # f.name
    BY <2>1
  <2>2. CASE \E k \in kept : f = Written(k.name, k.category, k.text)
    <3>1. PICK k \in kept : f = Written(k.name, k.category, k.text)
      BY <2>2
    <3>2. f.name = k.name
      BY <3>1 DEF Written
    <3> QED BY <3>1, <3>2
  <2> QED BY <2>1, <2>2 DEF MemoryInv, FileFits
<1> QED BY <1>1, <1>2, <1>3 DEF MemoryInv

LEMMA AddInv ==
    ASSUME M!MemoryConstants, MemoryInv, NEW p \in Prompts, M!add_with_category(p)
    PROVE  MemoryInv'
<1>1. PICK category \in M!Categories, words \in NoteTexts, id \in 1 .. MaxNotes :
        LET name == <<now, id>>
            new_file == [name |-> name, tag |-> "none", text |-> Empty]
        IN  /\ \A f \in store : f.name[2] # id
            /\ store' = store \cup {new_file}
            /\ M!Do(p, [op |-> "add", file |-> new_file, category |-> category,
                        whole |-> [name |-> name, tag |-> M!Tag(category), text |-> words]])
  BY DEF M!add_with_category, NoteTexts
<1> DEFINE name == <<now, id>>
<1>2. name \in NoteNames /\ name[2] = id
  BY DEF MemoryInv, NoteNames
<1>3. /\ \A f \in store : f.name # name
      /\ store' = store \cup {Unwritten(name)} /\ M!Do(p, Adding(name, category, words))
  BY <1>1, <1>2 DEF Unwritten, Adding, Written
<1>4. notes < MaxNotes /\ notes' = notes + 1 /\ UNCHANGED <<now, kept>>
  BY DEF M!add_with_category
<1> HIDE DEF name
<1>5. Unwritten(name) \in NoteFiles /\ Unwritten(name).name = name
  BY <1>2, WrittenIs
<1>6. IsFiniteSet(store')
  BY <1>3, FS_AddElement DEF MemoryInv
<1>7. notes' \in 0 .. MaxNotes
  BY <1>4 DEF MemoryInv, M!MemoryConstants
<1>8. doing' \in [Prompts -> Deeds]
  BY <1>2, <1>3 DEF MemoryInv, M!Do, Deeds
<1>9. \A k \in kept : k.name # name
  BY <1>3 DEF MemoryInv
<1>10. FileFits(store', kept)
  BY <1>3, <1>5, <1>9 DEF MemoryInv, FileFits
<1> QED BY <1>3, <1>4, <1>5, <1>6, <1>7, <1>8, <1>10 DEF MemoryInv

LEMMA NoteFillInv ==
    ASSUME M!MemoryConstants, MemoryInv, NEW p \in Prompts, M!Fill(p)
    PROVE  MemoryInv'
<1>1. doing[p].op = "add" /\ doing[p] \in Deeds
  BY DEF M!Fill, MemoryInv
<1>2. PICK name \in NoteNames, category \in M!Categories, words \in NoteTexts :
        doing[p] = Adding(name, category, words)
  BY <1>1 DEF Deeds, M!Idle, Clearing
<1> DEFINE new_file == Unwritten(name)
           whole == Written(name, category, words)
           note == [name |-> name, category |-> category, text |-> words]
<1>3. doing[p].file = new_file /\ doing[p].whole = whole /\ doing[p].category = category
  BY <1>2 DEF Adding
<1>4. /\ new_file \in NoteFiles /\ new_file.name = name /\ whole \in NoteFiles /\ whole.name = name
      /\ whole.text = words
  BY WrittenIs DEF Written
<1>5. doing' \in [Prompts -> Deeds] /\ UNCHANGED <<now, notes>>
  BY DEF M!Fill, M!Do, MemoryInv, Deeds
<1>6. CASE new_file \notin store
  <2>1. UNCHANGED <<store, kept>>
    BY <1>3, <1>6 DEF M!Fill
  <2> QED BY <1>5, <2>1 DEF MemoryInv
<1>7. CASE new_file \in store
  <2>1. store' = (store \ {new_file}) \cup {whole} /\ kept' = kept \cup {note}
    BY <1>3, <1>4, <1>7 DEF M!Fill
  <2>2. note \in KeptNotes /\ note.name = name
    BY DEF KeptNotes
  <2>3. \A k \in kept : k.name # name
    <3>1. ASSUME NEW k \in kept, new_file = Written(k.name, k.category, k.text) PROVE FALSE
      <4>1. k.text = Empty
        BY <3>1 DEF Unwritten, Written
      <4>2. k.text \in NoteTexts
        BY DEF MemoryInv, KeptNotes
      <4> QED BY <4>1, <4>2 DEF M!MemoryConstants, NoteTexts
    <3> QED BY <1>4, <1>7, <3>1 DEF MemoryInv, FileFits
  <2>4. \A f \in store' : f = whole \/ (f \in store /\ f.name # name)
    BY <1>4, <1>7, <2>1 DEF MemoryInv
  <2>5. store' \subseteq NoteFiles /\ IsFiniteSet(store')
    <3>1. IsFiniteSet(store \ {new_file})
      BY FS_Subset DEF MemoryInv
    <3>2. IsFiniteSet((store \ {new_file}) \cup {whole})
      BY <3>1, FS_AddElement
    <3> QED BY <1>4, <2>1, <3>2 DEF MemoryInv
  <2>6. \A f, g \in store' : f.name = g.name => f = g
    BY <1>4, <2>4 DEF MemoryInv
  <2>7. /\ kept' \subseteq KeptNotes /\ \A k, l \in kept' : k.name = l.name => k = l
    BY <2>1, <2>2, <2>3 DEF MemoryInv
  <2>8. \A k \in kept' : \E f \in store' : f.name = k.name
    <3> SUFFICES ASSUME NEW k \in kept' PROVE \E f \in store' : f.name = k.name
      OBVIOUS
    <3>1. CASE k = note
      BY <1>4, <2>1, <2>2, <3>1
    <3>2. CASE k \in kept
      <4>1. PICK f \in store : f.name = k.name
        BY <3>2 DEF MemoryInv
      <4>2. f # new_file
        BY <1>4, <2>3, <3>2, <4>1
      <4> QED BY <2>1, <4>1, <4>2
    <3> QED BY <2>1, <3>1, <3>2
  <2>9. FileFits(store', kept')
    <3> SUFFICES ASSUME NEW f \in store'
                 PROVE  \/ f = Unwritten(f.name) /\ \A k \in kept' : k.name # f.name
                        \/ \E k \in kept' : f = Written(k.name, k.category, k.text)
      BY DEF FileFits
    <3>1. CASE f = whole
      <4>1. note \in kept' /\ whole = Written(note.name, note.category, note.text)
        BY <2>1
      <4> QED BY <3>1, <4>1
    <3>2. CASE f # whole
      <4>1. f \in store /\ f.name # name
        BY <2>4, <3>2
      <4> QED BY <2>1, <2>2, <4>1 DEF MemoryInv, FileFits
    <3> QED BY <3>1, <3>2
  <2> HIDE DEF new_file, whole, note
  <2> QED BY <1>5, <2>5, <2>6, <2>7, <2>8, <2>9 DEF MemoryInv
<1> QED BY <1>6, <1>7

LEMMA MemoryStepInv ==
    ASSUME M!MemoryConstants, MemoryInv, [M!Next]_memoryVars PROVE MemoryInv'
<1>1. CASE UNCHANGED memoryVars
  BY <1>1 DEF memoryVars, MemoryInv, FileFits
<1>2. CASE M!Tick
  <2>1. now' \in 0 .. MaxSeconds /\ UNCHANGED <<store, doing, kept, notes>>
    BY <1>2 DEF M!Tick, MemoryInv, M!MemoryConstants
  <2> QED BY <2>1 DEF MemoryInv
<1>3. ASSUME NEW p \in Prompts, M!remove(p) PROVE MemoryInv'
  <2>1. PICK new_file \in store : store' = store \ {new_file} /\ M!Forget(new_file)
                              /\ UNCHANGED <<now, doing, notes>>
    BY <1>3 DEF M!remove
  <2>2. store' = {f \in store : f.name \notin {new_file.name}}
    BY <2>1 DEF MemoryInv
  <2>3. kept' = {k \in kept : k.name \notin {new_file.name}}
    BY <2>1 DEF M!Forget
  <2>4. {new_file.name} \in SUBSET NoteNames /\ doing' \in [Prompts -> Deeds]
    BY <2>1 DEF MemoryInv, NoteFiles
  <2> QED BY <2>1, <2>2, <2>3, <2>4, RemovedIs
<1>4. ASSUME NEW p \in Prompts, M!clear(p) PROVE MemoryInv'
  <2>1. /\ M!Do(p, Clearing({f.name : f \in store})) /\ UNCHANGED <<now, store, kept, notes>>
    BY <1>4 DEF M!clear, Clearing
  <2>2. {f.name : f \in store} \in SUBSET NoteNames
    BY DEF MemoryInv, NoteFiles
  <2>3. Clearing({f.name : f \in store}) \in Deeds
    BY <2>2 DEF Deeds
  <2>4. doing' \in [Prompts -> Deeds]
    BY <2>1, <2>3 DEF M!Do, MemoryInv
  <2> QED BY <2>1, <2>4 DEF MemoryInv
<1>5. ASSUME NEW p \in Prompts, M!ClearNext(p) PROVE MemoryInv'
  <2>1. doing[p].op = "clear" /\ doing[p] \in Deeds /\ UNCHANGED <<now, notes>>
    BY <1>5 DEF M!ClearNext, MemoryInv
  <2>2. PICK names \in SUBSET NoteNames : doing[p] = Clearing(names)
    BY <2>1 DEF Deeds, M!Idle, Adding
  <2>3. doing[p].left = names
    BY <2>2 DEF Clearing
  <2>4. CASE names = {}
    <3>1. M!Do(p, M!Idle) /\ UNCHANGED <<store, kept>>
      BY <1>5, <2>3, <2>4 DEF M!ClearNext
    <3>2. doing' \in [Prompts -> Deeds]
      BY <3>1 DEF M!Do, MemoryInv, Deeds
    <3> QED BY <2>1, <3>1, <3>2 DEF MemoryInv
  <2>5. CASE names # {}
    <3>1. PICK name \in names :
            /\ M!Do(p, IF \E f \in store : f.name = name
                       THEN Clearing(names \ {name}) ELSE M!Idle)
            /\ store' = {f \in store : f.name # name}
            /\ kept' = {k \in kept : k.name # name}
      BY <1>5, <2>3, <2>5 DEF M!ClearNext, Clearing
    <3>2. Clearing(names \ {name}) \in Deeds /\ M!Idle \in Deeds
      BY DEF Deeds
    <3>3. doing' \in [Prompts -> Deeds]
      BY <3>1, <3>2 DEF M!Do, MemoryInv
    <3>4. /\ store' = {f \in store : f.name \notin {name}}
          /\ kept' = {k \in kept : k.name \notin {name}} /\ {name} \in SUBSET NoteNames
      BY <3>1
    <3> QED BY <2>1, <3>3, <3>4, RemovedIs
  <2> QED BY <2>4, <2>5
<1>6. ASSUME NEW p \in Prompts, M!Killed(p) PROVE MemoryInv'
  <2>1. M!Do(p, M!Idle) /\ UNCHANGED <<now, store, kept, notes>>
    BY <1>6 DEF M!Killed
  <2>2. doing' \in [Prompts -> Deeds]
    BY <2>1 DEF M!Do, MemoryInv, Deeds
  <2> QED BY <2>1, <2>2 DEF MemoryInv
<1> QED BY <1>1, <1>2, <1>3, <1>4, <1>5, <1>6, AddInv, NoteFillInv DEF M!Next

LEMMA MemoryTypes == MemoryInv => M!TypeOK
  BY DEF MemoryInv, NoteFiles, NoteTexts, M!TypeOK

(* The entry of a file: what was saved, unless it is a word in brackets    *)
(* alone, or empty when nothing has been written.                          *)
LEMMA EntryOfWritten ==
    ASSUME M!MemoryConstants, NEW k \in KeptNotes
    PROVE  LET e == M!parse_category(Written(k.name, k.category, k.text))
           IN  /\ k.category # "Note" \/ k.text \notin Bracketed => e = k
               /\ ~(k.category # "Note" \/ k.text \notin Bracketed) => e.text = Empty
<1>1. k = [name |-> k.name, category |-> k.category, text |-> k.text]
  BY DEF KeptNotes
<1>2. k.category \in M!Categories /\ "none" \notin M!Categories
  BY DEF KeptNotes, M!Categories
<1> QED BY <1>1, <1>2 DEF M!parse_category, Written, M!Tag

LEMMA EntryOfUnwritten ==
    ASSUME NEW name PROVE M!parse_category(Unwritten(name)).text = Empty
  BY DEF M!parse_category, Unwritten

LEMMA EntriesAreNamed ==
    ASSUME NEW f PROVE M!parse_category(f).name = f.name
  BY DEF M!parse_category

(* What was saved and can be read is an entry, and no other has a text.    *)
LEMMA EntriesAreNotes ==
    ASSUME M!MemoryConstants, MemoryInv
    PROVE  /\ M!Readable \subseteq M!Entries
           /\ \A e \in M!Entries : e.text # Empty => e \in M!Readable
           /\ \A k \in M!Readable : k.text # Empty
<1>1. ASSUME NEW k \in M!Readable PROVE k \in M!Entries
  <2>1. k \in kept /\ k \in KeptNotes /\ (k.category # "Note" \/ k.text \notin Bracketed)
    BY DEF M!Readable, MemoryInv
  <2>2. PICK f \in store : f.name = k.name
    BY <2>1 DEF MemoryInv
  <2>3. PICK l \in kept : f = Written(l.name, l.category, l.text)
    BY <2>1, <2>2 DEF MemoryInv, FileFits
  <2>4. l = k
    BY <2>1, <2>2, <2>3 DEF MemoryInv, Written
  <2>5. M!parse_category(f) = k
    BY <2>1, <2>3, <2>4, EntryOfWritten
  <2> QED BY <2>5 DEF M!Entries
<1>2. ASSUME NEW e \in M!Entries, e.text # Empty PROVE e \in M!Readable
  <2>1. PICK f \in store : e = M!parse_category(f)
    BY DEF M!Entries
  <2>2. PICK k \in kept : f = Written(k.name, k.category, k.text)
    BY <1>2, <2>1, EntryOfUnwritten DEF MemoryInv, FileFits
  <2>3. k \in KeptNotes
    BY DEF MemoryInv
  <2> QED BY <1>2, <2>1, <2>2, <2>3, EntryOfWritten DEF M!Readable
<1>3. \A k \in M!Readable : k.text # Empty
  BY DEF M!Readable, MemoryInv, KeptNotes, NoteTexts, M!MemoryConstants
<1> QED BY <1>1, <1>2, <1>3

LEMMA EntriesAreFinite == MemoryInv => IsFiniteSet(M!Entries)
<1> SUFFICES ASSUME MemoryInv PROVE IsFiniteSet(M!Entries)
  OBVIOUS
<1> DEFINE entry == [f \in store |-> M!parse_category(f)]
<1>1. M!Entries = {entry[f] : f \in store}
  BY DEF M!Entries
<1>2. entry \in Surjection(store, M!Entries)
  BY <1>1 DEF Surjection
<1> HIDE DEF entry
<1> QED BY <1>2, FS_Surjection DEF MemoryInv

LEMMA NotesCount == ASSUME NEW some PROVE M!Cardinality(some) = Cardinality(some)
  BY DEF M!Cardinality, Cardinality

(* An entry of an earlier second has a lower place.                        *)
LEMMA EarlierComesFirst ==
    ASSUME MemoryInv, NEW k \in M!Entries, NEW l \in M!Entries, k.name[1] < l.name[1]
    PROVE  M!load_all[k] < M!load_all[l]
<1> DEFINE K == {d \in M!Entries : M!Before(d, k)}
           L == {d \in M!Entries : M!Before(d, l)}
<1>1. \A d \in M!Entries : d.name[1] \in Nat /\ d.name[2] \in Nat
  BY EntriesAreNamed DEF M!Entries, MemoryInv, NoteFiles, NoteNames
<1>2. K \subseteq L /\ k \in L /\ k \notin K
  BY <1>1 DEF M!Before
<1>3. IsFiniteSet(L)
  BY EntriesAreFinite, FS_Subset
<1>4. IsFiniteSet(K) /\ Cardinality(K) \in Nat /\ Cardinality(L) \in Nat
  BY <1>2, <1>3, FS_Subset, FS_CardinalityType
<1>5. Cardinality(K) < Cardinality(L)
  <2>1. Cardinality(K) <= Cardinality(L) /\ (Cardinality(K) = Cardinality(L) => K = L)
    BY <1>2, <1>3, FS_Subset
  <2> QED BY <1>2, <1>4, <2>1
<1>6. M!load_all[k] = Cardinality(K) /\ M!load_all[l] = Cardinality(L)
  BY NotesCount DEF M!load_all
<1> QED BY <1>5, <1>6, Zenon

LEMMA NotesDoLast ==
    ASSUME M!MemoryConstants, MemoryInv PROVE M!NotesAreKept
<1>1. DOMAIN M!load_all = M!Entries
  BY DEF M!load_all
<1>2. ASSUME NEW c \in M!Categories
      PROVE  {e \in M!as_prompt_section[c] : e.text # Empty}
               = {k \in M!Readable : k.category = c}
  <2>1. M!as_prompt_section[c] = {e \in M!Entries : e.category = c}
    BY <1>1 DEF M!as_prompt_section
  <2> QED BY <2>1, EntriesAreNotes
<1>3. \A k, l \in M!Readable : k.name[1] < l.name[1] => M!load_all[k] < M!load_all[l]
  BY EntriesAreNotes, EarlierComesFirst
<1> QED BY <1>2, <1>3 DEF M!NotesAreKept

-----------------------------------------------------------------------------
(* The workspace.  A step of it is a step of one part and a stuttering     *)
(* step of the others.                                                     *)
LEMMA PartsStep ==
    ASSUME [WorkspaceNext]_workspaceVars
    PROVE  /\ [Next]_vars /\ [S!Next]_sessionVars /\ [DL!Next]_lifeVars /\ [T!Next]_toolVars
           /\ [B!Next]_badgeVars /\ [O!Next]_overflowVars /\ [U!Next]_setupVars
           /\ [P!Next]_projectVars /\ [M!Next]_memoryVars
<1>1. CASE UNCHANGED workspaceVars
  BY <1>1 DEF workspaceVars
<1>2. CASE WatchStep
  BY <1>2 DEF WatchStep, Only
<1>3. CASE SessionStep
  BY <1>3 DEF SessionStep, Only
<1>4. CASE LifeStep
  BY <1>4 DEF LifeStep, Only
<1>5. CASE ToolStep
  BY <1>5 DEF ToolStep, Only
<1>6. CASE BadgeStep
  BY <1>6 DEF BadgeStep, Only
<1>7. CASE OverflowStep
  BY <1>7 DEF OverflowStep, Only
<1>8. CASE SetupStep
  BY <1>8 DEF SetupStep, Only
<1>9. CASE ProjectStep
  BY <1>9 DEF ProjectStep, Only
<1>10. CASE MemoryStep
  BY <1>10 DEF MemoryStep, Only
<1> QED BY <1>1, <1>2, <1>3, <1>4, <1>5, <1>6, <1>7, <1>8, <1>9, <1>10 DEF WorkspaceNext

(* The inductive invariant of the workspace is that of each of its parts.  *)
WorkspaceInv ==
    /\ WatchInv /\ SessionInv /\ LifeInv /\ ToolInv /\ BadgeInv /\ OverflowInv /\ SetupInv
    /\ ProjectInv /\ MemoryInv

THEOREM WorkspaceInvariant ==
    ASSUME WorkspaceConstants PROVE WorkspaceSpec => []WorkspaceInv
<1>1. ASSUME WorkspaceInit PROVE WorkspaceInv
  BY <1>1, WatchInit, SessionInit, LifeInit, ToolInit, BadgeInit, OverflowInit, SetupInit,
     ProjectInit, MemoryInit DEF WorkspaceInit, WorkspaceConstants, WorkspaceInv
<1>2. ASSUME WorkspaceInv, [WorkspaceNext]_workspaceVars PROVE WorkspaceInv'
  BY <1>2, PartsStep, WatchStepInv, SessionStepInv, LifeStepInv, ToolStepInv, BadgeStepInv,
     OverflowStepInv, SetupStepInv, ProjectStepInv, MemoryStepInv
     DEF WorkspaceConstants, WorkspaceInv
<1> QED BY <1>1, <1>2, PTL DEF WorkspaceSpec

(* The watcher's steps in a workspace are those of the watcher alone, so   *)
(* that what holds of it there holds here.                                 *)
THEOREM WorkspaceWatches == WorkspaceSpec => Spec
<1>1. WorkspaceInit => Init
  BY DEF WorkspaceInit
<1>2. [WorkspaceNext]_workspaceVars => [Next]_vars
  BY PartsStep
<1> QED BY <1>1, <1>2, PTL DEF WorkspaceSpec, Spec

(* The state of every part keeps its type.                                 *)
THEOREM WorkspaceTypeCorrect ==
    ASSUME WorkspaceConstants PROVE WorkspaceSpec => []WorkspaceTypeOK
<1>1. ASSUME WorkspaceInv PROVE WorkspaceTypeOK
  <2>1. TypeOK /\ DL!TypeOK /\ B!TypeOK /\ U!TypeOK /\ P!TypeOK
    BY <1>1 DEF WorkspaceInv, WatchInv, LifeInv, BadgeInv, SetupInv, ProjectInv
  <2>2. S!TypeOK /\ T!TypeOK /\ O!TypeOK /\ M!TypeOK
    BY <1>1, SessionIsRight, ToolTypesHold, OverflowTypes, MemoryTypes
       DEF WorkspaceInv, WorkspaceConstants
  <2> QED BY <2>1, <2>2 DEF WorkspaceTypeOK
<1> QED BY <1>1, WorkspaceInvariant, PTL

(* Whatever commands, launch profiles and resumed rows an agent went       *)
(* through, its prompt, environment, sandbox, policy and sampling are      *)
(* those of its persona, mode, skills and model (agent.rs: set_persona,    *)
(* resume, is_kids_mode; commands.rs).                                     *)
THEOREM AgentsMatch ==
    ASSUME WorkspaceConstants PROVE WorkspaceSpec => []AgentMatches
<1>1. WorkspaceInv => AgentMatches
  BY SessionIsRight DEF WorkspaceInv, WorkspaceConstants, AgentMatches
<1> QED BY <1>1, WorkspaceInvariant, PTL

(* A server a process started has that process to stop it, a row says how  *)
(* the one process that used it ended, a daemon that serves is at its path *)
(* and one that ended leaves nothing (backend.rs: stop; session.rs:        *)
(* update_status; daemon.rs).                                              *)
THEOREM EndsStayClean ==
    ASSUME WorkspaceConstants PROVE WorkspaceSpec => []EndsAreClean
<1>1. WorkspaceInv => EndsAreClean
  BY SessionIsRight, LifeIsClean DEF WorkspaceInv, WorkspaceConstants, EndsAreClean
<1> QED BY <1>1, WorkspaceInvariant, PTL

(* In a workspace its user leaves alone meanwhile, an edit changes the one *)
(* place it names and a commit holds what was named at the add; a command  *)
(* that has exited is over (tools.rs: file_edit, git_commit; executor.rs). *)
THEOREM CallsStayExact ==
    ASSUME WorkspaceConstants PROVE WorkspaceSpec => []CallsAreExact
<1>1. WorkspaceInv => CallsAreExact
  BY DEF WorkspaceInv, ToolInv, CallsAreExact
<1> QED BY <1>1, WorkspaceInvariant, PTL

(* Badges, outputs, folders, projects and notes outlive restarts, other    *)
(* prompts and time as far as they promise to (achievements.rs; tools.rs:  *)
(* save_overflow; project.rs; memory.rs).                                  *)
THEOREM StoresAreKept ==
    ASSUME WorkspaceConstants PROVE WorkspaceSpec => []StoresKeep
<1>1. ASSUME WorkspaceInv PROVE StoresKeep
  <2>1. B!AwardsLast /\ O!NamesLead
    BY <1>1, BadgesLast, NamesDoLead DEF WorkspaceInv
  <2>2. U!InitIsWhole /\ P!FinishedIsVerified /\ M!NotesAreKept
    BY <1>1, SetupIsWhole, ProjectIsVerified, NotesDoLast DEF WorkspaceInv, WorkspaceConstants
  <2> QED BY <2>1, <2>2 DEF StoresKeep
<1> QED BY <1>1, WorkspaceInvariant, PTL

(* A process that resumes a session has its persona and skills, a daemon   *)
(* is refused only where another serves, no init changes what the user     *)
(* wrote, and cleaning up removes nothing newer than what it keeps         *)
(* (agent.rs: resume; daemon.rs; setup.rs; tools.rs: cleanup_context).     *)
THEOREM StepsStayLawful ==
    ASSUME WorkspaceConstants PROVE WorkspaceSpec => StepsAreLawful
<1>1. ASSUME WorkspaceInv, [WorkspaceNext]_workspaceVars
      PROVE  [\A p \in Procs :
                (~S!Running(p) /\ proc'[p].pc = "prompt" /\ proc'[p].id \in DOMAIN sessions) =>
                    LET row == sessions[proc'[p].id]
                    IN /\ row.skills \subseteq proc'[p].skills
                       /\ \/ proc'[p].persona = row.persona
                          \/ \E pr \in Profiles :
                                pr.persona # None /\ pr.persona = proc'[p].persona]_(S!vars)
  BY <1>1, PartsStep, ResumeRestoresInStep DEF WorkspaceConstants, WorkspaceInv
<1>2. ASSUME WorkspaceInv, [WorkspaceNext]_workspaceVars
      PROVE  [\A l \in DL!Lives :
                pc'[l] \in {"refused", "failed"} /\ pc[l] \in DL!Starting /\ ~overlap
                    => \E k \in DL!Lives \ {l} : DL!Serving(k)]_(DL!vars)
  BY <1>2, PartsStep, FailsOnlyIfServedInStep DEF WorkspaceConstants, WorkspaceInv
<1>3. ASSUME WorkspaceInv, [WorkspaceNext]_workspaceVars
      PROVE  [\A d \in U!Dirs, i \in U!Item :
                item[d][i] = "user" /\ ~(writing /\ where = d /\ U!Plan[step] = i)
                    => item'[d][i] = "user"]_(U!vars)
  BY <1>3, PartsStep, UserFilesStayInStep DEF WorkspaceConstants, WorkspaceInv
<1>4. ASSUME WorkspaceInv, [WorkspaceNext]_workspaceVars
      PROVE  [\A f \in dir \ dir', g \in dir' : ~(g \in dir /\ O!Newer(f, g))
                \/ \E h \in dir' \ dir : h.name = f.name]_(O!vars)
  BY <1>4, PartsStep, CleanKeepsNewestInStep DEF WorkspaceConstants, WorkspaceInv
<1> QED BY <1>1, <1>2, <1>3, <1>4, WorkspaceInvariant, PTL
        DEF WorkspaceSpec, StepsAreLawful, S!ResumeRestores, DL!FailsOnlyIfServed,
            U!UserFilesStay, O!CleanKeepsNewest
================================================================================
