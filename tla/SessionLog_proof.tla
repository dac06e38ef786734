--------------------------- MODULE SessionLog_proof ---------------------------
(***************************************************************************)
(* Proofs about SessionLog.  First what ORDER BY seq returns: for any      *)
(* rows, a permutation of their messages (so every restored message was    *)
(* recorded), and the rows themselves when seq increases along the log.    *)
(* Then LogInv is inductive, and the properties of the module follow.      *)
(***************************************************************************)
EXTENDS SessionLog, FiniteSetTheorems, SequenceTheorems, TLAPS

LEMMA RowsType ==
    ASSUME NEW rows \in Seq(Row)
    PROVE  /\ Len(rows) \in Nat
           /\ DOMAIN rows = 1 .. Len(rows)
           /\ \A k \in DOMAIN rows : rows[k].seq \in Nat
           /\ \A k \in DOMAIN rows : rows[k].message \in Message
<1>1. /\ Len(rows) \in Nat
      /\ DOMAIN rows = 1 .. Len(rows)
  BY LenProperties
<1>2. \A k \in DOMAIN rows : rows[k] \in Row
  BY <1>1, ElementOfSeq
<1>3. \A r \in Row : r.seq \in Nat /\ r.message \in Message
  BY DEF Row
<1> QED BY <1>1, <1>2, <1>3

(* The rows before a given row form a finite set without the row itself.   *)
LEMMA RankBound ==
    ASSUME NEW rows \in Seq(Row), NEW i \in DOMAIN rows
    PROVE  /\ IsFiniteSet(RowsBefore(rows, i))
           /\ Cardinality(RowsBefore(rows, i)) \in 0 .. Len(rows) - 1
<1> DEFINE others == (1 .. Len(rows)) \ {i}
<1>1. IsFiniteSet(1 .. Len(rows)) /\ Cardinality(1 .. Len(rows)) = Len(rows)
  BY RowsType, FS_Interval
<1>2. /\ DOMAIN rows = 1 .. Len(rows) /\ Len(rows) \in Nat
      /\ \A k \in DOMAIN rows : rows[k].seq \in Nat
  BY RowsType
<1>3. RowsBefore(rows, i) \in SUBSET others
  BY <1>2 DEF RowsBefore, Before
<1> HIDE DEF others
<1>4. IsFiniteSet(others) /\ Cardinality(others) = Len(rows) - 1
  <2>1. i \in 1 .. Len(rows)
    BY <1>2
  <2>2. IsFiniteSet((1 .. Len(rows)) \ {i})
        /\ Cardinality((1 .. Len(rows)) \ {i}) = Cardinality(1 .. Len(rows)) - 1
    BY <1>1, <2>1, FS_RemoveElement, Zenon
  <2> QED BY <1>1, <2>2 DEF others
<1>5. /\ IsFiniteSet(RowsBefore(rows, i))
      /\ Cardinality(RowsBefore(rows, i)) <= Cardinality(others)
  BY <1>3, <1>4, FS_Subset, Zenon
<1>6. Cardinality(RowsBefore(rows, i)) \in Nat
  BY <1>5, FS_CardinalityType
<1> QED BY <1>2, <1>4, <1>5, <1>6

(* Two different rows have different ranks: one of them comes before the   *)
(* other, together with everything that comes before it.                   *)
LEMMA RankGrows ==
    ASSUME NEW rows \in Seq(Row), NEW i \in DOMAIN rows, NEW j \in DOMAIN rows,
           Before(rows, i, j)
    PROVE  Cardinality(RowsBefore(rows, i)) < Cardinality(RowsBefore(rows, j))
<1>1. /\ \A k \in DOMAIN rows : rows[k].seq \in Nat
      /\ DOMAIN rows = 1 .. Len(rows)
  BY RowsType
<1>2. RowsBefore(rows, i) \in SUBSET RowsBefore(rows, j)
  BY <1>1 DEF RowsBefore, Before
<1>3. i \in RowsBefore(rows, j) /\ i \notin RowsBefore(rows, i)
  BY <1>1 DEF RowsBefore, Before
<1>4. /\ IsFiniteSet(RowsBefore(rows, i)) /\ IsFiniteSet(RowsBefore(rows, j))
      /\ Cardinality(RowsBefore(rows, i)) \in Nat
      /\ Cardinality(RowsBefore(rows, j)) \in Nat
  BY RankBound, FS_CardinalityType
<1>5. /\ Cardinality(RowsBefore(rows, i)) <= Cardinality(RowsBefore(rows, j))
      /\ Cardinality(RowsBefore(rows, i)) = Cardinality(RowsBefore(rows, j))
            => RowsBefore(rows, j) = RowsBefore(rows, i)
  BY <1>2, <1>4, FS_Subset, Zenon
<1> QED BY <1>3, <1>4, <1>5

(* Every position of the result is filled by some row: ranks are injective *)
(* into 0 .. n-1, hence onto.                                              *)
LEMMA RankOnto ==
    ASSUME NEW rows \in Seq(Row), NEW k \in 1 .. Len(rows)
    PROVE  \E i \in DOMAIN rows : Cardinality(RowsBefore(rows, i)) = k - 1
<1> DEFINE Rank == [i \in 1 .. Len(rows) |-> Cardinality(RowsBefore(rows, i))]
           Ranks == 0 .. Len(rows) - 1
<1>1. DOMAIN rows = 1 .. Len(rows) /\ Len(rows) \in Nat
  OBVIOUS
<1>2. Rank \in [1 .. Len(rows) -> Ranks]
  BY <1>1, RankBound
<1>3. ASSUME NEW i \in 1 .. Len(rows), NEW j \in 1 .. Len(rows), i # j
      PROVE  Rank[i] # Rank[j]
  <2>1. \A l \in DOMAIN rows : rows[l].seq \in Nat
    BY RowsType
  <2>2. Before(rows, i, j) \/ Before(rows, j, i)
    BY <1>1, <1>3, <2>1 DEF Before
  <2>3. /\ Cardinality(RowsBefore(rows, i)) \in Nat
        /\ Cardinality(RowsBefore(rows, j)) \in Nat
    BY <1>1, RankBound
  <2> QED BY <1>1, <2>2, <2>3, RankGrows
<1>4. Rank \in Injection(1 .. Len(rows), Ranks)
  <2>1. IsInjective(Rank)
    BY <1>3 DEF IsInjective
  <2> QED BY <1>2, <2>1 DEF Injection
<1>5. /\ IsFiniteSet(1 .. Len(rows)) /\ IsFiniteSet(Ranks)
      /\ Cardinality(1 .. Len(rows)) = Cardinality(Ranks)
  <2>1. Len(rows) - 1 \in Int /\ Len(rows) \in Int /\ 0 \in Int /\ 1 \in Int
    BY <1>1
  <2>2. /\ IsFiniteSet(1 .. Len(rows)) /\ Cardinality(1 .. Len(rows)) = Len(rows)
    BY <1>1, <2>1, FS_Interval
  <2>3. /\ IsFiniteSet(0 .. Len(rows) - 1)
        /\ Cardinality(0 .. Len(rows) - 1) =
              IF 0 > Len(rows) - 1 THEN 0 ELSE (Len(rows) - 1) - 0 + 1
    BY <2>1, FS_Interval, Zenon
  <2> QED BY <1>1, <2>2, <2>3
<1> HIDE DEF Rank, Ranks
<1>6. Rank \in Surjection(1 .. Len(rows), Ranks)
  BY <1>4, <1>5, FS_Injection
<1>7. k - 1 \in Ranks
  BY <1>1 DEF Ranks
<1>8. \E i \in 1 .. Len(rows) : Rank[i] = k - 1
  BY <1>6, <1>7 DEF Surjection
<1> QED BY <1>1, <1>8 DEF Rank

(* The log read back holds recorded messages only, one per row.            *)
LEMMA LoadType ==
    ASSUME NEW rows \in Seq(Row)
    PROVE  /\ load_turn_messages(rows) \in Seq(Message)
           /\ Len(load_turn_messages(rows)) = Len(rows)
<1>1. ASSUME NEW k \in 1 .. Len(rows)
      PROVE  load_turn_messages(rows)[k] \in Message
  <2>1. PICK i \in DOMAIN rows : Cardinality(RowsBefore(rows, i)) = k - 1
    BY RankOnto
  <2>2. (CHOOSE l \in DOMAIN rows : Cardinality(RowsBefore(rows, l)) = k - 1)
            \in DOMAIN rows
    BY <2>1
  <2> QED BY <2>2, RowsType DEF load_turn_messages
<1>2. Len(rows) \in Nat
  OBVIOUS
<1>3. load_turn_messages(rows) \in [1 .. Len(rows) -> Message]
  BY <1>1 DEF load_turn_messages
<1> QED BY <1>2, <1>3

(* A log whose seq increases is read back in insertion order.              *)
LEMMA LoadInOrder ==
    ASSUME NEW rows \in Seq(Row),
           \A i, j \in DOMAIN rows : i < j => rows[i].seq < rows[j].seq,
           NEW k \in 1 .. Len(rows)
    PROVE  load_turn_messages(rows)[k] = rows[k].message
<1>1. /\ DOMAIN rows = 1 .. Len(rows) /\ Len(rows) \in Nat
      /\ \A l \in DOMAIN rows : rows[l].seq \in Nat
  BY RowsType
<1>2. ASSUME NEW i \in DOMAIN rows
      PROVE  Cardinality(RowsBefore(rows, i)) = i - 1
  <2>1. ASSUME NEW j \in DOMAIN rows
        PROVE  Before(rows, j, i) <=> j < i
    <3>1. CASE j < i
      BY <1>1, <3>1 DEF Before
    <3>2. CASE j = i
      BY <1>1, <3>2 DEF Before
    <3>3. CASE i < j
      BY <1>1, <3>3 DEF Before
    <3> QED BY <1>1, <3>1, <3>2, <3>3
  <2>2. RowsBefore(rows, i) = 1 .. i - 1
    BY <1>1, <2>1 DEF RowsBefore
  <2> QED BY <1>1, <2>2, FS_Interval
<1>3. (CHOOSE i \in DOMAIN rows : Cardinality(RowsBefore(rows, i)) = k - 1) = k
  BY <1>1, <1>2
<1> QED BY <1>3 DEF load_turn_messages

-----------------------------------------------------------------------------
(* What each operation does to the invariant.                              *)

LEMMA RestoredType ==
    ASSUME TypeOK
    PROVE  /\ Restored \in Seq(Message \cup {SystemPrompt, ContextNote, Summary})
           /\ Restored # <<>>
           /\ turn_messages # <<>> => Len(Restored) = Len(turn_messages) + 1
           /\ turn_messages = <<>> => Len(Restored) = Len(stored) + 1
           /\ ~HasContext(Restored)
<1> DEFINE Any == Message \cup {SystemPrompt, ContextNote, Summary}
           read == IF turn_messages # <<>>
                   THEN load_turn_messages(turn_messages) ELSE stored
<1>1. turn_messages \in Seq(Row) /\ stored \in Seq(Message)
  BY DEF TypeOK
<1>2. read \in Seq(Message)
  BY <1>1, LoadType
<1>3. /\ turn_messages # <<>> => Len(read) = Len(turn_messages)
      /\ turn_messages = <<>> => Len(read) = Len(stored)
  BY <1>1, LoadType
<1>4. Restored = <<SystemPrompt>> \o read
  BY DEF Restored
<1> HIDE DEF read
<1>5. /\ read \in Seq(Any)
      /\ <<SystemPrompt>> \in Seq(Any)
      /\ Len(<<SystemPrompt>>) = 1
      /\ \A k \in 1 .. Len(read) : read[k] \in Message
      /\ Len(read) \in Nat
  BY <1>2
<1> HIDE DEF Any
<1>6. /\ Restored \in Seq(Any)
      /\ Len(Restored) = 1 + Len(read)
      /\ \A i \in 1 .. 1 + Len(read) : Restored[i] =
            IF i <= 1 THEN <<SystemPrompt>>[i] ELSE read[i - 1]
  BY <1>4, <1>5, ConcatProperties
<1>7. \A i \in DOMAIN Restored : Restored[i] # ContextNote
  <2> TAKE i \in DOMAIN Restored
  <2>1. i \in 1 .. 1 + Len(read)
    BY <1>5, <1>6, LenProperties
  <2>2. CASE i = 1
    BY <1>6, <2>1, <2>2, LogConstants
  <2>3. CASE i # 1
    <3>1. i - 1 \in 1 .. Len(read) /\ ~(i <= 1)
      BY <1>5, <2>1, <2>3
    <3>2. Restored[i] = read[i - 1]
      BY <1>6, <2>1, <3>1
    <3> QED BY <1>5, <3>1, <3>2, LogConstants
  <2> QED BY <2>2, <2>3
<1> QED BY <1>3, <1>5, <1>6, <1>7 DEF HasContext, Any

(* A log that mirrors the conversation in order restores it exactly.       *)
LEMMA RestoredExact ==
    ASSUME LogInv, cause = {}
    PROVE  ~up => Restored = <<SystemPrompt>> \o conversation
<1> SUFFICES ASSUME ~up PROVE Restored = <<SystemPrompt>> \o conversation
  OBVIOUS
<1>1. Rooted
  BY DEF Rooted
<1>2. CASE turn_messages = <<>>
  BY <1>1, <1>2 DEF LogInv, Restored
<1>3. CASE turn_messages # <<>>
  <2>1. /\ RowsAreConversation
        /\ turn_messages \in Seq(Row)
        /\ conversation \in Seq(Message)
        /\ SeqIncreases
    BY <1>1, <1>3 DEF LogInv, TypeOK
  <2>2. /\ load_turn_messages(turn_messages) \in Seq(Message)
        /\ Len(load_turn_messages(turn_messages)) = Len(conversation)
    BY <2>1, LoadType DEF RowsAreConversation
  <2>3. ASSUME NEW k \in 1 .. Len(conversation)
        PROVE  load_turn_messages(turn_messages)[k] = conversation[k]
    <3>1. k \in 1 .. Len(turn_messages) /\ k \in DOMAIN conversation
      BY <2>1 DEF RowsAreConversation
    <3>2. load_turn_messages(turn_messages)[k] = turn_messages[k].message
      BY <2>1, <3>1, LoadInOrder DEF SeqIncreases
    <3> QED BY <2>1, <3>1, <3>2 DEF RowsAreConversation
  <2>4. load_turn_messages(turn_messages) = conversation
    BY <2>1, <2>2, <2>3, SeqEqual
  <2> QED BY <1>3, <2>4 DEF Restored
<1> QED BY <1>2, <1>3

(* The two ways a row is appended, and their effect on the list.           *)
LEMMA ExtendStep ==
    ASSUME LogInv, NEW m \in Message, NEW list \in Lists, Extend(list, m)
    PROVE  /\ messages' \in Seq(Message \cup {SystemPrompt, ContextNote, Summary})
           /\ messages' # <<>>
           /\ conversation' \in Seq(Message)
           /\ Len(conversation') = Len(conversation) + 1
           /\ \A i \in DOMAIN conversation : conversation'[i] = conversation[i]
           /\ conversation'[Len(conversation) + 1] = m
           /\ Len(list) >= Len(messages)
           /\ Len(messages') = Len(list) + 1
           /\ ~HasContext(messages') => list = messages /\ ~HasContext(messages)
<1> DEFINE Any == Message \cup {SystemPrompt, ContextNote, Summary}
<1>1. /\ messages \in Seq(Any) /\ conversation \in Seq(Message)
      /\ ContextNote \in Any /\ m \in Any
  BY DEF LogInv, TypeOK
<1>2. conversation' = Append(conversation, m) /\ messages' = Append(list, m)
  BY DEF Extend
<1> HIDE DEF Any
<1>3. /\ WithContext \in Seq(Any)
      /\ Len(WithContext) = Len(messages) + 1
      /\ WithContext[Len(messages) + 1] = ContextNote
  BY <1>1, AppendProperties DEF WithContext
<1>4. list \in Seq(Any) /\ Len(list) >= Len(messages)
  BY <1>1, <1>3, LenProperties DEF Lists
<1>5. /\ messages' \in Seq(Any) /\ messages' # <<>>
      /\ Len(messages') = Len(list) + 1
      /\ \A i \in 1 .. Len(list) : messages'[i] = list[i]
      /\ DOMAIN messages' = 1 .. Len(messages')
      /\ DOMAIN list = 1 .. Len(list)
      /\ Len(list) \in Nat
  BY <1>1, <1>2, <1>4, AppendProperties, LenProperties
<1>6. /\ conversation' \in Seq(Message)
      /\ Len(conversation') = Len(conversation) + 1
      /\ \A i \in DOMAIN conversation : conversation'[i] = conversation[i]
      /\ conversation'[Len(conversation) + 1] = m
  BY <1>1, <1>2, AppendProperties, LenProperties
<1>7. ASSUME ~HasContext(messages') PROVE list = messages /\ ~HasContext(messages)
  <2>1. \A i \in DOMAIN list : list[i] # ContextNote
    BY <1>5, <1>7 DEF HasContext
  <2>2. CASE list = WithContext
    <3>1. Len(messages) + 1 \in DOMAIN list /\ list[Len(messages) + 1] = ContextNote
      BY <1>1, <1>3, <1>5, <2>2, LenProperties
    <3> QED BY <2>1, <3>1
  <2> QED BY <2>1, <2>2 DEF Lists, HasContext
<1> QED BY <1>4, <1>5, <1>6, <1>7 DEF Any

LEMMA RecordStep ==
    ASSUME LogInv, NEW m \in Message, NEW list \in Lists,
           Extend(list, m), Record(list, m)
    PROVE  /\ turn_messages' \in Seq(Row)
           /\ Len(turn_messages') = Len(turn_messages) + 1
           /\ \A i \in DOMAIN turn_messages : turn_messages'[i] = turn_messages[i]
           /\ turn_messages'[Len(turn_messages) + 1].seq = Len(list)
           /\ turn_messages'[Len(turn_messages) + 1].message = m
           /\ turn_messages' # <<>>
<1> DEFINE row == [seq |-> Len(list), message |-> m]
<1>1. turn_messages \in Seq(Row)
      /\ messages \in Seq(Message \cup {SystemPrompt, ContextNote, Summary})
  BY DEF LogInv, TypeOK
<1>2. Len(list) \in Nat
  <2>1. Len(messages) \in Nat /\ Len(Append(messages, ContextNote)) = Len(messages) + 1
    BY <1>1, AppendProperties, LenProperties
  <2> QED BY <2>1 DEF Lists, WithContext
<1>3. row \in Row /\ row.seq = Len(list) /\ row.message = m
  BY <1>2 DEF Row
<1>4. turn_messages' = Append(turn_messages, row)
  BY DEF Record
<1> HIDE DEF row
<1> QED BY <1>1, <1>3, <1>4, AppendProperties, LenProperties

(* Pushing a message and recording it keeps the invariant, whether or not  *)
(* it reaches the decomposed table.                                        *)
LEMMA RecordedPushStep ==
    ASSUME LogInv, NEW m \in Message, NEW list \in Lists,
           Extend(list, m), Record(list, m),
           stored' \in Seq(Message), UNCHANGED <<up, cause>>
    PROVE  LogInv'
<1> DEFINE n == Len(turn_messages)
<1>1. /\ messages' \in Seq(Message \cup {SystemPrompt, ContextNote, Summary})
      /\ messages' # <<>>
      /\ conversation' \in Seq(Message)
      /\ Len(conversation') = Len(conversation) + 1
      /\ \A i \in DOMAIN conversation : conversation'[i] = conversation[i]
      /\ conversation'[Len(conversation) + 1] = m
      /\ Len(list) >= Len(messages)
      /\ Len(messages') = Len(list) + 1
      /\ ~HasContext(messages') => list = messages /\ ~HasContext(messages)
  BY ExtendStep
<1>2. /\ turn_messages' \in Seq(Row)
      /\ Len(turn_messages') = n + 1
      /\ \A i \in DOMAIN turn_messages : turn_messages'[i] = turn_messages[i]
      /\ turn_messages'[n + 1].seq = Len(list)
      /\ turn_messages'[n + 1].message = m
      /\ turn_messages' # <<>>
  BY RecordStep
<1>3. TypeOK'
  BY <1>1, <1>2 DEF LogInv, TypeOK
<1>4. /\ n \in Nat /\ DOMAIN turn_messages = 1 .. n
      /\ DOMAIN turn_messages' = 1 .. n + 1
      /\ \A i \in 1 .. n : turn_messages[i].seq \in Nat
      /\ Len(messages) \in Nat /\ Len(list) \in Nat
      /\ Len(conversation) \in Nat
      /\ DOMAIN conversation = 1 .. Len(conversation)
      /\ DOMAIN conversation' = 1 .. Len(conversation) + 1
  <2>1. /\ turn_messages \in Seq(Row) /\ conversation \in Seq(Message)
        /\ messages \in Seq(Message \cup {SystemPrompt, ContextNote, Summary})
    BY DEF LogInv, TypeOK
  <2>2. /\ n \in Nat /\ DOMAIN turn_messages = 1 .. n
        /\ \A i \in 1 .. n : turn_messages[i].seq \in Nat
        /\ Len(messages) \in Nat
        /\ Len(conversation) \in Nat
        /\ DOMAIN conversation = 1 .. Len(conversation)
    BY <2>1, RowsType, LenProperties
  <2>3. Len(list) \in Nat
    <3>1. Len(Append(messages, ContextNote)) = Len(messages) + 1
      BY <2>1, AppendProperties
    <3> QED BY <2>2, <3>1 DEF Lists, WithContext
  <2> QED BY <1>1, <1>2, <2>2, <2>3, LenProperties
<1> HIDE DEF n
<1>5. Rooted' => RowsAreConversation'
  <2> SUFFICES ASSUME Rooted PROVE RowsAreConversation'
    BY DEF Rooted
  <2>1. up
    BY DEF Extend
  <2>2. RowsAreConversation
    BY <2>1 DEF LogInv
  <2> QED BY <1>1, <1>2, <1>4, <2>2 DEF RowsAreConversation, n
<1>6. cause' = {} => SeqIncreases' /\ SeqIsFresh'
  <2> SUFFICES ASSUME cause = {} PROVE SeqIncreases' /\ SeqIsFresh'
    OBVIOUS
  <2>1. /\ \A i, j \in 1 .. n : i < j => turn_messages[i].seq < turn_messages[j].seq
        /\ \A i \in 1 .. n : turn_messages[i].seq < Len(messages)
    BY <1>4 DEF LogInv, SeqIncreases, SeqIsFresh
  <2>2. \A i \in 1 .. n + 1 : i \in 1 .. n \/ i = n + 1
    BY <1>4
  <2>3. \A i \in 1 .. n : turn_messages'[i].seq = turn_messages[i].seq
    BY <1>2, <1>4
  <2>4. \A i \in 1 .. n : turn_messages'[i].seq < Len(list)
    BY <1>1, <1>4, <2>1, <2>3
  <2>5. ASSUME NEW i \in 1 .. n + 1, NEW j \in 1 .. n + 1, i < j
        PROVE  turn_messages'[i].seq < turn_messages'[j].seq
    <3>1. i \in 1 .. n
      BY <1>4, <2>5
    <3>2. CASE j \in 1 .. n
      BY <2>1, <2>3, <2>5, <3>1, <3>2
    <3>3. CASE j = n + 1
      BY <1>2, <2>4, <3>1, <3>3
    <3> QED BY <2>2, <3>2, <3>3
  <2>6. ASSUME NEW i \in 1 .. n + 1
        PROVE  turn_messages'[i].seq < Len(messages')
    <3>1. CASE i \in 1 .. n
      <4>1. turn_messages'[i].seq < Len(list)
        BY <2>4, <3>1
      <4>2. turn_messages'[i].seq \in Nat
        BY <1>4, <2>3, <3>1
      <4>3. Len(list) \in Nat /\ Len(messages') = Len(list) + 1
        BY <1>1, <1>4
      <4> QED BY <4>1, <4>2, <4>3
    <3>2. CASE i = n + 1
      BY <1>1, <1>2, <1>4, <3>2
    <3> QED BY <2>2, <3>1, <3>2
  <2> QED BY <1>4, <2>5, <2>6 DEF SeqIncreases, SeqIsFresh
<1>7. cause' = {} /\ ~HasContext(messages') => Dense'
  <2> SUFFICES ASSUME cause = {}, ~HasContext(messages') PROVE Dense'
    OBVIOUS
  <2>1. Dense /\ list = messages /\ Rooted
    BY <1>1 DEF LogInv, Rooted
  <2>2. n = Len(conversation)
    BY <2>1 DEF LogInv, Extend, RowsAreConversation, n
  <2>3. /\ \A i \in 1 .. n : turn_messages'[i].seq = i
        /\ turn_messages'[n + 1].seq = n + 1
    BY <1>2, <1>4, <2>1, <2>2 DEF Dense
  <2>4. \A i \in 1 .. n + 1 : turn_messages'[i].seq = i
    BY <1>4, <2>3
  <2> QED BY <1>1, <1>4, <2>1, <2>4 DEF Dense
<1>8. (cause = {} => SeqIncreases)' /\ SeqIsFresh' /\
      (cause = {} /\ ~HasContext(messages) => Dense)'
  BY <1>6, <1>7 DEF SeqIsFresh
<1> QED BY <1>2, <1>3, <1>5, <1>8 DEF LogInv

(* A failed append leaves the log behind the conversation for good.        *)
LEMMA UnloggedPushStep ==
    ASSUME LogInv, NEW m \in Message, NEW list \in Lists,
           PushUnlogged(list, m)
    PROVE  LogInv'
<1>1. /\ messages' \in Seq(Message \cup {SystemPrompt, ContextNote, Summary})
      /\ messages' # <<>>
      /\ conversation' \in Seq(Message)
  BY ExtendStep DEF PushUnlogged
<1>2. "append failed" \in cause' /\ cause' \subseteq Causes
  BY DEF PushUnlogged, LogInv, TypeOK, Causes
<1>3. stored' \in Seq(Message)
  <2>1. stored \in Seq(Message)
    BY DEF LogInv, TypeOK
  <2>2. CASE save_message(m)
    BY <2>1, <2>2, AppendProperties DEF save_message
  <2>3. CASE UNCHANGED stored
    BY <2>1, <2>3
  <2> QED BY <2>2, <2>3 DEF PushUnlogged
<1>4. TypeOK'
  BY <1>1, <1>2, <1>3 DEF PushUnlogged, LogInv, TypeOK
<1> QED BY <1>2, <1>4 DEF LogInv, Rooted, SeqIsFresh

LEMMA CompactStep ==
    ASSUME LogInv, Compact
    PROVE  LogInv'
<1> DEFINE Any == Message \cup {SystemPrompt, ContextNote, Summary}
           tail == SubSeq(messages, Len(messages) - KeepRecent + 1, Len(messages))
<1>1. /\ messages \in Seq(Any) /\ messages # <<>> /\ Len(messages) \in Nat
      /\ \A i \in 1 .. Len(messages) : messages[i] \in Any
      /\ Summary \in Any
  BY ElementOfSeq DEF LogInv, TypeOK
<1>2. messages[1] \in Any
  BY <1>1, EmptySeq
<1> HIDE DEF Any
<1>3. tail \in Seq(Any)
  <2>1. Len(messages) - KeepRecent + 1 \in Int /\ Len(messages) \in Int
    BY <1>1, LogConstants
  <2>2. \A i \in Len(messages) - KeepRecent + 1 .. Len(messages) : messages[i] \in Any
    BY <1>1, LogConstants DEF Compact, Compactable
  <2> QED BY <2>1, <2>2, SubSeqProperties
<1>4. <<messages[1], Summary>> \in Seq(Any) /\ Len(<<messages[1], Summary>>) = 2
  BY <1>1, <1>2
<1> HIDE DEF tail
<1>5. messages' = <<messages[1], Summary>> \o tail
  BY DEF Compact, tail
<1>6. messages' \in Seq(Any) /\ Len(messages') = 2 + Len(tail) /\ Len(tail) \in Nat
  BY <1>3, <1>4, <1>5, ConcatProperties, LenProperties
<1>7. messages' # <<>>
  BY <1>6, EmptySeq
<1>8. "compacted" \in cause' /\ cause' \subseteq Causes
      /\ (cause' \cap {"append failed", "legacy"} = cause \cap {"append failed", "legacy"})
  BY DEF Compact, LogInv, TypeOK, Causes
<1>9. UNCHANGED <<up, turn_messages, stored, conversation>>
  BY DEF Compact
<1>10. TypeOK'
  BY <1>6, <1>7, <1>8, <1>9 DEF LogInv, TypeOK, Any
<1> QED BY <1>8, <1>9, <1>10
        DEF LogInv, Rooted, SeqIsFresh, RowsAreConversation

LEMMA CrashStep ==
    ASSUME LogInv, Crash
    PROVE  LogInv'
<1>1. up' = FALSE /\ up /\ UNCHANGED <<messages, turn_messages, stored, conversation, cause>>
  BY DEF Crash
<1> QED BY <1>1 DEF LogInv, TypeOK, Rooted, SeqIsFresh, SeqIncreases, Dense,
                    RowsAreConversation, HasContext

LEMMA SaveUnpushedStep ==
    ASSUME LogInv, NEW m \in Message, SaveUnpushed(m)
    PROVE  LogInv'
<1>1. up /\ UNCHANGED <<up, messages, turn_messages, conversation, cause>>
  BY DEF SaveUnpushed
<1>2. stored' \in Seq(Message)
  BY AppendProperties DEF SaveUnpushed, save_message, LogInv, TypeOK
<1>3. ~(Rooted /\ turn_messages = <<>>)
  BY DEF SaveUnpushed, Rooted
<1> QED BY <1>1, <1>2, <1>3 DEF LogInv, TypeOK, Rooted, SeqIsFresh, SeqIncreases,
                    Dense, RowsAreConversation, HasContext

LEMMA ResumeStep ==
    ASSUME LogInv, Resume
    PROVE  LogInv'
<1>1. /\ ~up /\ up' = TRUE /\ messages' = Restored
      /\ UNCHANGED <<turn_messages, stored, conversation>>
  BY DEF Resume
<1>2. /\ cause \subseteq cause' /\ cause' \subseteq Causes
      /\ cause' = {} => ~HasContext(messages)
      /\ "legacy" \notin cause' => turn_messages # <<>> \/ stored = <<>>
  BY DEF Resume, LogInv, TypeOK, Causes
<1>3. /\ Restored \in Seq(Message \cup {SystemPrompt, ContextNote, Summary})
      /\ Restored # <<>>
      /\ turn_messages # <<>> => Len(Restored) = Len(turn_messages) + 1
      /\ turn_messages = <<>> => Len(Restored) = Len(stored) + 1
  BY RestoredType DEF LogInv
<1>4. TypeOK'
  BY <1>1, <1>2, <1>3 DEF LogInv, TypeOK
<1>5. Rooted' => Rooted
  BY <1>2 DEF Rooted
<1>6. Rooted' => RowsAreConversation'
  <2> SUFFICES ASSUME Rooted' PROVE RowsAreConversation'
    OBVIOUS
  <2>1. CASE turn_messages # <<>>
    BY <1>1, <1>5, <2>1 DEF LogInv, RowsAreConversation
  <2>2. CASE turn_messages = <<>>
    <3>1. stored = <<>>
      BY <1>2, <2>2 DEF Rooted
    <3>2. conversation = <<>>
      BY <1>5, <2>2, <3>1 DEF LogInv
    <3> QED BY <1>1, <2>2, <3>2 DEF RowsAreConversation
  <2> QED BY <2>1, <2>2
<1>7. Rooted' /\ turn_messages' = <<>> => conversation' = stored' /\ stored' = <<>>
  BY <1>1, <1>2, <1>5 DEF LogInv, Rooted
<1>8. cause' = {} => /\ SeqIncreases' /\ Dense' /\ SeqIsFresh'
  <2> SUFFICES ASSUME cause' = {} PROVE SeqIncreases' /\ Dense' /\ SeqIsFresh'
    OBVIOUS
  <2>1. cause = {} /\ Rooted' /\ ~HasContext(messages)
    BY <1>2 DEF Rooted
  <2>2. SeqIncreases /\ Dense
    BY <2>1 DEF LogInv
  <2>3. RowsAreConversation'
    BY <1>6, <2>1
  <2>4. Len(turn_messages) \in Nat /\ DOMAIN turn_messages = 1 .. Len(turn_messages)
    BY LenProperties DEF LogInv, TypeOK
  <2>5. Len(messages') = Len(turn_messages) + 1
    <3>1. CASE turn_messages = <<>>
      BY <1>1, <1>2, <1>3, <2>1, <3>1
    <3>2. CASE turn_messages # <<>>
      BY <1>1, <1>3, <3>2
    <3> QED BY <3>1, <3>2
  <2>6. \A i \in DOMAIN turn_messages' : turn_messages'[i].seq = i
    BY <1>1, <2>2 DEF Dense
  <2>7. Dense'
    BY <1>1, <2>3, <2>5, <2>6 DEF Dense, RowsAreConversation
  <2>8. SeqIsFresh'
    BY <1>1, <2>4, <2>5, <2>6 DEF SeqIsFresh
  <2>9. SeqIncreases'
    BY <1>1, <2>2 DEF SeqIncreases
  <2> QED BY <2>7, <2>8, <2>9
<1>9. SeqIsFresh'
  BY <1>8 DEF SeqIsFresh
<1> QED BY <1>4, <1>6, <1>7, <1>8, <1>9 DEF LogInv

-----------------------------------------------------------------------------
LEMMA LogInvInit == Init => LogInv
<1> SUFFICES ASSUME Init PROVE LogInv
  OBVIOUS
<1>1. turn_messages = <<>> /\ cause = {}
  BY DEF Init
<1>2. CASE NewSession
  BY <1>1, <1>2, LogConstants DEF NewSession, LogInv, TypeOK, Rooted, RowsAreConversation,
     SeqIncreases, SeqIsFresh, Dense, Causes
<1>3. CASE OldSession
  <2>1. /\ up = FALSE /\ stored \in Seq(Message) /\ conversation = stored
        /\ messages = <<SystemPrompt>> \o stored
    BY <1>3, LogConstants DEF OldSession
  <2>2. messages = Restored
    BY <1>1, <2>1 DEF Restored
  <2>3. /\ messages \in Seq(Message \cup {SystemPrompt, ContextNote, Summary})
        /\ Len(messages) = 1 + Len(stored)
        /\ messages # <<>>
    <3> DEFINE Any == Message \cup {SystemPrompt, ContextNote, Summary}
    <3>1. <<SystemPrompt>> \in Seq(Any) /\ stored \in Seq(Any) /\ Len(<<SystemPrompt>>) = 1
      BY <2>1
    <3> HIDE DEF Any
    <3>2. /\ <<SystemPrompt>> \o stored \in Seq(Any)
          /\ Len(<<SystemPrompt>> \o stored) = 1 + Len(stored)
      BY <3>1, ConcatProperties
    <3>3. Len(stored) \in Nat
      BY <2>1
    <3>4. messages # <<>>
      BY <2>1, <3>2, <3>3, EmptySeq
    <3> QED BY <2>1, <3>2, <3>4 DEF Any
  <2>4. Len(stored) \in Nat
    BY <2>1
  <2>5. TypeOK
    <3>1. turn_messages \in Seq(Row) /\ cause \in SUBSET Causes
      BY <1>1, EmptySeq
    <3>2. conversation \in Seq(Message) /\ up \in BOOLEAN
      BY <2>1
    <3> QED BY <2>1, <2>3, <3>1, <3>2 DEF TypeOK
  <2>6. Dense
    BY <1>1, <2>1, <2>3, <2>4 DEF Dense
  <2> QED BY <1>1, <2>1, <2>5, <2>6 DEF LogInv, SeqIncreases, SeqIsFresh
<1> QED BY <1>2, <1>3 DEF Init

LEMMA LogInvNext == LogInv /\ [Next]_logVars => LogInv'
<1> SUFFICES ASSUME LogInv, [Next]_logVars PROVE LogInv'
  OBVIOUS
<1>1. ASSUME NEW m \in Message, NEW list \in Lists, Push(list, m)
      PROVE  LogInv'
  <2>1. stored' \in Seq(Message)
    BY <1>1, AppendProperties DEF Push, save_message, LogInv, TypeOK
  <2> QED BY <1>1, <2>1, RecordedPushStep DEF Push
<1>2. ASSUME NEW m \in Message, NEW list \in Lists, PushUnsaved(list, m)
      PROVE  LogInv'
  <2>1. stored' \in Seq(Message)
    BY <1>2 DEF PushUnsaved, LogInv, TypeOK
  <2> QED BY <1>2, <2>1, RecordedPushStep DEF PushUnsaved
<1>3. CASE UNCHANGED logVars
  BY <1>3 DEF logVars, LogInv, TypeOK, Rooted, SeqIsFresh, SeqIncreases, Dense,
              RowsAreConversation, HasContext
<1> QED BY <1>1, <1>2, <1>3, UnloggedPushStep, CompactStep, CrashStep,
           SaveUnpushedStep, ResumeStep DEF Next

-----------------------------------------------------------------------------
(* LogInv holds throughout.                                                *)
THEOREM LogInvariant == Spec => []LogInv
BY LogInvInit, LogInvNext, PTL DEF Spec

(* The list, both tables and the history keep their types.                 *)
THEOREM TypeCorrect == Spec => []TypeOK
<1>1. LogInv => TypeOK
  BY DEF LogInv
<1> QED BY <1>1, LogInvariant, PTL

(* The log is the conversation, in insertion order, through any number of  *)
(* compactions, context messages, crashes and resumes.                     *)
THEOREM LogIsComplete == Spec => []NothingLost
<1>1. LogInv => NothingLost
  BY DEF LogInv, NothingLost
<1> QED BY <1>1, LogInvariant, PTL

(* A message recorded before the list was ever shortened sorts after every *)
(* row already in the log.                                                 *)
THEOREM FreshSeq == Spec => []SeqIsFresh
<1>1. LogInv => SeqIsFresh
  BY DEF LogInv
<1> QED BY <1>1, LogInvariant, PTL

(* Exact crash recovery, for every history in which nothing has set the    *)
(* list and the log apart.                                                 *)
THEOREM RecoveryIsExact == Spec => ExactRecovery
<1>1. LogInv /\ [Next]_logVars =>
        [Resume /\ cause = {} => messages' = <<SystemPrompt>> \o conversation]_logVars
  BY RestoredExact DEF Resume
<1> QED BY <1>1, LogInvariant, PTL DEF Spec, ExactRecovery
=============================================================================
