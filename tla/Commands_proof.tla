---------------------------- MODULE Commands_proof ----------------------------
(***************************************************************************)
(* Proofs about the commands of Commands, for any channels and any input.  *)
(* The invariant of anvil run counts: the decisions used, waiting in the   *)
(* channel and held by the reading task are, in this order, those of the   *)
(* lines it has taken, because each line becomes one decision and none is  *)
(* made without a line before the input ends.                              *)
(***************************************************************************)
EXTENDS Commands, Integers, TLAPS

-----------------------------------------------------------------------------
(* Lines read so far, and decisions made of them.                          *)
Taken == Len(typed) - Len(lines)
Made == Len(used) + Len(perms) + (IF reader = "sends" THEN 1 ELSE 0)

(* The decision the n-th call is to get (AnswersInOrder), and that nothing *)
(* typed from now on can change it.                                        *)
Expected(n) ==
    IF yes THEN "Allow"
    ELSE IF n > Len(typed) \/ \E k \in 1 .. n : typed[k] = "not_text"
    THEN "Deny" ELSE RO!Spoken(typed[n])

Settled(n) ==
    \/ yes
    \/ n <= Taken
    \/ eof /\ lines = <<>>
    \/ Taken >= 1 /\ Taken <= n /\ typed[Taken] = "not_text"

Input ==
    /\ Len(lines) <= Len(typed)
    /\ \A j \in 1 .. Len(lines) : lines[j] = typed[Taken + j]
    /\ yes => reader # "reads" /\ (reader = "over" => RO!TurnOver)
    /\ ~yes /\ reader # "over" =>
          /\ \A k \in 1 .. Taken : typed[k] # "not_text"
          /\ Taken <= Made
          /\ Made = Taken \/ (eof /\ lines = <<>>)
    /\ ~yes /\ reader = "over" /\ ~RO!TurnOver =>
          Taken >= 1 /\ Taken <= Made + 1 /\ typed[Taken] = "not_text"
    /\ ~yes /\ reader = "over" =>
          \/ Taken >= 1 /\ typed[Taken] = "not_text"
          \/ RO!TurnOver

Answers ==
    /\ \A n \in 1 .. Len(used) : used[n] = Expected(n) /\ Settled(n)
    /\ \A j \in 1 .. Len(perms) :
          perms[j] = Expected(Len(used) + j) /\ Settled(Len(used) + j)
    /\ ~yes /\ reader = "sends" => held = Expected(Made) /\ Settled(Made)

(* Pieces of text are on their way or collected, all of them in the end.   *)
Pieces ==
    /\ said = channel + read
    /\ main # "events" => RO!TurnOver /\ channel = 0
    /\ RO!OutputIsWhole

RunInv == RO!TypeOK /\ Input /\ Answers /\ Pieces

-----------------------------------------------------------------------------
LEMMA Added ==
    ASSUME NEW S, NEW s \in Seq(S), NEW e \in S
    PROVE  /\ Append(s, e) \in Seq(S) /\ Len(Append(s, e)) = Len(s) + 1 /\ Len(s) \in Nat
           /\ \A k \in 1 .. Len(s) : Append(s, e)[k] = s[k]
           /\ Append(s, e)[Len(s) + 1] = e
  OBVIOUS

LEMMA Taking ==
    ASSUME NEW S, NEW s \in Seq(S), s # <<>>
    PROVE  /\ Tail(s) \in Seq(S) /\ Len(Tail(s)) = Len(s) - 1 /\ Len(s) \in Nat /\ Len(s) >= 1
           /\ Head(s) = s[1] /\ Head(s) \in S
           /\ \A k \in 1 .. Len(s) - 1 : Tail(s)[k] = s[k + 1]
  OBVIOUS

LEMMA NoneYet == ASSUME NEW S PROVE <<>> \in Seq(S) /\ Len(<<>>) = 0
  OBVIOUS

LEMMA WordsMean ==
    /\ \A w \in RO!Words : RO!Decision(w) \in RO!Decisions
    /\ \A w \in RO!Words \ {"not_text"} : RO!Decision(w) = RO!Spoken(w)
    /\ {"Allow", "AllowAlways", "Deny"} = RO!Decisions
  BY DEF RO!Words, RO!Decision, RO!Spoken, RO!Decisions

LEMMA Lengths ==
    ASSUME RO!TypeOK
    PROVE  /\ Len(typed) \in Nat /\ Len(lines) \in Nat /\ Len(used) \in Nat /\ Len(perms) \in Nat
           /\ typed \in Seq(RO!Words) /\ lines \in Seq(RO!Words)
           /\ used \in Seq(RO!Decisions) /\ perms \in Seq(RO!Decisions)
           /\ Len(perms) <= Places
  BY DEF RO!TypeOK

-----------------------------------------------------------------------------
LEMMA RunInit == ASSUME RO!RunConstants PROVE RO!Init => RunInv
<1> SUFFICES ASSUME RO!Init PROVE RunInv
  OBVIOUS
<1>1. RO!TypeOK
  <2>1. yes \in BOOLEAN /\ eof \in BOOLEAN
    BY Zenon DEF RO!Init
  <2>2. "Deny" \in RO!Decisions
    BY DEF RO!Decisions
  <2>3. reader \in {"reads", "sends", "over"}
    BY DEF RO!Init
  <2> QED BY <2>1, <2>2, <2>3, NoneYet DEF RO!Init, RO!TypeOK, RO!RunConstants
<1>2. Len(typed) = 0 /\ Len(lines) = 0 /\ Len(used) = 0 /\ Len(perms) = 0 /\ Taken = 0
  BY NoneYet DEF RO!Init, Taken
<1>3. Input
  BY <1>2 DEF RO!Init, Input, Made, RO!TurnOver
<1>4. Answers
  BY <1>2 DEF RO!Init, Answers
<1>5. Pieces
  BY DEF RO!Init, Pieces, RO!OutputIsWhole
<1> QED BY <1>1, <1>3, <1>4, <1>5 DEF RunInv

LEMMA TypeStep == ASSUME RO!RunConstants PROVE RunInv /\ [RO!Next]_runVars => RO!TypeOK'
<1> SUFFICES ASSUME RunInv, [RO!Next]_runVars PROVE RO!TypeOK'
  OBVIOUS
<1>1. RO!TypeOK /\ Pieces
  BY DEF RunInv
<1>2. Places \in Nat /\ EventCap \in Nat /\ MaxCalls \in Nat /\ MaxPieces \in Nat
  BY DEF RO!RunConstants
<1> USE DEF RO!turnVars, RO!mainVars, RO!readVars
<1>3. ASSUME NEW word \in RO!Words, RO!Type(word) PROVE RO!TypeOK'
  <2>1. lines' \in Seq(RO!Words) /\ typed' \in Seq(RO!Words)
    BY <1>1, <1>3, Lengths, Added DEF RO!Type
  <2> QED BY <1>1, <1>3, <2>1 DEF RO!Type, RO!TypeOK
<1>4. CASE RO!Close
  BY <1>1, <1>4 DEF RO!Close, RO!TypeOK
<1>5. CASE RO!ReadLine
  <2>1. lines' \in Seq(RO!Words)
    BY <1>1, <1>5, Lengths, Taking DEF RO!ReadLine
  <2>2. held' \in RO!Decisions
    <3>1. lines # <<>> => Head(lines) \in RO!Words
      BY <1>1, Lengths, Taking
    <3>2. held \in RO!Decisions
      BY <1>1 DEF RO!TypeOK
    <3> QED BY <1>5, <3>1, <3>2, WordsMean DEF RO!ReadLine
  <2>3. reader' \in {"sends", "over"}
    BY <1>5 DEF RO!ReadLine
  <2> QED BY <1>1, <1>5, <2>1, <2>2, <2>3 DEF RO!ReadLine, RO!TypeOK
<1>6. CASE RO!SendDecision
  <2>1. PICK d \in RO!Decisions : perms' = Append(perms, d)
    BY <1>1, <1>6, WordsMean DEF RO!SendDecision, RO!TypeOK
  <2>2. perms' \in Seq(RO!Decisions) /\ Len(perms') <= Places
    BY <1>1, <1>2, <1>6, <2>1, Lengths, Added DEF RO!SendDecision
  <2>3. reader' \in {"sends", "reads"}
    BY <1>6 DEF RO!SendDecision
  <2> QED BY <1>1, <1>6, <2>2, <2>3 DEF RO!SendDecision, RO!TypeOK
<1>7. CASE RO!ReaderEnds
  BY <1>1, <1>7 DEF RO!ReaderEnds, RO!TypeOK
<1>8. CASE RO!Say
  BY <1>1, <1>2, <1>8 DEF RO!Say, RO!TypeOK
<1>9. CASE RO!Ask
  BY <1>1, <1>2, <1>9 DEF RO!Ask, RO!TypeOK
<1>10. CASE RO!Denied
  <2>1. used' \in Seq(RO!Decisions)
    BY <1>1, <1>10, Lengths, Added, WordsMean DEF RO!Denied
  <2> QED BY <1>1, <1>10, <2>1 DEF RO!Denied, RO!TypeOK
<1>11. CASE RO!Decide
  <2>1. Head(perms) \in RO!Decisions /\ perms' \in Seq(RO!Decisions) /\ Len(perms') <= Places
    BY <1>1, <1>2, <1>11, Lengths, Taking DEF RO!Decide
  <2>2. used' \in Seq(RO!Decisions)
    BY <1>1, <1>11, <2>1, Lengths, Added DEF RO!Decide
  <2> QED BY <1>1, <1>11, <2>1, <2>2 DEF RO!Decide, RO!TypeOK
<1>12. CASE RO!EndTurn
  BY <1>1, <1>12 DEF RO!EndTurn, RO!TypeOK
<1>13. CASE RO!Collect
  BY <1>1, <1>2, <1>13 DEF RO!Collect, RO!TypeOK, Pieces
<1>14. CASE RO!Finish
  BY <1>1, <1>2, <1>14 DEF RO!Finish, RO!TypeOK
<1>15. CASE RO!Exit
  BY <1>1, <1>15 DEF RO!Exit, RO!TypeOK
<1>16. CASE UNCHANGED runVars
  BY <1>1, <1>16 DEF runVars, RO!TypeOK
<1> QED
  BY <1>3, <1>4, <1>5, <1>6, <1>7, <1>8, <1>9, <1>10, <1>11, <1>12, <1>13, <1>14, <1>15,
     <1>16
     DEF RO!Next, RO!ReaderStep, RO!TurnStep, RO!MainStep

LEMMA PiecesStep == RunInv /\ [RO!Next]_runVars => Pieces'
<1> SUFFICES ASSUME RunInv, [RO!Next]_runVars PROVE Pieces'
  OBVIOUS
<1>1. /\ Pieces
      /\ said \in Nat /\ channel \in Nat /\ read \in Nat
  BY DEF RunInv, RO!TypeOK
<1> USE DEF Pieces, RO!OutputIsWhole, RO!TurnOver, RO!turnVars, RO!mainVars, RO!readVars
<1>2. CASE \/ (\E word \in RO!Words : RO!Type(word)) \/ RO!Close \/ RO!ReaderStep
           \/ UNCHANGED runVars
  BY <1>1, <1>2 DEF RO!Type, RO!Close, RO!ReaderStep, RO!ReadLine, RO!SendDecision,
                    RO!ReaderEnds, runVars
<1>3. CASE RO!Say \/ RO!Ask
  BY <1>1, <1>3 DEF RO!Say, RO!Ask
<1>4. CASE RO!TurnStep
  BY <1>1, <1>4 DEF RO!TurnStep, RO!Decide, RO!Denied, RO!EndTurn
<1>5. CASE RO!MainStep
  BY <1>1, <1>5 DEF RO!MainStep, RO!Collect, RO!Finish, RO!Exit
<1> QED BY <1>2, <1>3, <1>4, <1>5 DEF RO!Next

-----------------------------------------------------------------------------
(* A decision that is settled stays as it is while lines come in or are    *)
(* read.                                                                   *)
LEMMA TypingKeeps ==
    ASSUME RO!TypeOK, Input, NEW word \in RO!Words, RO!Type(word),
           NEW n \in Nat, n >= 1, Settled(n)
    PROVE  Expected(n)' = Expected(n) /\ Settled(n)' /\ Taken' = Taken
<1>1. /\ ~yes /\ ~eof /\ yes' = yes /\ Len(typed') = Len(typed) + 1 /\ Len(lines') = Len(lines) + 1
      /\ \A k \in 1 .. Len(typed) : typed'[k] = typed[k]
      /\ Len(typed) \in Nat /\ Len(lines) \in Nat /\ Len(lines) <= Len(typed)
  BY Lengths, Added DEF RO!Type, Input, RO!turnVars
<1>2. Taken' = Taken /\ Taken \in Nat /\ Taken <= Len(typed)
  BY <1>1 DEF Taken
<1>3. CASE n <= Taken
  <2>1. n \in 1 .. Len(typed) /\ \A k \in 1 .. n : k \in 1 .. Len(typed)
    BY <1>2, <1>3
  <2>2. typed'[n] = typed[n] /\ \A k \in 1 .. n : typed'[k] = typed[k]
    BY <1>1, <2>1
  <2>3. ~(n > Len(typed)) /\ ~(n > Len(typed'))
    BY <1>1, <2>1
  <2>4. Settled(n)'
    BY <1>2, <1>3 DEF Settled
  <2> QED BY <1>1, <1>2, <2>2, <2>3, <2>4 DEF Expected
<1>4. CASE Taken >= 1 /\ Taken <= n /\ typed[Taken] = "not_text"
  <2>1. typed'[Taken] = "not_text" /\ Taken \in 1 .. n
    BY <1>1, <1>2, <1>4
  <2>2. Expected(n) = "Deny" /\ Expected(n)' = "Deny"
    BY <1>1, <1>4, <2>1 DEF Expected
  <2>3. Settled(n)'
    BY <1>2, <1>4, <2>1 DEF Settled
  <2> QED BY <1>2, <2>2, <2>3
<1> QED BY <1>1, <1>3, <1>4 DEF Settled

LEMMA ReadingKeeps ==
    ASSUME RO!TypeOK, Input, RO!ReadLine, NEW n \in Nat, n >= 1, Settled(n)
    PROVE  Expected(n)' = Expected(n) /\ Settled(n)'
<1>1. typed' = typed /\ yes' = yes /\ eof' = eof /\ ~yes /\ reader = "reads"
  BY DEF RO!ReadLine, RO!turnVars, Input
<1>2. Expected(n)' = Expected(n)
  BY <1>1 DEF Expected
<1>3. \A k \in 1 .. Taken : typed[k] # "not_text"
  BY <1>1 DEF Input
<1>4. Taken \in Nat
  BY Lengths DEF Input, Taken
<1>5. CASE lines # <<>>
  <2>1. Taken' = Taken + 1
    <3>1. lines' = Tail(lines)
      BY <1>5 DEF RO!ReadLine
    <3>2. Len(Tail(lines)) = Len(lines) - 1 /\ Len(lines) \in Nat /\ Len(typed) \in Nat
      BY <1>5, Lengths, Taking
    <3>3. Len(lines') = Len(lines) - 1
      BY <3>1, <3>2
    <3>4. Len(typed') = Len(typed)
      BY <1>1
    <3> QED BY <3>2, <3>3, <3>4 DEF Taken
  <2>2. n <= Taken
    BY <1>1, <1>3, <1>4, <1>5 DEF Settled
  <2> QED BY <1>2, <1>4, <2>1, <2>2 DEF Settled
<1>6. CASE lines = <<>>
  <2>1. lines' = lines /\ Taken' = Taken
    BY <1>1, <1>6 DEF RO!ReadLine, Taken
  <2> QED BY <1>1, <1>2, <2>1 DEF Settled
<1> QED BY <1>5, <1>6

(* Steps that neither type nor read.                                       *)
LEMMA OthersKeep ==
    ASSUME UNCHANGED <<yes, typed, lines, eof>>, NEW n
    PROVE  Expected(n)' = Expected(n) /\ Settled(n)' = Settled(n) /\ Taken' = Taken
  BY DEF Expected, Settled, Taken

-----------------------------------------------------------------------------
LEMMA TypeAnswers ==
    ASSUME RunInv, NEW word \in RO!Words, RO!Type(word)
    PROVE  Input' /\ Answers'
<1>1. RO!TypeOK /\ Input /\ Answers
  BY DEF RunInv
<1>2. /\ ~yes /\ ~eof /\ UNCHANGED <<yes, eof, reader, used, perms, held, turn>>
      /\ Len(typed') = Len(typed) + 1 /\ Len(lines') = Len(lines) + 1
      /\ \A k \in 1 .. Len(typed) : typed'[k] = typed[k]
      /\ \A k \in 1 .. Len(lines) : lines'[k] = lines[k]
      /\ typed'[Len(typed) + 1] = word /\ lines'[Len(lines) + 1] = word
  BY <1>1, Lengths, Added DEF RO!Type, RO!turnVars
<1>3. /\ Len(typed) \in Nat /\ Len(lines) \in Nat /\ Len(lines) <= Len(typed)
      /\ Len(used) \in Nat /\ Len(perms) \in Nat
  BY <1>1, Lengths DEF Input
<1>4. Taken' = Taken /\ Taken \in Nat /\ Taken + Len(lines) = Len(typed) /\ Made' = Made
      /\ Made \in Nat
  BY <1>2, <1>3 DEF Taken, Made
<1>5. ASSUME NEW j \in 1 .. Len(lines')
      PROVE  lines'[j] = typed'[Taken' + j]
  <2>1. CASE j = Len(lines) + 1
    <3>1. Taken + j = Len(typed) + 1
      BY <1>3, <1>4, <2>1
    <3> QED BY <1>2, <1>4, <2>1, <3>1
  <2>2. CASE j \in 1 .. Len(lines)
    <3>1. Taken + j \in 1 .. Len(typed)
      BY <1>3, <1>4, <2>2
    <3>2. lines[j] = typed[Taken + j]
      BY <1>1, <2>2 DEF Input
    <3> QED BY <1>2, <1>4, <2>2, <3>1, <3>2
  <2> QED BY <1>2, <1>3, <2>1, <2>2
<1>6. \A k \in 1 .. Taken : typed'[k] = typed[k]
  BY <1>2, <1>3, <1>4
<1>7. Taken >= 1 => typed'[Taken] = typed[Taken]
  BY <1>4, <1>6
<1>8. Input'
  <2>1. Len(lines') <= Len(typed')
    BY <1>2, <1>3
  <2>2. ~yes' /\ reader' # "over" =>
          /\ \A k \in 1 .. Taken' : typed'[k] # "not_text"
          /\ Taken' <= Made'
          /\ Made' = Taken' \/ (eof' /\ lines' = <<>>)
    BY <1>1, <1>2, <1>4, <1>6 DEF Input
  <2>3. ~yes' /\ reader' = "over" /\ ~RO!TurnOver' =>
          Taken' >= 1 /\ Taken' <= Made' + 1 /\ typed'[Taken'] = "not_text"
    BY <1>1, <1>2, <1>4, <1>7 DEF Input, RO!TurnOver
  <2>4. ~yes' /\ reader' = "over" => (Taken' >= 1 /\ typed'[Taken'] = "not_text") \/ RO!TurnOver'
    BY <1>1, <1>2, <1>4, <1>7 DEF Input, RO!TurnOver
  <2>5. ~yes'
    BY <1>2
  <2> QED BY <1>5, <2>1, <2>2, <2>3, <2>4, <2>5 DEF Input
<1>9. Answers'
  <2>1. ASSUME NEW n \in 1 .. Len(used)
        PROVE  used'[n] = Expected(n)' /\ Settled(n)'
    <3>1. used[n] = Expected(n) /\ Settled(n) /\ n \in Nat /\ n >= 1
      BY <1>1, <1>3 DEF Answers
    <3> QED BY <1>1, <1>2, <3>1, TypingKeeps
  <2>2. ASSUME NEW j \in 1 .. Len(perms), NEW n, n = Len(used) + j
        PROVE  perms'[j] = Expected(n)' /\ Settled(n)'
    <3>1. perms[j] = Expected(n) /\ Settled(n) /\ n \in Nat /\ n >= 1
      BY <1>1, <1>3, <2>2 DEF Answers
    <3> QED BY <1>1, <1>2, <3>1, TypingKeeps
  <2>3. ASSUME reader = "sends", NEW n, n = Made
        PROVE  held' = Expected(n)' /\ Settled(n)'
    <3>1. held = Expected(n) /\ Settled(n)
      BY <1>1, <1>2, <2>3 DEF Answers
    <3>2. n \in Nat /\ n >= 1
      BY <1>3, <1>4, <2>3 DEF Made
    <3> QED BY <1>1, <1>2, <3>1, <3>2, TypingKeeps
  <2>4. \A j \in 1 .. Len(perms) : perms'[j] = Expected(Len(used) + j)' /\ Settled(Len(used) + j)'
    BY <1>2, <2>2
  <2> QED BY <1>2, <1>4, <2>1, <2>2, <2>3 DEF Answers
<1> QED BY <1>8, <1>9

LEMMA ReadAnswers ==
    ASSUME RunInv, RO!ReadLine
    PROVE  Input' /\ Answers'
<1>1. RO!TypeOK /\ Input /\ Answers
  BY DEF RunInv
<1>2. /\ ~yes /\ reader = "reads" /\ UNCHANGED <<yes, eof, typed, used, perms, turn>>
      /\ reader' \in {"sends", "over"}
  BY <1>1 DEF RO!ReadLine, RO!turnVars, Input
<1>3. /\ Len(typed) \in Nat /\ Len(lines) \in Nat /\ Len(lines) <= Len(typed)
      /\ Len(used) \in Nat /\ Len(perms) \in Nat
  BY <1>1, Lengths DEF Input
<1>4. /\ \A k \in 1 .. Taken : typed[k] # "not_text"
      /\ Taken <= Made /\ (Made = Taken \/ (eof /\ lines = <<>>))
  BY <1>1, <1>2 DEF Input
<1>5. /\ Taken \in Nat /\ Taken + Len(lines) = Len(typed)
      /\ Made = Len(used) + Len(perms) /\ Made \in Nat
  BY <1>2, <1>3 DEF Taken, Made
(* What was decided is still decided.                                      *)
<1>6. ASSUME NEW n \in 1 .. Len(used)
      PROVE  used'[n] = Expected(n)' /\ Settled(n)'
  <2>1. used[n] = Expected(n) /\ Settled(n) /\ n \in Nat /\ n >= 1
    BY <1>1, <1>3 DEF Answers
  <2> QED BY <1>1, <1>2, <2>1, ReadingKeeps
<1>7. ASSUME NEW j \in 1 .. Len(perms), NEW n, n = Len(used) + j
      PROVE  perms'[j] = Expected(n)' /\ Settled(n)'
  <2>1. perms[j] = Expected(n) /\ Settled(n) /\ n \in Nat /\ n >= 1
    BY <1>1, <1>3, <1>7 DEF Answers
  <2> QED BY <1>1, <1>2, <2>1, ReadingKeeps
<1>8. ASSUME reader' = "sends" => (held' = Expected(Made)' /\ Settled(Made)')
      PROVE  Answers'
  <2>1. \A j \in 1 .. Len(perms) : perms'[j] = Expected(Len(used) + j)' /\ Settled(Len(used) + j)'
    BY <1>2, <1>7
  <2> QED BY <1>2, <1>6, <1>7, <1>8 DEF Answers
<1>9. CASE lines # <<>>
  <2>1. /\ lines' = Tail(lines) /\ Len(lines') = Len(lines) - 1 /\ Len(lines) >= 1
        /\ Head(lines) = lines[1] /\ Head(lines) \in RO!Words
        /\ \A k \in 1 .. Len(lines) - 1 : lines'[k] = lines[k + 1]
    <3>1. lines' = Tail(lines)
      BY <1>9 DEF RO!ReadLine
    <3> QED BY <1>1, <1>9, <3>1, Lengths, Taking
  <2>2. Taken' = Taken + 1 /\ Made = Taken
    BY <1>2, <1>3, <1>4, <1>9, <2>1 DEF Taken
  <2>3. typed[Taken + 1] = Head(lines) /\ Taken + 1 <= Len(typed)
    <3>1. lines[1] = typed[Taken + 1]
      BY <1>1, <1>3, <2>1 DEF Input
    <3> QED BY <1>3, <1>5, <2>1, <3>1
  <2>4. ASSUME NEW j \in 1 .. Len(lines') PROVE lines'[j] = typed'[Taken' + j]
    <3>1. /\ j \in 1 .. Len(lines) - 1 /\ j + 1 \in 1 .. Len(lines)
          /\ Taken + (j + 1) = (Taken + 1) + j
      <4>1. Len(lines') = Len(lines) - 1 /\ Len(lines) \in Nat /\ Taken \in Nat
        BY <1>3, <1>5, <2>1
      <4> QED BY <4>1
    <3>2. lines'[j] = lines[j + 1] /\ lines[j + 1] = typed[Taken + (j + 1)]
      BY <1>1, <2>1, <3>1 DEF Input
    <3> QED BY <1>2, <2>2, <3>1, <3>2
  <2>5. Len(lines') <= Len(typed')
    BY <1>2, <1>3, <2>1
  <2>6. CASE Head(lines) # "not_text"
    <3>1. held' = RO!Decision(Head(lines)) /\ reader' = "sends"
      BY <1>9, <2>6 DEF RO!ReadLine
    <3>2. Made' = Taken + 1
      BY <1>2, <1>5, <2>2, <3>1 DEF Made
    <3>3. \A k \in 1 .. Taken + 1 : typed[k] # "not_text"
      <4>1. ASSUME NEW k \in 1 .. Taken + 1 PROVE typed[k] # "not_text"
        <5>1. k \in 1 .. Taken \/ k = Taken + 1
          BY <1>5
        <5> QED BY <1>4, <2>3, <2>6, <5>1
      <4> QED BY <4>1
    <3>4. held' = RO!Spoken(typed[Taken + 1])
      BY <2>1, <2>3, <2>6, <3>1, WordsMean
    <3>5. PICK n : n = Taken + 1
      OBVIOUS
    <3>6. Expected(n)' = RO!Spoken(typed[n])
      <4>1. ~(n > Len(typed)) /\ ~(\E k \in 1 .. n : typed[k] = "not_text")
        BY <1>3, <1>5, <2>3, <3>3, <3>5
      <4> QED BY <1>2, <4>1 DEF Expected
    <3>7. Settled(n)'
      BY <1>5, <2>2, <3>5 DEF Settled
    <3>8. held' = Expected(Made)' /\ Settled(Made)'
      BY <3>2, <3>4, <3>5, <3>6, <3>7
    <3>9. Input'
      <4>1. /\ \A k \in 1 .. Taken' : typed'[k] # "not_text"
            /\ Taken' <= Made' /\ Made' = Taken'
        BY <1>2, <1>5, <2>2, <3>2, <3>3
      <4> QED BY <1>2, <2>4, <2>5, <3>1, <4>1 DEF Input
    <3> QED BY <1>8, <3>8, <3>9
  <2>7. CASE Head(lines) = "not_text"
    <3>1. reader' = "over"
      BY <1>9, <2>7 DEF RO!ReadLine
    <3>2. Made' = Made
      BY <1>2, <3>1 DEF Made
    <3>3. Taken' >= 1 /\ Taken' <= Made' + 1 /\ typed'[Taken'] = "not_text"
      BY <1>2, <1>5, <2>2, <2>3, <2>7, <3>2
    <3>4. Input'
      BY <1>2, <2>4, <2>5, <3>1, <3>3 DEF Input
    <3> QED BY <1>8, <3>1, <3>4
  <2> QED BY <2>6, <2>7
<1>10. CASE lines = <<>>
  <2>1. lines' = lines /\ held' = "Deny" /\ reader' = "sends" /\ eof
    BY <1>10 DEF RO!ReadLine
  <2>2. Taken' = Taken /\ Made' = Made + 1 /\ Len(lines) = 0 /\ Taken = Len(typed)
    <3>1. Len(lines) = 0
      BY <1>10, NoneYet
    <3> QED BY <1>2, <1>3, <1>5, <2>1, <3>1 DEF Taken, Made
  <2>3. PICK n : n = Made + 1
    OBVIOUS
  <2>4. Expected(n)' = "Deny"
    <3>1. n > Len(typed)
      <4>1. Taken <= Made /\ Taken = Len(typed) /\ Taken \in Nat /\ Made \in Nat
        BY <1>4, <1>5, <2>2
      <4> QED BY <2>3, <4>1
    <3> QED BY <1>2, <3>1 DEF Expected
  <2>5. Settled(n)'
    BY <1>2, <1>10, <2>1 DEF Settled
  <2>6. Input'
    <3>1. \A j \in 1 .. Len(lines') : FALSE
      BY <2>1, <2>2
    <3>2. \A k \in 1 .. Taken' : typed'[k] # "not_text"
      BY <1>2, <1>4, <2>2
    <3>3. Taken' <= Made' /\ eof' /\ lines' = <<>> /\ Len(lines') <= Len(typed')
      BY <1>2, <1>3, <1>4, <1>5, <1>10, <2>1, <2>2
    <3> QED BY <1>2, <2>1, <3>1, <3>2, <3>3 DEF Input
  <2> QED BY <1>8, <2>1, <2>2, <2>3, <2>4, <2>5, <2>6
<1> QED BY <1>9, <1>10

(* A decision goes into the channel, is used, or is dropped with the turn. *)
LEMMA SendAnswers ==
    ASSUME RunInv, RO!SendDecision
    PROVE  Input' /\ Answers'
<1>1. RO!TypeOK /\ Input /\ Answers
  BY DEF RunInv
<1> DEFINE d == IF yes THEN "Allow" ELSE held
<1>2. /\ reader = "sends" /\ UNCHANGED <<yes, eof, typed, lines, used, held, turn>>
      /\ perms' = Append(perms, d) /\ d \in RO!Decisions
      /\ yes => reader' = "sends"
      /\ ~yes => reader' = "reads"
  BY <1>1, WordsMean DEF RO!SendDecision, RO!turnVars, RO!TypeOK
<1> HIDE DEF d
<1>3. /\ Len(used) \in Nat /\ Len(perms) \in Nat /\ Len(perms') = Len(perms) + 1
      /\ \A j \in 1 .. Len(perms) : perms'[j] = perms[j]
      /\ perms'[Len(perms) + 1] = d
  BY <1>1, <1>2, Lengths, Added
<1>4. \A n : Expected(n)' = Expected(n) /\ Settled(n)' = Settled(n)
  BY <1>2, OthersKeep
<1>5. Taken' = Taken
  BY <1>2 DEF Taken
<1>6. Made = Len(used) + Len(perms) + 1 /\ (~yes => Made' = Made)
  BY <1>2, <1>3 DEF Made
<1>7. d = Expected(Made) /\ Settled(Made)
  <2>1. CASE yes
    BY <2>1 DEF d, Expected, Settled
  <2>2. CASE ~yes
    BY <1>1, <1>2, <2>2 DEF d, Answers
  <2> QED BY <2>1, <2>2
<1>8. ASSUME NEW j \in 1 .. Len(perms'), NEW n, n = Len(used) + j
      PROVE  perms'[j] = Expected(n)' /\ Settled(n)'
  <2>1. CASE j \in 1 .. Len(perms)
    BY <1>1, <1>3, <1>4, <1>8, <2>1 DEF Answers
  <2>2. CASE j = Len(perms) + 1
    <3>1. n = Made
      BY <1>3, <1>6, <1>8, <2>2
    <3>2. Expected(n)' = Expected(n) /\ Settled(n)' = Settled(n)
      BY <1>4
    <3> QED BY <1>3, <1>7, <2>2, <3>1, <3>2
  <2> QED BY <1>3, <2>1, <2>2
<1>9. Answers'
  <2>1. \A n \in 1 .. Len(used) : used'[n] = Expected(n)' /\ Settled(n)'
    BY <1>1, <1>2, <1>4 DEF Answers
  <2>2. \A j \in 1 .. Len(perms') :
           perms'[j] = Expected(Len(used) + j)' /\ Settled(Len(used) + j)'
    BY <1>2, <1>8
  <2>3. ~(~yes' /\ reader' = "sends")
    BY <1>2
  <2> QED BY <1>2, <1>8, <2>1, <2>3 DEF Answers
<1>10. Input'
  <2>1. CASE yes
    BY <1>1, <1>2, <1>5, <2>1 DEF Input
  <2>2. CASE ~yes
    BY <1>1, <1>2, <1>5, <1>6, <2>2 DEF Input
  <2> QED BY <2>1, <2>2
<1> QED BY <1>9, <1>10

LEMMA DecideAnswers ==
    ASSUME RunInv, RO!Decide
    PROVE  Input' /\ Answers'
<1>1. RO!TypeOK /\ Input /\ Answers
  BY DEF RunInv
<1>2. /\ UNCHANGED <<yes, eof, typed, lines, reader, held>> /\ perms # <<>>
      /\ perms' = Tail(perms) /\ used' = Append(used, Head(perms))
      /\ ~RO!TurnOver /\ ~RO!TurnOver'
  BY DEF RO!Decide, RO!TurnOver
<1>3. /\ Len(used) \in Nat /\ Len(perms) \in Nat /\ Len(perms) >= 1
      /\ Len(perms') = Len(perms) - 1 /\ Head(perms) = perms[1] /\ Head(perms) \in RO!Decisions
      /\ \A j \in 1 .. Len(perms) - 1 : perms'[j] = perms[j + 1]
  BY <1>1, <1>2, Lengths, Taking
<1>4. /\ Len(used') = Len(used) + 1 /\ used'[Len(used) + 1] = perms[1]
      /\ \A n \in 1 .. Len(used) : used'[n] = used[n]
  BY <1>1, <1>2, <1>3, Lengths, Added
<1>5. \A n : Expected(n)' = Expected(n) /\ Settled(n)' = Settled(n)
  BY <1>2, OthersKeep
<1>6. Taken' = Taken
  BY <1>2 DEF Taken
<1>7. Made' = Made
  BY <1>2, <1>3, <1>4 DEF Made
<1>8. ASSUME NEW n \in 1 .. Len(used')
      PROVE  used'[n] = Expected(n)' /\ Settled(n)'
  <2>1. CASE n \in 1 .. Len(used)
    BY <1>1, <1>4, <1>5, <2>1 DEF Answers
  <2>2. CASE n = Len(used) + 1
    <3>1. perms[1] = Expected(n) /\ Settled(n)
      BY <1>1, <1>3, <2>2 DEF Answers
    <3>2. Expected(n)' = Expected(n) /\ Settled(n)' = Settled(n)
      BY <1>5
    <3> QED BY <1>4, <2>2, <3>1, <3>2
  <2> QED BY <1>3, <1>4, <2>1, <2>2
<1>9. ASSUME NEW j \in 1 .. Len(perms'), NEW n, n = Len(used') + j
      PROVE  perms'[j] = Expected(n)' /\ Settled(n)'
  <2>1. /\ j \in 1 .. Len(perms) - 1 /\ j + 1 \in 1 .. Len(perms)
        /\ n = Len(used) + (j + 1)
    BY <1>3, <1>4, <1>9
  <2>2. perms[j + 1] = Expected(n) /\ Settled(n)
    BY <1>1, <2>1 DEF Answers
  <2>3. Expected(n)' = Expected(n) /\ Settled(n)' = Settled(n)
    BY <1>5
  <2> QED BY <1>3, <2>1, <2>2, <2>3
<1>10. ~yes /\ reader = "sends" => held = Expected(Made)' /\ Settled(Made)'
  <2>1. PICK n : n = Made
    OBVIOUS
  <2>2. Expected(n)' = Expected(n) /\ Settled(n)' = Settled(n)
    BY <1>5
  <2> QED BY <1>1, <1>7, <2>1, <2>2 DEF Answers
<1>11. Answers'
  <2>1. \A j \in 1 .. Len(perms') :
           perms'[j] = Expected(Len(used) + j)' /\ Settled(Len(used) + j)'
    BY <1>9
  <2> QED BY <1>2, <1>8, <1>9, <1>10, <2>1 DEF Answers
<1>12. Input'
  BY <1>1, <1>2, <1>6, <1>7 DEF Input
<1> QED BY <1>11, <1>12

LEMMA DeniedAnswers ==
    ASSUME RunInv, RO!Denied
    PROVE  Input' /\ Answers'
<1>1. RO!TypeOK /\ Input /\ Answers
  BY DEF RunInv
<1>2. /\ UNCHANGED <<yes, eof, typed, lines, reader, held, perms>> /\ perms = <<>>
      /\ reader = "over" /\ used' = Append(used, "Deny")
      /\ ~RO!TurnOver /\ ~RO!TurnOver'
  BY DEF RO!Denied, RO!TurnOver, RO!readVars
<1>3. ~yes
  BY <1>1, <1>2 DEF Input
<1>4. /\ Len(used) \in Nat /\ Len(perms) = 0 /\ Len(used') = Len(used) + 1
      /\ used'[Len(used) + 1] = "Deny" /\ \A n \in 1 .. Len(used) : used'[n] = used[n]
  BY <1>1, <1>2, Lengths, Added, NoneYet, WordsMean
<1>5. \A n : Expected(n)' = Expected(n) /\ Settled(n)' = Settled(n)
  BY <1>2, OthersKeep
<1>6. Taken' = Taken /\ Made' = Made + 1 /\ Made = Len(used)
  BY <1>2, <1>4 DEF Taken, Made
<1>7. /\ Taken >= 1 /\ Taken <= Len(used) + 1 /\ typed[Taken] = "not_text" /\ Taken \in Nat
  <2>1. Taken >= 1 /\ Taken <= Made + 1 /\ typed[Taken] = "not_text"
    BY <1>1, <1>2, <1>3 DEF Input
  <2>2. Taken \in Nat
    BY <1>1, Lengths DEF Input, Taken
  <2> QED BY <1>6, <2>1, <2>2
<1>8. ASSUME NEW n \in 1 .. Len(used')
      PROVE  used'[n] = Expected(n)' /\ Settled(n)'
  <2>1. CASE n \in 1 .. Len(used)
    BY <1>1, <1>4, <1>5, <2>1 DEF Answers
  <2>2. CASE n = Len(used) + 1
    <3>1. Taken \in 1 .. n
      BY <1>4, <1>7, <2>2
    <3>2. Expected(n) = "Deny"
      BY <1>3, <1>7, <3>1 DEF Expected
    <3>3. Settled(n)
      BY <1>7, <2>2 DEF Settled
    <3>4. Expected(n)' = Expected(n) /\ Settled(n)' = Settled(n)
      BY <1>5
    <3> QED BY <1>4, <2>2, <3>2, <3>3, <3>4
  <2> QED BY <1>4, <2>1, <2>2
<1>9. Answers'
  <2>1. \A j \in 1 .. Len(perms') : FALSE
    BY <1>2, <1>4
  <2> QED BY <1>2, <1>8, <2>1 DEF Answers
<1>10. Input'
  BY <1>1, <1>2, <1>3, <1>4, <1>6, <1>7 DEF Input
<1> QED BY <1>9, <1>10

(* The other steps leave lines and decisions alone.                        *)
LEMMA OtherAnswers ==
    ASSUME RunInv, UNCHANGED <<yes, typed, lines, used, perms, held>>,
           \/ eof' = eof /\ reader' = reader /\ (RO!TurnOver => RO!TurnOver')
           \/ eof' = TRUE /\ reader' = reader /\ turn' = turn
           \/ eof' = eof /\ reader = "sends" /\ reader' = "over" /\ RO!TurnOver /\ RO!TurnOver'
    PROVE  Input' /\ Answers'
<1>1. RO!TypeOK /\ Input /\ Answers
  BY DEF RunInv
<1>2. Taken' = Taken
  BY DEF Taken
<1>3. \A n : Expected(n)' = Expected(n) /\ (Settled(n) => Settled(n)')
  BY <1>2 DEF Expected, Settled
<1>4. reader' = reader => Made' = Made
  BY DEF Made
<1>5. Input'
  <2>1. CASE reader' = reader
    BY <1>1, <1>2, <1>4, <2>1 DEF Input, RO!TurnOver
  <2>2. CASE reader' = "over" /\ RO!TurnOver'
    BY <1>1, <1>2, <2>2 DEF Input
  <2> QED BY <2>1, <2>2
<1>6. ~yes /\ reader' = "sends" => held = Expected(Made)' /\ Settled(Made)'
  <2>1. PICK n : n = Made
    OBVIOUS
  <2>2. Expected(n)' = Expected(n) /\ (Settled(n) => Settled(n)')
    BY <1>3
  <2> QED BY <1>1, <1>4, <2>1, <2>2 DEF Answers
<1>7. \A j \in 1 .. Len(perms) : perms[j] = Expected(Len(used) + j)' /\ Settled(Len(used) + j)'
  <2>1. ASSUME NEW j \in 1 .. Len(perms), NEW n, n = Len(used) + j
        PROVE  perms[j] = Expected(n)' /\ Settled(n)'
    <3>1. Expected(n)' = Expected(n) /\ (Settled(n) => Settled(n)')
      BY <1>3
    <3> QED BY <1>1, <2>1, <3>1 DEF Answers
  <2> QED BY <2>1
<1>8. \A n \in 1 .. Len(used) : used[n] = Expected(n)' /\ Settled(n)'
  BY <1>1, <1>3 DEF Answers
<1> QED BY <1>5, <1>6, <1>7, <1>8 DEF Answers

LEMMA RunKeeps == ASSUME RO!RunConstants PROVE RunInv /\ [RO!Next]_runVars => RunInv'
<1> SUFFICES ASSUME RunInv, [RO!Next]_runVars PROVE RunInv'
  OBVIOUS
<1>1. RO!TypeOK' /\ Pieces'
  BY TypeStep, PiecesStep
<1>2. CASE \E word \in RO!Words : RO!Type(word)
  BY <1>1, <1>2, TypeAnswers DEF RunInv
<1>3. CASE RO!ReadLine \/ RO!SendDecision \/ RO!Decide \/ RO!Denied
  BY <1>1, <1>3, ReadAnswers, SendAnswers, DecideAnswers, DeniedAnswers DEF RunInv
<1>4. CASE \/ RO!Close \/ RO!ReaderEnds \/ RO!Say \/ RO!Ask \/ RO!EndTurn \/ RO!MainStep
           \/ UNCHANGED runVars
  <2>1. UNCHANGED <<yes, typed, lines, used, perms, held>>
    BY <1>4 DEF RO!Close, RO!ReaderEnds, RO!Say, RO!Ask, RO!EndTurn, RO!MainStep,
                RO!Collect, RO!Finish, RO!Exit, runVars, RO!turnVars, RO!readVars
  <2>2. \/ eof' = eof /\ reader' = reader /\ (RO!TurnOver => RO!TurnOver')
        \/ eof' = TRUE /\ reader' = reader /\ turn' = turn
        \/ eof' = eof /\ reader = "sends" /\ reader' = "over" /\ RO!TurnOver /\ RO!TurnOver'
    BY <1>4 DEF RO!Close, RO!ReaderEnds, RO!Say, RO!Ask, RO!EndTurn, RO!MainStep,
                RO!Collect, RO!Finish, RO!Exit, runVars, RO!turnVars, RO!readVars, RO!TurnOver
  <2> QED BY <1>1, <2>1, <2>2, OtherAnswers DEF RunInv
<1> QED BY <1>2, <1>3, <1>4 DEF RO!Next, RO!ReaderStep, RO!TurnStep

-----------------------------------------------------------------------------
(* The commands that watch keep their types.                               *)
LEMMA ForegroundInit == ASSUME FG!ForegroundConstants PROVE FG!Init => FG!TypeOK
<1> SUFFICES ASSUME FG!Init PROVE FG!TypeOK
  OBVIOUS
<1>1. asks \in BOOLEAN /\ due \in BOOLEAN
  BY Zenon DEF FG!Init
<1>2. forwarder \in {"receives", "sends", "over"}
  BY DEF FG!Init
<1> QED BY <1>1, <1>2, NoneYet DEF FG!Init, FG!TypeOK, FG!ForegroundConstants

LEMMA ForegroundKeeps ==
    ASSUME FG!ForegroundConstants PROVE FG!TypeOK /\ [FG!Next]_foregroundVars => FG!TypeOK'
<1> SUFFICES ASSUME FG!TypeOK, [FG!Next]_foregroundVars PROVE FG!TypeOK'
  OBVIOUS
<1>1. /\ WatchCap \in Nat /\ MaxChanges \in Nat /\ MaxPresses \in Nat
      /\ queue \in Seq({"batch", "shutdown"}) /\ Len(queue) <= WatchCap
      /\ bridge \in Seq({"batch"}) /\ Len(bridge) <= WatchCap
  BY DEF FG!ForegroundConstants, FG!TypeOK
<1>2. /\ Len(queue) \in Nat /\ Len(bridge) \in Nat
      /\ Append(queue, "batch") \in Seq({"batch", "shutdown"})
      /\ Append(queue, "shutdown") \in Seq({"batch", "shutdown"})
      /\ Append(bridge, "batch") \in Seq({"batch"})
      /\ Len(Append(queue, "batch")) = Len(queue) + 1
      /\ Len(Append(queue, "shutdown")) = Len(queue) + 1
      /\ Len(Append(bridge, "batch")) = Len(bridge) + 1
  BY <1>1, Added
<1>3. queue # <<>> => Tail(queue) \in Seq({"batch", "shutdown"}) /\ Len(Tail(queue)) <= WatchCap
  BY <1>1, <1>2, Taking
<1>4. bridge # <<>> => Tail(bridge) \in Seq({"batch"}) /\ Len(Tail(bridge)) <= WatchCap
  BY <1>1, <1>2, Taking
<1> USE DEF FG!loopVars, FG!watchVars
<1>5. CASE FG!Change \/ FG!CtrlC
  <2>1. CASE FG!Change
    BY <1>1, <2>1 DEF FG!Change, FG!TypeOK
  <2>2. CASE FG!CtrlC
    BY <1>1, <2>2 DEF FG!CtrlC, FG!TypeOK
  <2> QED BY <1>5, <2>1, <2>2
<1>6. CASE FG!WatchStep
  <2>1. CASE FG!Fire
    BY <2>1 DEF FG!Fire, FG!TypeOK
  <2>2. CASE FG!ThreadFails
    BY <2>2 DEF FG!ThreadFails, FG!TypeOK
  <2>3. CASE FG!ThreadSends
    <3>1. queue' \in Seq({"batch", "shutdown"}) /\ Len(queue') <= WatchCap
      BY <1>1, <1>2, <2>3 DEF FG!ThreadSends, FG!Room
    <3>2. bridge' \in Seq({"batch"}) /\ Len(bridge') <= WatchCap
      BY <1>1, <1>2, <2>3 DEF FG!ThreadSends
    <3> QED BY <2>3, <3>1, <3>2 DEF FG!ThreadSends, FG!TypeOK
  <2> QED BY <1>6, <2>1, <2>2, <2>3 DEF FG!WatchStep
<1>7. CASE FG!ForwardStep
  <2>1. CASE FG!Forward
    BY <1>4, <2>1 DEF FG!Forward, FG!TypeOK
  <2>2. CASE FG!ForwarderSends
    <3>1. queue' \in Seq({"batch", "shutdown"}) /\ Len(queue') <= WatchCap
      BY <1>1, <1>2, <2>2 DEF FG!ForwarderSends, FG!Room
    <3> QED BY <2>2, <3>1 DEF FG!ForwarderSends, FG!TypeOK
  <2> QED BY <1>7, <2>1, <2>2 DEF FG!ForwardStep
<1>8. CASE FG!SignalSends
  <2>1. queue' \in Seq({"batch", "shutdown"}) /\ Len(queue') <= WatchCap
    BY <1>1, <1>2, <1>8 DEF FG!SignalSends, FG!Room
  <2> QED BY <1>8, <2>1 DEF FG!SignalSends, FG!TypeOK
<1>9. CASE FG!LoopStep
  <2>1. queue' \in Seq({"batch", "shutdown"}) /\ Len(queue') <= WatchCap
    <3>1. CASE queue' = queue
      BY <1>1, <3>1
    <3>2. CASE queue # <<>> /\ queue' = Tail(queue)
      BY <1>3, <3>2
    <3>3. CASE queue' = <<>>
      BY <1>1, <3>3, NoneYet
    <3> QED BY <1>9, <3>1, <3>2, <3>3
            DEF FG!LoopStep, FG!Begin, FG!Shutdown, FG!Return, FG!Exit
  <2> QED BY <1>9, <2>1
          DEF FG!LoopStep, FG!Begin, FG!Shutdown, FG!Return, FG!Exit, FG!TypeOK
<1>10. CASE FG!Ask \/ FG!EndTurn
  BY <1>10 DEF FG!Ask, FG!EndTurn, FG!TypeOK
<1>11. CASE UNCHANGED foregroundVars
  BY <1>11 DEF foregroundVars, FG!TypeOK
<1> QED BY <1>5, <1>6, <1>7, <1>8, <1>9, <1>10, <1>11 DEF FG!Next

-----------------------------------------------------------------------------
(* The parts together: a step of one leaves the others alone.              *)
CommandsInv == part \in {"log", "foreground", "run"} /\ RunInv /\ FG!TypeOK

LEMMA CommandsInvInit == ASSUME CommandsConstants PROVE CommandsInit => CommandsInv
  BY RunInit, ForegroundInit DEF CommandsInit, CommandsInv, CommandsConstants

LEMMA CommandsInvStep ==
    ASSUME CommandsConstants
    PROVE  CommandsInv /\ [CommandsNext]_commandsVars => CommandsInv'
<1> SUFFICES ASSUME CommandsInv, [CommandsNext]_commandsVars PROVE CommandsInv'
  OBVIOUS
<1>1. /\ part' = part
      /\ RO!Next \/ UNCHANGED runVars
      /\ FG!Next \/ UNCHANGED foregroundVars
  BY DEF CommandsNext, LogStep, WatchStep, RunStep, commandsVars
<1>2. RunInv'
  BY <1>1, RunKeeps DEF CommandsInv, CommandsConstants
<1>3. FG!TypeOK'
  BY <1>1, ForegroundKeeps DEF CommandsInv, CommandsConstants
<1> QED BY <1>1, <1>2, <1>3 DEF CommandsInv

(* What becomes of the lines somebody types, of the decisions made of them *)
(* and of the text of the turn, whatever else is done.                     *)
THEOREM CommandsInvariant == ASSUME CommandsConstants PROVE CommandsSpec => []CommandsInv
  BY CommandsInvInit, CommandsInvStep, PTL DEF CommandsSpec

(* The n-th call that needs a decision gets that of the n-th line.         *)
THEOREM LinesAnswerCalls ==
    ASSUME CommandsConstants PROVE CommandsSpec => []RO!AnswersInOrder
<1>1. CommandsInv => RO!AnswersInOrder
  <2> SUFFICES ASSUME RunInv, NEW n \in DOMAIN used
               PROVE  used[n] = Expected(n)
    BY DEF CommandsInv, RO!AnswersInOrder, Expected
  <2>1. n \in 1 .. Len(used)
    BY Lengths DEF RunInv
  <2> QED BY <2>1 DEF RunInv, Answers
<1> QED BY <1>1, CommandsInvariant, PTL

(* The user is asked at most two calls ahead of the turn.                  *)
THEOREM ReaderIsAhead == ASSUME CommandsConstants PROVE CommandsSpec => []RO!TwoAhead
<1>1. CommandsInv => RO!TwoAhead
  <2> SUFFICES ASSUME RunInv, ~yes, reader # "over"
               PROVE  Taken <= Len(used) + Places + 1
    BY DEF CommandsInv, RO!TwoAhead, Taken
  <2>1. Taken <= Made
    BY DEF RunInv, Input
  <2>2. /\ Len(used) \in Nat /\ Len(perms) \in Nat /\ Len(perms) <= Places /\ Places \in Nat
        /\ Len(typed) \in Nat /\ Len(lines) \in Nat
    BY Lengths DEF RunInv, RO!RunConstants, CommandsConstants
  <2>3. Made <= Len(used) + Places + 1 /\ Made \in Nat /\ Taken \in Int
    BY <2>2 DEF Made, Taken
  <2> QED BY <2>1, <2>2, <2>3
<1> QED BY <1>1, CommandsInvariant, PTL

(* What is printed is all the turn has said, and the exit status is its.   *)
THEOREM PrintsAll == ASSUME CommandsConstants PROVE CommandsSpec => []RO!OutputIsWhole
<1>1. CommandsInv => RO!OutputIsWhole
  BY DEF CommandsInv, RunInv, Pieces
<1> QED BY <1>1, CommandsInvariant, PTL

(* The commands do what they say: types, lines, questions and output.      *)
THEOREM CommandsStayExact ==
    ASSUME CommandsConstants PROVE CommandsSpec => []CommandsAreExact
<1>1. CommandsInv /\ RO!AnswersInOrder /\ RO!TwoAhead => CommandsAreExact
  BY DEF CommandsInv, RunInv, Pieces, CommandsAreExact
<1> QED BY <1>1, CommandsInvariant, LinesAnswerCalls, ReaderIsAhead, PTL

(* The session log behaves as if it were alone, so that what is proved of  *)
(* it holds of the commands.                                               *)
THEOREM CommandsKeepLog == CommandsSpec => Spec
<1>1. CommandsInit => Init
  BY DEF CommandsInit
<1>2. [CommandsNext]_commandsVars => [Next]_logVars
  BY DEF CommandsNext, LogStep, WatchStep, RunStep, commandsVars
<1> QED BY <1>1, <1>2, PTL DEF CommandsSpec, Spec
=============================================================================
