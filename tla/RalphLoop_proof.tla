--------------------------- MODULE RalphLoop_proof ---------------------------
(***************************************************************************)
(* Proofs about RalphLoop, for any limits, event channel and turns, driven *)
(* by /ralph or by anvil run -a.  The invariant says what the loop knows   *)
(* of the turn at each of its places, what its tokens are bounded by while *)
(* nobody looks at the budget, and that a Ctrl+C within a turn keeps the   *)
(* loop at that turn until it is over.                                     *)
(***************************************************************************)
EXTENDS RalphLoop, TLAPS

-----------------------------------------------------------------------------
(* A turn of the ralph loop has returned before its events are received;   *)
(* the command is run after a turn that returned Ok.                       *)
Places ==
    /\ pc = "idle" => iteration = 0
    /\ pc \in {"idle", "limits"} => turn # "running"
    /\ pc = "drain" /\ caller = "ralph" => turn # "running"
    /\ pc = "verify" => turn = "ok"
    /\ outcome = "none" <=> pc # "over"

Bounds ==
    /\ iteration <= MaxIterations
    /\ iteration = 0 \/ tokens < MaxTokens + spent

Cut == \E k \in DOMAIN chan : chan[k] = "cancelled"

Cancels ==
    /\ token = "fired" => pressed # "no"
    /\ Cut => pressed # "no" \/ broken
    /\ pressed = "within" =>
          IF pc = "over" THEN outcome \notin Limits \cup {"passed"}
          ELSE pc \in {"await", "drain"} /\ token = "fired"

RalphInv == TypeOK /\ Places /\ Bounds /\ Cancels /\ OutcomeIsTrue

-----------------------------------------------------------------------------
(* The limit that is named is one that is reached.                         *)
LEMMA LimitIsReached == Reached # {} => check_limits \in Reached /\ check_limits \in Limits
  BY DEF check_limits, Reached, Limits

(* The event channel.                                                      *)
LEMMA Sent ==
    ASSUME NEW c \in Seq(Events), NEW e \in Events
    PROVE  /\ Append(c, e) \in Seq(Events) /\ Len(Append(c, e)) = Len(c) + 1
           /\ \A k \in DOMAIN Append(c, e) :
                 (k \in DOMAIN c /\ Append(c, e)[k] = c[k]) \/ Append(c, e)[k] = e
  OBVIOUS

LEMMA Received ==
    ASSUME NEW c \in Seq(Events), c # <<>>
    PROVE  /\ Tail(c) \in Seq(Events) /\ Len(Tail(c)) <= Len(c)
           /\ 1 \in DOMAIN c /\ Head(c) = c[1]
           /\ \A k \in DOMAIN Tail(c) : k + 1 \in DOMAIN c /\ Tail(c)[k] = c[k + 1]
  OBVIOUS

LEMMA NothingSent == <<>> \in Seq(Events) /\ Len(<<>>) = 0 /\ DOMAIN <<>> = {}
  OBVIOUS

-----------------------------------------------------------------------------
LEMMA RalphInit == ASSUME RalphConstants PROVE Init => RalphInv
<1> SUFFICES ASSUME Init PROVE RalphInv
  OBVIOUS
<1>1. TypeOK
  <2>1. late \in BOOLEAN /\ good \in BOOLEAN /\ broken \in BOOLEAN
    BY Zenon DEF Init
  <2>2. PerTurn \in Nat /\ MaxEvents \in Nat /\ Capacity \in Nat
    BY DEF RalphConstants
  <2> QED BY <2>1, <2>2, NothingSent DEF Init, TypeOK
<1>2. Bounds
  BY DEF RalphConstants, Init, Bounds
<1>3. ~Cut
  BY NothingSent DEF Init, Cut
<1> QED BY <1>1, <1>2, <1>3
        DEF Init, RalphInv, Places, Cancels, OutcomeIsTrue, Limits

LEMMA RalphStep == ASSUME RalphConstants PROVE RalphInv /\ [Next]_vars => RalphInv'
<1> SUFFICES ASSUME RalphInv, [Next]_vars PROVE RalphInv'
  OBVIOUS
<1>c. /\ MaxIterations \in Nat /\ MaxTokens \in Nat /\ MaxEvents \in Nat /\ PerTurn \in Nat
      /\ Earlier \subseteq Nat /\ Capacity \in Nat
  BY DEF RalphConstants
<1>t. TypeOK /\ Places /\ Bounds /\ Cancels /\ OutcomeIsTrue
  BY DEF RalphInv
<1> USE DEF turnVars, hist
<1>1. CASE Begin
  <2>1. tokens' \in Nat
    BY <1>c, <1>1 DEF Begin
  <2>2. UNCHANGED <<chan, outcome>> /\ outcome = "none"
    BY <1>t, <1>1 DEF Begin, Places
  <2>3. TypeOK'
    BY <1>t, <1>1, <2>1 DEF Begin, TypeOK
  <2>4. Places' /\ Bounds'
    BY <1>t, <1>1 DEF Begin, Places, Bounds
  <2>5. Cancels'
    BY <1>t, <1>1, <2>2 DEF Begin, Cancels, Cut
  <2>6. OutcomeIsTrue'
    BY <1>1, <2>2 DEF Begin, OutcomeIsTrue, Limits
  <2> QED BY <2>3, <2>4, <2>5, <2>6 DEF RalphInv
(* The loop is left with all but the outcome as it was.                    *)
<1>2. ASSUME NEW how \in Outcomes, Leave(how), Running,
             UNCHANGED <<caller, iteration, tokens, late, turn, spent, left, good, broken>>,
             chan' = chan \/ (chan' = Tail(chan) /\ chan # <<>>),
             pressed' \in {"no", "within", "between"},
             pressed # "no" => pressed' = pressed,
             how = "passed" => (good /\ turn = "ok" /\ pressed' # "within"),
             how \in Limits => (how \in Reached /\ pressed' # "within"),
             how = "cancelled" => pressed' # "no" \/ broken,
             turn # "running" \/ how = "killed"
      PROVE  RalphInv'
  <2>1. chan' \in Seq(Events) /\ Len(chan') <= Capacity /\ (Cut' => Cut)
    <3>1. chan \in Seq(Events) /\ Len(chan) <= Capacity
      BY <1>t DEF TypeOK
    <3>2. CASE chan' = chan
      BY <3>1, <3>2 DEF Cut
    <3>3. CASE chan' = Tail(chan) /\ chan # <<>>
      BY <1>c, <3>1, <3>3, Received DEF Cut
    <3> QED BY <1>2, <3>2, <3>3
  <2>2. pc' = "over" /\ outcome' = how /\ token' = "none" /\ how # "none"
    BY <1>2 DEF Leave, Outcomes, Limits
  <2>3. TypeOK'
    BY <1>t, <1>2, <2>1, <2>2 DEF TypeOK
  <2>4. Places' /\ Bounds'
    BY <1>t, <1>2, <2>2 DEF Places, Bounds
  <2>5. Cancels'
    BY <1>t, <1>2, <2>1, <2>2 DEF Cancels
  <2>6. how \in Limits => how \in Reached'
    BY <1>2 DEF Reached
  <2>7. OutcomeIsTrue'
    BY <1>2, <2>2, <2>6 DEF OutcomeIsTrue
  <2> QED BY <2>3, <2>4, <2>5, <2>7 DEF RalphInv
<1>3. CASE LimitReached
  <2>1. check_limits \in Reached /\ check_limits \in Limits
    BY <1>3, LimitIsReached DEF LimitReached
  <2>2. turn # "running" /\ pressed # "within"
    BY <1>t, <1>3 DEF LimitReached, Places, Cancels
  <2>3. pressed \in {"no", "within", "between"}
    BY <1>t DEF TypeOK
  <2>4. /\ Leave(check_limits) /\ Running /\ check_limits \in Outcomes
        /\ check_limits \notin {"passed", "cancelled"}
    BY <1>3, <2>1 DEF LimitReached, Running, Outcomes, Limits
  <2> HIDE DEF check_limits
  <2> QED BY <1>2, <1>3, <2>1, <2>2, <2>3, <2>4 DEF LimitReached
<1>4. CASE StartTurn
  <2>1. iteration < MaxIterations /\ tokens < MaxTokens
    <3>1. "iterations" \notin Reached /\ "tokens" \notin Reached
      BY <1>4 DEF StartTurn
    <3>2. iteration \in Nat /\ tokens \in Nat
      BY <1>t DEF TypeOK
    <3> QED BY <1>c, <3>1, <3>2 DEF Reached, Limits
  <2>2. TypeOK'
    <3>1. broken' \in BOOLEAN
      BY <1>4, Zenon DEF StartTurn
    <3>2. /\ UNCHANGED <<caller, tokens, late, good, outcome, pressed>>
          /\ iteration' \in Nat /\ turn' = "running" /\ left' \in 0 .. MaxEvents
          /\ spent' \in 0 .. PerTurn /\ chan' = <<>>
          /\ token' \in {"live", "none"} /\ pc' \in {"await", "drain"}
      BY <1>t, <1>c, <1>4 DEF StartTurn, TypeOK
    <3> QED BY <1>t, <1>c, <3>1, <3>2, NothingSent DEF TypeOK
  <2>3. Places'
    BY <1>t, <1>4 DEF StartTurn, Places
  <2>4. Bounds'
    BY <1>t, <1>c, <1>4, <2>1 DEF StartTurn, Bounds, TypeOK
  <2>5. Cancels'
    BY <1>t, <1>4, NothingSent DEF StartTurn, Cancels, Cut
  <2>6. OutcomeIsTrue'
    BY <1>t, <1>4 DEF StartTurn, Places, OutcomeIsTrue, Limits
  <2> QED BY <2>2, <2>3, <2>4, <2>5, <2>6 DEF RalphInv
(* Within the turn.                                                        *)
<1>5. ASSUME turn = "running",
             UNCHANGED <<caller, pc, iteration, late, token, outcome, pressed>>,
             tokens' \in Nat, spent' \in 0 .. PerTurn, left' \in 0 .. MaxEvents,
             \/ tokens' = tokens /\ spent' = spent
             \/ tokens' = tokens + 1 /\ spent' = spent + 1,
             turn' \in {"running", "ok", "error"}, good' \in BOOLEAN, broken' \in BOOLEAN,
             \/ chan' = chan /\ broken' = broken
             \/ Len(chan) < Capacity /\ chan' = Append(chan, "event") /\ broken' = broken
             \/ /\ Len(chan) < Capacity /\ chan' = Append(chan, "cancelled")
                /\ broken' = (token # "fired")
      PROVE  RalphInv'
  <2>1. chan \in Seq(Events) /\ Len(chan) \in Nat /\ Len(chan) <= Capacity
    BY <1>t DEF TypeOK
  <2>2. chan' \in Seq(Events) /\ Len(chan') <= Capacity
    <3>1. \A e \in Events :
             Append(chan, e) \in Seq(Events) /\ Len(Append(chan, e)) = Len(chan) + 1
      BY <2>1, Sent
    <3>2. CASE chan' = chan
      BY <2>1, <3>2
    <3>3. ASSUME NEW e \in Events, Len(chan) < Capacity, chan' = Append(chan, e)
          PROVE  chan' \in Seq(Events) /\ Len(chan') <= Capacity
      BY <1>c, <2>1, <3>1, <3>3
    <3>4. "event" \in Events /\ "cancelled" \in Events
      BY DEF Events
    <3> QED BY <1>5, <3>2, <3>3, <3>4
  <2>3. Cut' => pressed # "no" \/ broken'
    <3>1. CASE chan' = chan /\ broken' = broken
      BY <1>t, <3>1 DEF Cut, Cancels
    <3>2. CASE chan' = Append(chan, "event") /\ broken' = broken
      <4>1. Cut' => Cut
        BY <2>1, <3>2, Sent DEF Cut, Events
      <4> QED BY <1>t, <3>2, <4>1 DEF Cancels
    <3>3. CASE broken' = (token # "fired")
      BY <1>t, <3>3 DEF Cancels
    <3> QED BY <1>5, <3>1, <3>2, <3>3
  <2>4. TypeOK'
    BY <1>t, <1>5, <2>2 DEF TypeOK
  <2>5. Places'
    BY <1>t, <1>5 DEF Places
  <2>6. Bounds'
    <3>1. tokens \in Nat /\ spent \in Nat /\ MaxTokens \in Nat
      BY <1>t, <1>c DEF TypeOK
    <3>2. iteration' = iteration /\ iteration <= MaxIterations
      BY <1>t, <1>5 DEF Bounds
    <3>3. iteration = 0 \/ tokens < MaxTokens + spent
      BY <1>t DEF Bounds
    <3>4. tokens < MaxTokens + spent => tokens' < MaxTokens + spent'
      <4>1. CASE tokens' = tokens /\ spent' = spent
        BY <4>1
      <4>2. CASE tokens' = tokens + 1 /\ spent' = spent + 1
        BY <3>1, <4>2
      <4> QED BY <1>5, <4>1, <4>2
    <3> QED BY <3>2, <3>3, <3>4 DEF Bounds
  <2>7. Cancels'
    BY <1>t, <1>5, <2>3 DEF Cancels
  <2>8. OutcomeIsTrue'
    <3>1. outcome' \in {"none", "killed"}
      BY <1>t, <1>5 DEF Places, OutcomeIsTrue
    <3>2. pc' = "over" => outcome' = "killed"
      BY <1>t, <1>5 DEF OutcomeIsTrue
    <3> QED BY <3>1, <3>2 DEF OutcomeIsTrue, Limits
  <2> QED BY <2>4, <2>5, <2>6, <2>7, <2>8 DEF RalphInv
<1>6. CASE Spend
  <2>1. spent + 1 \in 0 .. PerTurn /\ tokens + 1 \in Nat
    BY <1>t, <1>c, <1>6 DEF Spend, TypeOK
  <2> QED BY <1>t, <1>5, <1>6, <2>1 DEF Spend, TypeOK
<1>7. CASE Work
  <2>1. good' \in BOOLEAN /\ broken' \in BOOLEAN
    <3>1. broken \in BOOLEAN
      BY <1>t DEF TypeOK
    <3> QED BY <1>7, <3>1, Zenon DEF Work
  <2>2. /\ turn = "running" /\ turn' = turn /\ tokens' \in Nat /\ spent' \in 0 .. PerTurn
        /\ left' \in 0 .. MaxEvents
        /\ UNCHANGED <<caller, pc, iteration, late, token, outcome, pressed, tokens, spent,
                       chan, broken>>
    BY <1>t, <1>7 DEF Work, TypeOK
  <2> QED BY <1>5, <2>1, <2>2
<1>8. CASE Emit
  <2>1. left' \in 0 .. MaxEvents
    BY <1>t, <1>c, <1>8 DEF Emit, TypeOK
  <2>2. good' \in BOOLEAN /\ broken' \in BOOLEAN
    BY <1>t, <1>8 DEF Emit, TypeOK
  <2>3. /\ turn = "running" /\ turn' = turn /\ tokens' \in Nat /\ spent' \in 0 .. PerTurn
        /\ UNCHANGED <<caller, pc, iteration, late, token, outcome, pressed, tokens, spent, broken>>
        /\ Len(chan) < Capacity /\ chan' = Append(chan, "event")
    BY <1>t, <1>8 DEF Emit, TypeOK
  <2> QED BY <1>5, <2>1, <2>2, <2>3
<1>9. ASSUME NEW how \in {"ok", "error"}, Return(how) PROVE RalphInv'
  <2>1. good' \in BOOLEAN /\ broken' \in BOOLEAN
    BY <1>t, <1>9 DEF Return, TypeOK
  <2>2. /\ turn = "running" /\ turn' \in {"ok", "error"} /\ tokens' \in Nat
        /\ spent' \in 0 .. PerTurn /\ left' \in 0 .. MaxEvents
        /\ UNCHANGED <<caller, pc, iteration, late, token, outcome, pressed, tokens, spent,
                       chan, broken>>
    BY <1>t, <1>9 DEF Return, TypeOK
  <2> QED BY <1>5, <2>1, <2>2
<1>10. CASE ReturnCancelled
  <2>1. good' \in BOOLEAN /\ broken' \in BOOLEAN
    <3>1. good \in BOOLEAN
      BY <1>t DEF TypeOK
    <3> QED BY <1>10, <3>1, Zenon DEF ReturnCancelled
  <2>2. /\ turn = "running" /\ turn' = "ok" /\ tokens' \in Nat
        /\ spent' \in 0 .. PerTurn /\ left' \in 0 .. MaxEvents
        /\ UNCHANGED <<caller, pc, iteration, late, token, outcome, pressed, tokens, spent>>
        /\ Len(chan) < Capacity /\ chan' = Append(chan, "cancelled")
    BY <1>t, <1>10 DEF ReturnCancelled, TypeOK
  <2>3. broken' = (token # "fired")
    BY <1>10 DEF ReturnCancelled
  <2> QED BY <1>5, <2>1, <2>2, <2>3
(* Between the turn and the command.                                       *)
<1>11. ASSUME UNCHANGED <<caller, iteration, tokens, late, turn, spent, left, token, good,
                          outcome, broken, pressed>>,
              chan' = chan \/ (chan' = Tail(chan) /\ chan # <<>>),
              pc # "over", pc' \in {"drain", "verify", "limits"},
              pc' = "limits" => turn # "running",
              (pc' = "drain" /\ caller = "ralph") => turn # "running",
              pc' = "verify" => turn = "ok",
              pressed = "within" => pc' = "drain"
       PROVE  RalphInv'
  <2>1. chan' \in Seq(Events) /\ Len(chan') <= Capacity /\ (Cut' => Cut)
    <3>1. chan \in Seq(Events) /\ Len(chan) <= Capacity
      BY <1>t DEF TypeOK
    <3>2. CASE chan' = chan
      BY <3>1, <3>2 DEF Cut
    <3>3. CASE chan' = Tail(chan) /\ chan # <<>>
      BY <1>c, <3>1, <3>3, Received DEF Cut
    <3> QED BY <1>11, <3>2, <3>3
  <2>2. outcome = "none"
    BY <1>t, <1>11 DEF Places
  <2>3. TypeOK'
    BY <1>t, <1>11, <2>1 DEF TypeOK
  <2>4. Places' /\ Bounds'
    BY <1>t, <1>11 DEF Places, Bounds
  <2>5. Cancels'
    BY <1>t, <1>11, <2>1 DEF Cancels
  <2>6. OutcomeIsTrue'
    BY <1>11, <2>2 DEF OutcomeIsTrue, Limits
  <2> QED BY <2>3, <2>4, <2>5, <2>6 DEF RalphInv
<1>12. CASE Awaited \/ Receive \/ TurnDone \/ VerifyFailed
  <2>1. /\ pc \in {"await", "drain", "verify"} /\ pc' \in {"drain", "verify", "limits"}
        /\ UNCHANGED <<caller, iteration, tokens, late, turn, spent, left, token, good,
                       outcome, broken, pressed>>
        /\ chan' = chan \/ (chan' = Tail(chan) /\ chan # <<>>)
    BY <1>12 DEF Awaited, Receive, TurnDone, VerifyFailed
  <2>2. pc' = "limits" => pc = "verify"
    BY <1>12 DEF Awaited, Receive, TurnDone, VerifyFailed
  <2>3. pc' = "drain" /\ caller = "ralph" => turn # "running"
    BY <1>t, <1>12 DEF Awaited, Receive, TurnDone, VerifyFailed, Places
  <2>4. pc' = "verify" => turn = "ok" /\ token # "fired"
    BY <1>12 DEF Awaited, Receive, TurnDone, VerifyFailed
  <2>5. pc = "verify" => turn = "ok"
    BY <1>t DEF Places
  <2>6. pressed = "within" => pc' = "drain"
    BY <1>t, <2>1, <2>2, <2>4 DEF Cancels
  <2> QED BY <1>11, <2>1, <2>2, <2>3, <2>4, <2>5, <2>6
<1>13. CASE ReceiveCancelled
  <2>1. Leave("cancelled") /\ pc = "drain" /\ caller = "ralph" /\ chan # <<>>
        /\ chan' = Tail(chan) /\ Head(chan) = "cancelled"
        /\ UNCHANGED <<caller, iteration, tokens, late, turn, spent, left, good, broken, pressed>>
    BY <1>13 DEF ReceiveCancelled
  <2>2. Cut
    <3>1. chan \in Seq(Events)
      BY <1>t DEF TypeOK
    <3> QED BY <2>1, <3>1, Received DEF Cut
  <2>3. turn # "running" /\ (pressed # "no" \/ broken)
    BY <1>t, <2>1, <2>2 DEF Places, Cancels
  <2>4. pressed \in {"no", "within", "between"}
    BY <1>t DEF TypeOK
  <2> QED BY <1>2, <2>1, <2>3, <2>4 DEF Running, Outcomes, Limits
<1>14. CASE TurnFailed \/ TurnCancelled
  <2>1. PICK how \in {"error", "cancelled"} :
           /\ Leave(how) /\ pc = "drain" /\ turn # "running"
           /\ how = "cancelled" => token = "fired"
    BY <1>14 DEF TurnFailed, TurnCancelled
  <2>2. UNCHANGED <<caller, iteration, tokens, late, turn, spent, left, chan,
                    good, broken, pressed>>
    BY <1>14 DEF TurnFailed, TurnCancelled
  <2>3. pressed \in {"no", "within", "between"} /\ (token = "fired" => pressed # "no")
    BY <1>t DEF TypeOK, Cancels
  <2> QED BY <1>2, <2>1, <2>2, <2>3 DEF Running, Outcomes, Limits
<1>15. CASE VerifyPassed
  <2>1. Leave("passed") /\ pc = "verify" /\ good
        /\ UNCHANGED <<caller, iteration, tokens, late, turn, spent, left, chan,
                       good, broken, pressed>>
    BY <1>15 DEF VerifyPassed
  <2>2. turn = "ok" /\ pressed # "within"
    BY <1>t, <2>1 DEF Places, Cancels
  <2>3. pressed \in {"no", "within", "between"}
    BY <1>t DEF TypeOK
  <2> QED BY <1>2, <2>1, <2>2, <2>3 DEF Running, Outcomes, Limits
<1>16. CASE TimePasses
  <2>1. /\ UNCHANGED <<caller, pc, iteration, tokens, turn, spent, left, chan, token, good,
                       outcome, broken, pressed>>
        /\ late' = TRUE /\ Running
    BY <1>16 DEF TimePasses
  <2>2. outcome = "none" \/ pc = "idle"
    BY <1>t, <2>1 DEF Running, Places
  <2>3. late' \in BOOLEAN
    BY <2>1
  <2>4. TypeOK'
    BY <1>t, <2>1, <2>3 DEF TypeOK
  <2>5. Places' /\ Bounds' /\ Cancels'
    BY <1>t, <2>1 DEF Places, Bounds, Cancels, Cut
  <2>6. OutcomeIsTrue'
    BY <1>t, <2>1, <2>2 DEF OutcomeIsTrue, Limits, Places, Running
  <2> QED BY <2>4, <2>5, <2>6 DEF RalphInv
<1>17. CASE CtrlC
  <2>1. /\ Running /\ UNCHANGED <<caller, iteration, tokens, late, turn, spent, left, chan,
                                  good, broken>>
        /\ pressed' = IF pressed # "no" THEN pressed
                      ELSE IF pc \in {"await", "drain"} THEN "within" ELSE "between"
    BY <1>17 DEF CtrlC
  <2>2. pressed' \in {"no", "within", "between"}
    BY <1>t, <2>1 DEF TypeOK
  <2>3. CASE token = "live"
    <3>1. token' = "fired" /\ UNCHANGED <<pc, outcome>>
      BY <1>17, <2>3 DEF CtrlC
    <3>2. outcome = "none"
      BY <1>t, <2>1 DEF Running, Places
    <3>3. TypeOK'
      BY <1>t, <2>1, <2>2, <3>1 DEF TypeOK
    <3>4. Places' /\ Bounds'
      BY <1>t, <2>1, <3>1 DEF Places, Bounds
    <3>5. Cancels'
      BY <1>t, <2>1, <2>3, <3>1 DEF Cancels, Cut, Running
    <3>6. OutcomeIsTrue'
      BY <1>t, <2>1, <3>1, <3>2 DEF OutcomeIsTrue, Limits, Running
    <3> QED BY <3>3, <3>4, <3>5, <3>6 DEF RalphInv
  <2>4. CASE token # "live"
    <3>1. Leave("killed")
      BY <1>17, <2>4 DEF CtrlC
    <3> QED BY <1>2, <2>1, <2>2, <3>1 DEF Outcomes, Limits
  <2> QED BY <2>3, <2>4
<1>18. CASE Over \/ UNCHANGED vars
  BY <1>t, <1>18
     DEF Over, vars, RalphInv, TypeOK, Places, Bounds, Cancels, Cut, OutcomeIsTrue, Reached
<1> HIDE DEF RalphInv
<1> QED
  BY <1>1, <1>3, <1>4, <1>6, <1>7, <1>8, <1>9, <1>10, <1>12, <1>13, <1>14, <1>15, <1>16,
     <1>17, <1>18
     DEF Next, LoopStep, TurnStep

-----------------------------------------------------------------------------
(* What the loop knows of the turn, its tokens and its cancellation.       *)
THEOREM RalphInvariant == ASSUME RalphConstants PROVE Spec => []RalphInv
  BY RalphInit, RalphStep, PTL DEF Spec

THEOREM RalphTypeCorrect == ASSUME RalphConstants PROVE Spec => []TypeOK
<1>1. RalphInv => TypeOK
  BY DEF RalphInv
<1> QED BY <1>1, RalphInvariant, PTL

(* Never more turns than allowed, never more tokens than the budget and    *)
(* one turn more.                                                          *)
THEOREM LoopIsBounded == ASSUME RalphConstants PROVE Spec => []LimitsBound
<1>1. RalphInv => LimitsBound
  <2> SUFFICES ASSUME RalphInv, iteration # 0
               PROVE  tokens < MaxTokens + PerTurn
    BY DEF RalphInv, Bounds, LimitsBound
  <2>1. /\ tokens \in Nat /\ spent \in Nat /\ spent <= PerTurn
        /\ MaxTokens \in Nat /\ PerTurn \in Nat
    BY DEF RalphInv, TypeOK, RalphConstants
  <2>2. tokens < MaxTokens + spent
    BY DEF RalphInv, Bounds
  <2> QED BY <2>1, <2>2
<1> QED BY <1>1, RalphInvariant, PTL

(* The loop reports what happened.                                         *)
THEOREM LoopReports == ASSUME RalphConstants PROVE Spec => []OutcomeIsTrue
<1>1. RalphInv => OutcomeIsTrue
  BY DEF RalphInv
<1> QED BY <1>1, RalphInvariant, PTL

(* After a Ctrl+C within a turn no further turn begins, and the loop does  *)
(* not claim a success or a limit.                                         *)
THEOREM LoopHears == ASSUME RalphConstants PROVE Spec => CancelIsHeard
<1>1. RalphInv /\ RalphInv' /\ [Next]_vars =>
         [pressed = "within" => (iteration' = iteration
                                   /\ outcome' \notin Limits \cup {"passed"})]_vars
  <2> SUFFICES ASSUME RalphInv, RalphInv', Next, pressed = "within"
               PROVE  iteration' = iteration /\ outcome' \notin Limits \cup {"passed"}
    BY DEF vars
  <2>1. pc \in {"await", "drain", "over"}
    BY DEF RalphInv, Cancels
  <2>2. pressed' = "within" /\ iteration' = iteration
    BY <2>1
       DEF Next, Begin, LoopStep, TurnStep, LimitReached, StartTurn, Awaited, Receive,
           ReceiveCancelled, TurnFailed, TurnCancelled, TurnDone, VerifyPassed, VerifyFailed,
           Spend, Work, Emit, Return, ReturnCancelled, TimePasses, CtrlC, Over, hist, vars
  <2>3. CASE pc' = "over"
    BY <2>2, <2>3 DEF RalphInv, Cancels
  <2>4. CASE pc' # "over"
    <3>1. outcome' = "none"
      BY <2>4 DEF RalphInv, Places
    <3> QED BY <2>2, <3>1 DEF Limits
  <2> QED BY <2>2, <2>3, <2>4
<1> QED BY <1>1, RalphInvariant, PTL DEF Spec, CancelIsHeard
=============================================================================
