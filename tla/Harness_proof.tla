---------------------------- MODULE Harness_proof ----------------------------
(***************************************************************************)
(* Proofs about Harness, for any limits of its configuration and any plan. *)
(* What it promises is a statement about files at the end of a run: the    *)
(* status in state.toml, and the documents a generator was given.  The     *)
(* invariant says at each place of the loops what these files hold         *)
(* already, which sprints and attempts are behind, and what the run may    *)
(* have spent by then.                                                     *)
(***************************************************************************)
EXTENDS Harness, TLAPS

-----------------------------------------------------------------------------
Planning   == {"plan", "planner", "planner_turn"}
Generating == {"generate", "generator", "generator_turn"}
Evaluating == {"evaluate", "evaluator", "evaluator_turn"}
Trying     == {"attempt"} \cup Generating \cup Evaluating

(* How many sprints of the plan are carried out.                           *)
Count == Min({state.total, MaxSprints})

(* Where the loops stand, in memory and on disk.  The command /harness     *)
(* cancel may have written its status into the file of a run that goes on. *)
Progress ==
    /\ pc \in Planning => disk = NoState /\ passed = <<>> /\ handoff = NoDoc
    /\ pc \in Trying \cup {"sprint"} =>
         /\ state.status = "running" /\ disk.status \in {"running", "cancelled"}
         /\ Len(passed) = i /\ i <= Count
    /\ pc \in Trying => i < Count /\ state.sprint = i
    /\ pc = "attempt" => attempt = 1 \/ state.attempt = attempt - 1
    /\ pc \in Generating \cup Evaluating =>
         attempt <= MaxAttempts /\ state.attempt = attempt
    /\ pc \in {"generator", "generator_turn"} => turns < TurnLimit

(* The documents of the attempt before this one.                           *)
SprintBefore == IF i > 0 THEN <<i - 1, passed[i]>> ELSE NoDoc
LastHandOff  == IF attempt > 1 THEN <<i, attempt - 1>> ELSE SprintBefore
LastEval     == IF attempt > 1 THEN <<i, attempt - 1>> ELSE NoDoc

Feedback ==
    /\ pc = "sprint" => handoff = SprintBefore
    /\ pc = "attempt" => handoff = LastHandOff /\ (attempt > 1 => eval = LastEval)
    /\ pc \in Generating => fed = <<LastHandOff, LastEval>>
    /\ pc \in Evaluating => handoff = <<i, attempt>>

(* What a run may have spent when it has made this many attempts at a      *)
(* sprint: an attempt costs at most the generator's turns and the          *)
(* evaluator's.                                                            *)
AttemptCost == (TurnLimit + 1) * PerTurn
Allowed(attempts) == Max({MaxTokens, PerTurn}) + attempts * AttemptCost

Budget ==
    /\ state.tokens <= Allowed(MaxAttempts)
    /\ pc \in {"attempt"} \cup Generating => state.tokens <= Allowed(attempt - 1)
    /\ pc \in Evaluating => state.tokens <= Allowed(attempt - 1) + TurnLimit * PerTurn

(* The turn begun after Ctrl+C is the last one.                            *)
Late ==
    /\ lateTurns \in {0, 1}
    /\ lateTurns = 1 => token /\ pc \notin {"planner", "generator", "evaluator"}

HarnessInv ==
    TypeOK /\ Progress /\ Feedback /\ Budget /\ Late /\ StatusIsTrue /\ EndIsRecorded

-----------------------------------------------------------------------------
(* The smaller and the larger of two numbers.                              *)
LEMMA Smaller ==
    ASSUME NEW a \in Nat, NEW b \in Nat
    PROVE  Min({a, b}) \in Nat /\ Min({a, b}) <= a /\ Min({a, b}) <= b
<1> DEFINE Least(n) == n \in {a, b} /\ \A m \in {a, b} : n =< m
<1>1. \E n : Least(n)
  <2>1. CASE a <= b
    BY <2>1
  <2>2. CASE b < a
    BY <2>2
  <2> QED BY <2>1, <2>2
<1>2. Min({a, b}) = CHOOSE n : Least(n)
  BY DEF Min
<1>3. Least(Min({a, b}))
  BY <1>1, <1>2
<1> QED BY <1>3

LEMMA Larger ==
    ASSUME NEW a \in Nat, NEW b \in Nat
    PROVE  Max({a, b}) \in Nat /\ a <= Max({a, b}) /\ b <= Max({a, b})
<1> DEFINE Most(n) == n \in {a, b} /\ \A m \in {a, b} : n >= m
<1>1. \E n : Most(n)
  <2>1. CASE a <= b
    BY <2>1
  <2>2. CASE b < a
    BY <2>2
  <2> QED BY <2>1, <2>2
<1>2. Max({a, b}) = CHOOSE n : Most(n)
  BY DEF Max
<1>3. Most(Max({a, b}))
  BY <1>1, <1>2
<1> QED BY <1>3

(* The sprints carried out are sprints of the plan.                        *)
LEMMA CountOfPlan ==
    ASSUME HarnessConstants, state \in States
    PROVE  /\ Count \in Nat /\ Count <= MaxPlan /\ Count <= state.total
           /\ \A n \in Nat : n \in Sprints <=> n < Count
<1>1. state.total \in 1 .. MaxPlan /\ MaxPlan \in Nat /\ MaxSprints \in Nat
  BY DEF States, HarnessConstants
<1>2. Count \in Nat /\ Count <= state.total
  BY <1>1, Smaller DEF Count
<1>3. Sprints = 0 .. Count - 1
  BY DEF Sprints, Count
<1> QED BY <1>1, <1>2, <1>3

(* What may be spent grows with every attempt by what an attempt costs.    *)
LEMMA Times ==
    ASSUME NEW a \in Nat, NEW b \in Nat
    PROVE  a * b \in Nat
  OBVIOUS

LEMMA Grows ==
    ASSUME NEW a \in Nat, NEW b \in Nat, NEW c \in Nat, a <= b
    PROVE  a * c <= b * c
<1>1. PICK d \in Nat : b = a + d
  <2>1. b - a \in Nat /\ b = a + (b - a)
    OBVIOUS
  <2> QED BY <2>1
<1>2. b * c = a * c + d * c
  BY <1>1
<1>3. a * c \in Nat /\ b * c \in Nat /\ d * c \in Nat
  BY <1>1, Times
<1> QED BY <1>2, <1>3

LEMMA Costs ==
    ASSUME HarnessConstants
    PROVE  /\ AttemptCost \in Nat /\ TurnLimit * PerTurn \in Nat
           /\ AttemptCost = TurnLimit * PerTurn + PerTurn
           /\ MaxAttempts * (TurnLimit + 1) * PerTurn = MaxAttempts * AttemptCost
           /\ \A t \in 0 .. TurnLimit : t * PerTurn <= TurnLimit * PerTurn
<1>1. TurnLimit \in Nat /\ PerTurn \in Nat /\ MaxAttempts \in Nat
  BY DEF HarnessConstants
<1>2. AttemptCost \in Nat /\ TurnLimit * PerTurn \in Nat
  <2>1. TurnLimit + 1 \in Nat
    BY <1>1
  <2> QED BY <1>1, <2>1, Times DEF AttemptCost
<1>3. AttemptCost = TurnLimit * PerTurn + PerTurn
  BY <1>1 DEF AttemptCost
<1>4. MaxAttempts * (TurnLimit + 1) * PerTurn = MaxAttempts * AttemptCost
  BY <1>1 DEF AttemptCost
<1>5. ASSUME NEW t \in 0 .. TurnLimit PROVE t * PerTurn <= TurnLimit * PerTurn
  BY <1>1, Grows
<1> QED BY <1>2, <1>3, <1>4, <1>5

LEMMA Allowance ==
    ASSUME HarnessConstants
    PROVE  /\ MaxTokens <= Allowed(0) /\ PerTurn <= Allowed(0)
           /\ \A a \in Nat : Allowed(a) \in Nat /\ Allowed(a + 1) = Allowed(a) + AttemptCost
           /\ \A a, b \in Nat : a <= b => Allowed(a) <= Allowed(b)
<1> DEFINE M == Max({MaxTokens, PerTurn})
<1>1. M \in Nat /\ MaxTokens <= M /\ PerTurn <= M
  <2>1. MaxTokens \in Nat /\ PerTurn \in Nat
    BY DEF HarnessConstants
  <2> QED BY <2>1, Larger
<1>2. AttemptCost \in Nat
  BY Costs
<1>3. \A a : Allowed(a) = M + a * AttemptCost
  BY DEF Allowed
<1>4. MaxTokens \in Nat /\ PerTurn \in Nat
  BY DEF HarnessConstants
<1> HIDE DEF M
<1>5. Allowed(0) = M
  BY <1>1, <1>2, <1>3
<1>6. ASSUME NEW a \in Nat
      PROVE  Allowed(a) \in Nat /\ Allowed(a + 1) = Allowed(a) + AttemptCost
  <2>1. a * AttemptCost \in Nat
    BY <1>2, Times
  <2>2. (a + 1) * AttemptCost = a * AttemptCost + AttemptCost
    BY <1>2
  <2> QED BY <1>1, <1>2, <1>3, <2>1, <2>2
<1>7. ASSUME NEW a \in Nat, NEW b \in Nat, a <= b PROVE Allowed(a) <= Allowed(b)
  <2>1. a * AttemptCost <= b * AttemptCost
    BY <1>2, <1>7, Grows
  <2>2. a * AttemptCost \in Nat /\ b * AttemptCost \in Nat
    BY <1>2, Times
  <2> QED BY <1>1, <1>3, <2>1, <2>2
<1> QED BY <1>1, <1>5, <1>6, <1>7

-----------------------------------------------------------------------------
LEMMA HarnessInit == ASSUME HarnessConstants PROVE Init => HarnessInv
<1> SUFFICES ASSUME Init PROVE HarnessInv
  OBVIOUS
<1>c. /\ MaxSprints \in Nat /\ MaxAttempts \in Nat /\ MaxTokens \in Nat /\ TurnLimit \in Nat
      /\ PerTurn \in Nat /\ MaxRuns \in Nat /\ MaxPlan \in Nat \ {0}
  BY DEF HarnessConstants
<1>1. TypeOK
  <2>1. state \in States /\ disk = NoState
    BY <1>c DEF Init, NewState, States, Statuses
  <2>2. sprintDone \in BOOLEAN /\ token \in BOOLEAN /\ late \in BOOLEAN
    BY Zenon DEF Init
  <2>3. passed \in Seq(1 .. MaxAttempts) /\ fed \in Docs \X Docs
    BY DEF Init, Docs
  <2> QED BY <1>c, <2>1, <2>2, <2>3 DEF Init, TypeOK, Docs
<1>2. Progress /\ Feedback /\ Late /\ EndIsRecorded
  BY DEF Init, Progress, Feedback, Late, EndIsRecorded, Planning, Trying, Generating,
         Evaluating
<1>3. Budget
  <2>1. state.tokens = 0 /\ pc = "idle"
    BY DEF Init, NewState
  <2>2. Allowed(MaxAttempts) \in Nat
    BY <1>c, Allowance
  <2> QED BY <2>1, <2>2 DEF Budget, Generating, Evaluating
<1>4. StatusIsTrue
  BY DEF Init, NoState, StatusIsTrue
<1> QED BY <1>1, <1>2, <1>3, <1>4 DEF HarnessInv

LEMMA HarnessStep == ASSUME HarnessConstants PROVE HarnessInv /\ [Next]_vars => HarnessInv'
<1> SUFFICES ASSUME HarnessInv, [Next]_vars PROVE HarnessInv'
  OBVIOUS
<1>c. /\ MaxSprints \in Nat /\ MaxAttempts \in Nat /\ MaxTokens \in Nat /\ TurnLimit \in Nat
      /\ PerTurn \in Nat /\ MaxRuns \in Nat /\ MaxPlan \in Nat \ {0}
  BY DEF HarnessConstants
<1>t. TypeOK /\ Progress /\ Feedback /\ Budget /\ Late /\ StatusIsTrue /\ EndIsRecorded
  BY DEF HarnessInv
<1>s. /\ state \in States /\ state.tokens \in Nat /\ i \in Nat /\ attempt \in Nat \ {0}
      /\ turns \in Nat /\ passed \in Seq(1 .. MaxAttempts) /\ Len(passed) \in Nat
  BY <1>c, <1>t DEF TypeOK, States
<1>n. /\ Count \in Nat /\ Count <= MaxPlan /\ Count <= state.total
      /\ \A n \in Nat : n \in Sprints <=> n < Count
  BY <1>s, CountOfPlan
<1>a. /\ MaxTokens <= Allowed(0) /\ PerTurn <= Allowed(0)
      /\ \A a \in Nat : Allowed(a) \in Nat /\ Allowed(a + 1) = Allowed(a) + AttemptCost
      /\ \A a, b \in Nat : a <= b => Allowed(a) <= Allowed(b)
  BY Allowance
<1> USE DEF docVars, loopVars, histVars
(* A run begins: nothing is left of an earlier one.                        *)
<1>1. ASSUME Begin, resumedAt' \in 0 .. MaxPlan PROVE HarnessInv'
  <2>1. /\ pc' = "plan" /\ result' = "none" /\ disk' = NoState
        /\ handoff' = NoDoc /\ passed' = <<>> /\ lateTurns' = 0
        /\ UNCHANGED <<state, loopVars>>
    BY <1>1 DEF Begin
  <2>2. TypeOK'
    <3>1. token' \in BOOLEAN /\ late' \in BOOLEAN
      BY <1>1, Zenon DEF Begin
    <3>2. passed' \in Seq(1 .. MaxAttempts) /\ fed' \in Docs \X Docs
      BY <1>1 DEF Begin, Docs
    <3>3. runs' \in 0 .. MaxRuns /\ handoff' \in Docs /\ eval' \in Docs
      BY <1>c, <1>t, <1>1 DEF Begin, TypeOK, Docs
    <3> QED BY <1>t, <1>1, <2>1, <3>1, <3>2, <3>3 DEF TypeOK
  <2>3. Progress' /\ Feedback' /\ Late' /\ EndIsRecorded'
    BY <2>1 DEF Progress, Feedback, Late, EndIsRecorded, Planning, Trying, Generating,
                Evaluating
  <2>4. Budget'
    BY <1>t, <2>1 DEF Budget, Allowed, AttemptCost, Generating, Evaluating
  <2>5. StatusIsTrue'
    BY <2>1 DEF StatusIsTrue, NoState
  <2> QED BY <2>2, <2>3, <2>4, <2>5 DEF HarnessInv
(* A step within a phase of a run.                                         *)
<1>2. ASSUME UNCHANGED <<result, state, disk, docVars, loopVars, token, late, runs, passed,
                         fed, resumedAt>>,
             Late',
             \/ pc \in Planning /\ pc' \in Planning
             \/ /\ pc \in Generating /\ pc' \in Generating
                /\ pc' \in {"generator", "generator_turn"} => turns < TurnLimit
             \/ pc \in Evaluating /\ pc' \in Evaluating
      PROVE  HarnessInv'
  <2>1. TypeOK'
    <3>1. lateTurns' \in Nat
      BY <1>2 DEF Late
    <3>2. pc' \in Planning \cup Generating \cup Evaluating
      BY <1>2
    <3> QED BY <1>t, <1>2, <3>1, <3>2 DEF TypeOK, Planning, Generating, Evaluating, TurnPlaces
  <2>2. Progress'
    BY <1>t, <1>2 DEF Progress, Count, Planning, Trying, Generating, Evaluating
  <2>3. Feedback'
    BY <1>t, <1>2 DEF Feedback, LastHandOff, LastEval, SprintBefore, Planning, Generating,
                      Evaluating
  <2>4. Budget'
    BY <1>t, <1>2 DEF Budget, Allowed, AttemptCost, Planning, Generating, Evaluating
  <2>5. StatusIsTrue' /\ EndIsRecorded'
    BY <1>t, <1>2 DEF StatusIsTrue, EndIsRecorded, Planning, Generating, Evaluating
  <2> QED BY <1>2, <2>1, <2>2, <2>3, <2>4, <2>5 DEF HarnessInv
(* A run ends, and its status is written.                                  *)
<1>3. ASSUME NEW status \in Statuses \ {"running"}, Finish(status),
             UNCHANGED <<docVars, loopVars, token, late, runs, histVars>>,
             pc \in Trying \cup {"sprint"},
             status = "completed" => i >= Count,
             status = "failed" =>
                /\ i < Count
                /\ \/ state.sprint = i /\ state.attempt = MaxAttempts
                   \/ MaxAttempts = 0 \/ state.tokens >= MaxTokens \/ late
      PROVE  HarnessInv'
  <2>1. /\ pc' = "over" /\ result' = "ok" /\ disk' = state'
        /\ state' = [state EXCEPT !.status = status]
    BY <1>3 DEF Finish, Save, Return
  <2>2. /\ state' \in States /\ state'.status = status /\ state'.total = state.total
        /\ state'.sprint = state.sprint /\ state'.attempt = state.attempt
        /\ state'.tokens = state.tokens
    BY <1>s, <2>1 DEF States
  <2>3. TypeOK'
    BY <1>t, <1>3, <2>1, <2>2 DEF TypeOK
  <2>4. Progress' /\ Feedback'
    BY <2>1 DEF Progress, Feedback, Planning, Trying, Generating, Evaluating
  <2>5. Budget' /\ Late'
    BY <1>t, <1>3, <2>1, <2>2 DEF Budget, Allowed, AttemptCost, Late, Generating, Evaluating
  <2>6. StatusIsTrue'
    <3>1. Len(passed) = i /\ i <= Count /\ i \in Nat /\ Count \in Nat
      BY <1>t, <1>3, <1>s, <1>n DEF Progress
    <3>2. Min({state.total, MaxSprints}) = Count
      BY DEF Count
    <3> QED BY <1>3, <2>1, <2>2, <3>1, <3>2 DEF StatusIsTrue
  <2>7. EndIsRecorded'
    BY <2>1, <2>2 DEF EndIsRecorded, Statuses
  <2> QED BY <2>3, <2>4, <2>5, <2>6, <2>7 DEF HarnessInv
(* A run is left, or lost, and nothing more is written.                    *)
<1>4. ASSUME pc' \in {"over", "idle", "hung"}, result' \in {"none", "ok", "error"},
             pc' = "over" /\ result' = "ok" => disk' = NoState /\ token,
             disk' \in {disk, NoState},
             UNCHANGED <<state, docVars, loopVars, token, late, runs, histVars>>
      PROVE  HarnessInv'
  <2>1. TypeOK'
    BY <1>t, <1>4 DEF TypeOK
  <2>2. Progress' /\ Feedback' /\ EndIsRecorded'
    BY <1>4 DEF Progress, Feedback, EndIsRecorded, Planning, Trying, Generating, Evaluating
  <2>3. Budget' /\ Late'
    BY <1>t, <1>4 DEF Budget, Allowed, AttemptCost, Late, Generating, Evaluating
  <2>4. StatusIsTrue'
    <3>1. CASE disk' = disk
      BY <1>t, <1>4, <3>1 DEF StatusIsTrue
    <3>2. CASE disk' = NoState
      BY <3>2 DEF StatusIsTrue, NoState
    <3> QED BY <1>4, <3>1, <3>2
  <2> QED BY <2>1, <2>2, <2>3, <2>4 DEF HarnessInv
<1>5. CASE Start \/ Resume
  <2>1. Start => Begin /\ resumedAt' \in 0 .. MaxPlan
    BY <1>c DEF Start
  <2>2. Resume => Begin /\ resumedAt' \in 0 .. MaxPlan
    <3>1. Resume => disk # NoState
      BY DEF Resume, NoState
    <3> QED BY <1>t, <3>1 DEF Resume, TypeOK, States
  <2> QED BY <1>1, <1>5, <2>1, <2>2
<1>6. CASE Plan \/ GeneratorNext \/ Evaluate
  <2>1. lateTurns' = lateTurns /\ token' = token /\ ~token
    BY <1>6 DEF Plan, GeneratorNext, GeneratorGoesOn, Evaluate
  <2>2. Late'
    BY <1>t, <2>1 DEF Late
  <2> QED BY <1>2, <1>6, <2>2 DEF Plan, GeneratorNext, GeneratorGoesOn, Evaluate, Planning,
              Generating, Evaluating
<1>7. CASE PlannerTurn \/ GeneratorTurn \/ EvaluatorTurn
  <2>1. /\ lateTurns' = IF token THEN lateTurns + 1 ELSE lateTurns
        /\ token' = token /\ pc \in {"planner", "generator", "evaluator"}
        /\ pc' \in {"planner_turn", "generator_turn", "evaluator_turn"}
    BY <1>7 DEF PlannerTurn, GeneratorTurn, EvaluatorTurn, BeginTurn
  <2>2. Late'
    BY <1>t, <2>1 DEF Late
  <2>3. pc = "generator" => turns < TurnLimit
    BY <1>t DEF Progress
  <2> QED BY <1>2, <1>7, <2>2, <2>3 DEF PlannerTurn, GeneratorTurn, EvaluatorTurn, BeginTurn,
              Planning, Generating, Evaluating
<1>8. CASE SprintsDone \/ SprintCancelled \/ OutOfBudget
  <2>1. pc = "sprint" /\ (i \in Sprints <=> i < Count)
    BY <1>s, <1>n, <1>8 DEF SprintsDone, SprintCancelled, OutOfBudget
  <2>2. CASE SprintsDone
    BY <1>3, <1>s, <1>n, <2>1, <2>2 DEF SprintsDone, Statuses
  <2>3. CASE SprintCancelled
    BY <1>3, <2>1, <2>3 DEF SprintCancelled, Statuses
  <2>4. CASE OutOfBudget
    BY <1>3, <2>1, <2>4 DEF OutOfBudget, Statuses
  <2> QED BY <1>8, <2>2, <2>3, <2>4
<1>9. CASE AttemptsUsedUp
  <2>1. pc = "attempt" /\ attempt > MaxAttempts /\ attempt <= MaxAttempts + 1
    BY <1>c, <1>t, <1>9 DEF AttemptsUsedUp, TypeOK
  <2>2. i < Count /\ state.sprint = i /\ (attempt = 1 \/ state.attempt = attempt - 1)
    BY <1>t, <2>1 DEF Progress, Trying
  <2>3. state.attempt = MaxAttempts \/ MaxAttempts = 0
    BY <1>c, <1>s, <2>1, <2>2
  <2> QED BY <1>3, <1>9, <2>1, <2>2, <2>3 DEF AttemptsUsedUp, Trying, Statuses
<1>10. CASE AttemptCancelled \/ EvaluationCancelled
  BY <1>3, <1>10 DEF AttemptCancelled, EvaluationCancelled, Trying, Evaluating, Statuses
<1>11. CASE PlanCancelled
  <2>1. disk = NoState
    BY <1>t, <1>11 DEF PlanCancelled, Progress, Planning
  <2> QED BY <1>4, <1>11, <2>1 DEF PlanCancelled, Return
<1>12. CASE Fail
  BY <1>4, <1>12 DEF Fail, Return
<1>13. CASE Hang
  BY <1>t, <1>4, <1>13 DEF Hang, TypeOK
<1>14. CASE Crash
  BY <1>4, <1>14 DEF Crash
<1>15. ASSUME NEW total \in 1 .. MaxPlan, NEW cost \in 0 .. PerTurn, Planned(total, cost)
       PROVE  HarnessInv'
  <2>1. pc = "planner_turn" /\ disk = NoState /\ passed = <<>> /\ handoff = NoDoc
    BY <1>t, <1>15 DEF Planned, Progress, Planning
  <2>2. CASE token
    BY <1>4, <1>15, <2>1, <2>2 DEF Planned, Return
  <2>3. CASE ~token
    <3>1. /\ pc' = "sprint" /\ i' = 0 /\ state' = NewState(total, cost) /\ disk' = state'
          /\ UNCHANGED <<attempt, turns, sprintDone, docVars, token, late, runs, histVars,
                         result>>
      BY <1>15, <2>3 DEF Planned, Save
    <3>2. /\ state' \in States /\ state'.status = "running" /\ state'.tokens = cost
          /\ state'.total = total
      BY <1>c, <3>1 DEF NewState, States, Statuses
    <3>3. TypeOK'
      BY <1>c, <1>t, <3>1, <3>2 DEF TypeOK
    <3>4. Progress'
      <4>1. Count' \in Nat
        BY <1>c, <3>2, Smaller DEF Count
      <4>2. Len(passed') = 0
        BY <2>1, <3>1
      <4> QED BY <3>1, <3>2, <4>1, <4>2 DEF Progress, Planning, Trying, Generating, Evaluating
    <3>5. Feedback' /\ Late' /\ EndIsRecorded'
      BY <1>t, <2>1, <3>1 DEF Feedback, SprintBefore, Late, EndIsRecorded, Generating,
                              Evaluating
    <3>6. Budget'
      <4>1. cost <= Allowed(0) /\ Allowed(0) <= Allowed(MaxAttempts)
            /\ Allowed(0) \in Nat /\ Allowed(MaxAttempts) \in Nat
        BY <1>a, <1>c
      <4>2. state'.tokens <= Allowed(MaxAttempts)
        BY <1>c, <3>2, <4>1
      <4> QED BY <3>1, <4>2 DEF Budget, Allowed, AttemptCost, Generating, Evaluating
    <3>7. StatusIsTrue'
      BY <3>1, <3>2 DEF StatusIsTrue
    <3> QED BY <3>3, <3>4, <3>5, <3>6, <3>7 DEF HarnessInv
  <2> QED BY <2>2, <2>3
<1>16. CASE BeginSprint
  <2>1. /\ pc = "sprint" /\ i < Count /\ state.tokens < MaxTokens
        /\ pc' = "attempt" /\ attempt' = 1 /\ disk' = state'
        /\ state' = [state EXCEPT !.sprint = i, !.attempt = 1]
        /\ UNCHANGED <<result, docVars, i, turns, sprintDone, token, late, runs, histVars>>
    BY <1>s, <1>n, <1>16 DEF BeginSprint, Save
  <2>2. Len(passed) = i /\ i <= Count /\ handoff = SprintBefore
    BY <1>t, <2>1 DEF Progress, Feedback
  <2>3. /\ state' \in States /\ state'.tokens = state.tokens /\ state'.sprint = i
        /\ state'.total = state.total /\ state'.status = state.status
    <3>1. i \in 0 .. MaxPlan /\ 1 \in 1 .. MaxAttempts + 1
      BY <1>c, <1>s, <1>n, <2>1
    <3> QED BY <1>s, <2>1, <3>1 DEF States
  <2>4. TypeOK'
    BY <1>c, <1>t, <2>1, <2>3 DEF TypeOK
  <2>5. state.status = "running"
    BY <1>t, <2>1 DEF Progress
  <2>6. Progress'
    BY <1>t, <2>1, <2>2, <2>3, <2>5
       DEF Progress, Count, Planning, Trying, Generating, Evaluating
  <2>7. Feedback' /\ Late' /\ EndIsRecorded'
    BY <1>t, <2>1, <2>2 DEF Feedback, LastHandOff, LastEval, SprintBefore, Late,
                            EndIsRecorded, Generating, Evaluating
  <2>8. Budget'
    <3>1. state'.tokens <= Allowed(0) /\ Allowed(0) <= Allowed(MaxAttempts)
          /\ Allowed(0) \in Nat /\ Allowed(MaxAttempts) \in Nat
      <4>1. Allowed(0) \in Nat /\ Allowed(MaxAttempts) \in Nat
            /\ Allowed(0) <= Allowed(MaxAttempts)
        BY <1>a, <1>c
      <4>2. state'.tokens < MaxTokens /\ state'.tokens \in Nat /\ MaxTokens <= Allowed(0)
        BY <1>a, <1>s, <2>1, <2>3
      <4> QED BY <1>c, <4>1, <4>2
    <3>2. state'.tokens \in Nat /\ attempt' - 1 = 0
      BY <1>s, <2>1, <2>3
    <3>3. /\ state'.tokens <= Allowed(MaxAttempts)
          /\ state'.tokens <= Allowed(attempt' - 1)
      BY <3>1, <3>2
    <3> QED BY <2>1, <3>3 DEF Budget, Allowed, AttemptCost, Generating, Evaluating
  <2>9. StatusIsTrue'
    BY <2>1, <2>3, <2>5 DEF StatusIsTrue
  <2> QED BY <2>4, <2>6, <2>7, <2>8, <2>9 DEF HarnessInv
<1>17. CASE BeginAttempt
  <2>1. /\ pc = "attempt" /\ attempt <= MaxAttempts
        /\ pc' = "generate" /\ turns' = 0 /\ disk' = state'
        /\ fed' = <<handoff, IF attempt > 1 THEN eval ELSE NoDoc>>
        /\ state' = [state EXCEPT !.attempt = attempt]
        /\ UNCHANGED <<result, docVars, i, attempt, token, late, runs, passed, lateTurns,
                       resumedAt>>
    BY <1>17 DEF BeginAttempt, Save
  <2>2. /\ state' \in States /\ state'.tokens = state.tokens /\ state'.sprint = state.sprint
        /\ state'.total = state.total /\ state'.status = state.status
        /\ state'.attempt = attempt
    <3>1. attempt \in 1 .. MaxAttempts + 1
      BY <1>t DEF TypeOK
    <3> QED BY <1>s, <2>1, <3>1 DEF States
  <2>3. state.status = "running"
    BY <1>t, <2>1 DEF Progress, Trying
  <2>4. TypeOK'
    <3>1. sprintDone' \in BOOLEAN
      BY <1>17, Zenon DEF BeginAttempt
    <3>2. fed' \in Docs \X Docs
      BY <1>t, <2>1 DEF TypeOK, Docs
    <3> QED BY <1>c, <1>t, <2>1, <2>2, <3>1, <3>2 DEF TypeOK
  <2>5. Progress'
    BY <1>t, <2>1, <2>2, <2>3 DEF Progress, Count, Planning, Trying, Generating, Evaluating
  <2>6. Feedback'
    BY <1>t, <2>1 DEF Feedback, LastHandOff, LastEval, SprintBefore, Generating, Evaluating
  <2>7. Late' /\ EndIsRecorded'
    BY <1>t, <2>1 DEF Late, EndIsRecorded
  <2>8. Budget'
    BY <1>t, <2>1, <2>2 DEF Budget, Allowed, AttemptCost, Generating, Evaluating
  <2>9. StatusIsTrue'
    BY <2>1, <2>2, <2>3 DEF StatusIsTrue
  <2> QED BY <2>4, <2>5, <2>6, <2>7, <2>8, <2>9 DEF HarnessInv
<1>18. ASSUME NEW done \in BOOLEAN, Generated(done) PROVE HarnessInv'
  <2>1. /\ pc = "generator_turn" /\ pc' = "generate" /\ turns' = turns + 1
        /\ sprintDone' \in BOOLEAN
        /\ UNCHANGED <<result, state, disk, docVars, i, attempt, token, late, runs,
                       histVars>>
    <3>1. sprintDone' \in BOOLEAN
      BY <1>18, Zenon DEF Generated
    <3> QED BY <1>18, <3>1 DEF Generated
  <2>2. turns < TurnLimit
    BY <1>t, <2>1 DEF Progress
  <2>3. TypeOK'
    <3>1. turns' \in 0 .. TurnLimit
      BY <1>c, <1>s, <2>1, <2>2
    <3> QED BY <1>t, <2>1, <3>1 DEF TypeOK
  <2>4. Progress'
    BY <1>t, <2>1 DEF Progress, Count, Planning, Trying, Generating, Evaluating
  <2>5. Feedback'
    BY <1>t, <2>1 DEF Feedback, LastHandOff, LastEval, SprintBefore, Generating, Evaluating
  <2>6. Budget' /\ Late' /\ EndIsRecorded' /\ StatusIsTrue'
    BY <1>t, <2>1 DEF Budget, Allowed, AttemptCost, Late, EndIsRecorded, StatusIsTrue,
                      Generating, Evaluating
  <2> QED BY <2>3, <2>4, <2>5, <2>6 DEF HarnessInv
<1>19. ASSUME NEW cost \in 0 .. turns * PerTurn, HandOff(cost) PROVE HarnessInv'
  <2>1. /\ pc = "generate" /\ pc' = "evaluate" /\ handoff' = <<i, attempt>>
        /\ state' = [state EXCEPT !.tokens = @ + cost]
        /\ UNCHANGED <<result, disk, eval, loopVars, token, late, runs, histVars>>
    BY <1>19 DEF HandOff
  <2>2. cost \in Nat /\ cost <= TurnLimit * PerTurn
    <3>1. turns \in 0 .. TurnLimit
      BY <1>t DEF TypeOK
    <3>2. turns * PerTurn <= TurnLimit * PerTurn /\ TurnLimit * PerTurn \in Nat
      BY <3>1, Costs
    <3>3. turns * PerTurn \in Nat
      BY <1>c, <1>s, Times
    <3> QED BY <1>19, <3>2, <3>3
  <2>3. /\ state' \in States /\ state'.tokens = state.tokens + cost
        /\ state'.sprint = state.sprint /\ state'.total = state.total
        /\ state'.status = state.status /\ state'.attempt = state.attempt
    BY <1>s, <2>1, <2>2 DEF States
  <2>4. i < Count /\ attempt <= MaxAttempts
    BY <1>t, <2>1 DEF Progress, Trying, Generating
  <2>5. TypeOK'
    <3>1. handoff' \in Docs
      BY <1>c, <1>s, <1>n, <2>1, <2>4 DEF Docs
    <3> QED BY <1>t, <2>1, <2>3, <3>1 DEF TypeOK
  <2>6. Progress' /\ Feedback'
    BY <1>t, <2>1, <2>3 DEF Progress, Feedback, Count, Planning, Trying, Generating,
                            Evaluating
  <2>7. Budget'
    <3>1. state.tokens <= Allowed(attempt - 1)
      BY <1>t, <2>1 DEF Budget, Generating
    <3>2. attempt - 1 \in Nat /\ (attempt - 1) + 1 = attempt
      BY <1>s
    <3>3. /\ Allowed(attempt - 1) \in Nat /\ Allowed(MaxAttempts) \in Nat
          /\ Allowed(attempt - 1) + AttemptCost <= Allowed(MaxAttempts)
      <4>1. Allowed((attempt - 1) + 1) = Allowed(attempt - 1) + AttemptCost
        BY <1>a, <3>2
      <4>2. Allowed(attempt) <= Allowed(MaxAttempts)
        BY <1>a, <1>c, <1>s, <2>4
      <4> QED BY <1>a, <1>c, <3>2, <4>1, <4>2
    <3>4. state'.tokens <= Allowed(attempt - 1) + TurnLimit * PerTurn
      <4>1. TurnLimit * PerTurn \in Nat
        BY Costs
      <4> QED BY <1>s, <2>2, <2>3, <3>1, <3>3, <4>1
    <3>5. state'.tokens <= Allowed(MaxAttempts)
      <4>1. AttemptCost \in Nat /\ AttemptCost = TurnLimit * PerTurn + PerTurn
            /\ TurnLimit * PerTurn \in Nat
        BY Costs
      <4>2. TurnLimit * PerTurn <= AttemptCost
        BY <1>c, <4>1
      <4>3. state'.tokens \in Nat
        BY <1>s, <2>2, <2>3
      <4> QED BY <3>3, <3>4, <4>1, <4>2, <4>3
    <3> QED BY <2>1, <3>4, <3>5 DEF Budget, Allowed, AttemptCost, Generating, Evaluating
  <2>8. Late' /\ EndIsRecorded' /\ StatusIsTrue'
    BY <1>t, <2>1 DEF Late, EndIsRecorded, StatusIsTrue
  <2> QED BY <2>5, <2>6, <2>7, <2>8 DEF HarnessInv
<1>20. ASSUME NEW verdict \in Verdicts, NEW verified \in BOOLEAN, NEW cost \in 0 .. PerTurn,
              Evaluated(verdict, verified, cost)
       PROVE  HarnessInv'
  <2>1. /\ pc = "evaluator_turn" /\ eval' = <<i, attempt>> /\ disk' = state'
        /\ state' = [state EXCEPT !.tokens = @ + cost]
        /\ UNCHANGED <<result, handoff, turns, sprintDone, token, late, runs, fed,
                       lateTurns, resumedAt>>
        /\ \/ /\ passed' = Append(passed, attempt) /\ i' = i + 1
              /\ pc' = "sprint" /\ attempt' = attempt
           \/ /\ attempt' = attempt + 1 /\ pc' = "attempt" /\ i' = i /\ passed' = passed
    BY <1>20 DEF Evaluated, Save
  <2>2. /\ state' \in States /\ state'.tokens = state.tokens + cost
        /\ state'.sprint = state.sprint /\ state'.total = state.total
        /\ state'.status = state.status /\ state'.attempt = state.attempt
    <3>1. cost \in Nat
      BY <1>c
    <3>2. state'.tokens = state.tokens + cost /\ state'.tokens \in Nat
      BY <1>s, <2>1, <3>1 DEF States
    <3> QED BY <1>s, <2>1, <3>2 DEF States
  <2>3. /\ i < Count /\ state.sprint = i /\ Len(passed) = i /\ state.status = "running"
        /\ attempt <= MaxAttempts /\ state.attempt = attempt /\ handoff = <<i, attempt>>
    BY <1>t, <2>1 DEF Progress, Feedback, Trying, Evaluating
  <2>4. /\ Append(passed, attempt) \in Seq(1 .. MaxAttempts)
        /\ Len(Append(passed, attempt)) = i + 1
        /\ Append(passed, attempt)[i + 1] = attempt
    <3>1. attempt \in 1 .. MaxAttempts
      BY <1>c, <1>s, <2>3
    <3> QED BY <1>s, <2>3, <3>1
  <2>5. TypeOK'
    <3>1. eval' \in Docs
      BY <1>c, <1>s, <1>n, <2>1, <2>3 DEF Docs
    <3>2. i' \in 0 .. MaxPlan /\ attempt' \in 1 .. MaxAttempts + 1
      BY <1>c, <1>s, <1>n, <2>1, <2>3
    <3>3. passed' \in Seq(1 .. MaxAttempts)
      BY <1>s, <2>1, <2>4
    <3> QED BY <1>t, <2>1, <2>2, <3>1, <3>2, <3>3 DEF TypeOK
  <2>6. Count' = Count
    BY <2>2 DEF Count
  <2>7. Progress' /\ Feedback'
    <3>1. CASE /\ passed' = Append(passed, attempt) /\ i' = i + 1
               /\ pc' = "sprint" /\ attempt' = attempt
      <4>1. Progress'
        BY <1>n, <1>s, <2>1, <2>2, <2>3, <2>4, <2>6, <3>1
           DEF Progress, Planning, Trying, Generating, Evaluating
      <4>2. i' > 0 /\ i' - 1 = i /\ passed'[i'] = attempt
        BY <1>s, <2>4, <3>1
      <4> QED BY <2>1, <2>3, <3>1, <4>1, <4>2 DEF Feedback, SprintBefore, Generating,
                 Evaluating
    <3>2. CASE attempt' = attempt + 1 /\ pc' = "attempt" /\ i' = i /\ passed' = passed
      <4>1. attempt' - 1 = attempt /\ attempt' > 1
        BY <1>s, <3>2
      <4>2. Progress'
        BY <1>n, <1>s, <2>1, <2>2, <2>3, <2>6, <3>2, <4>1
           DEF Progress, Planning, Trying, Generating, Evaluating
      <4> QED BY <2>1, <2>3, <3>2, <4>1, <4>2 DEF Feedback, LastHandOff, LastEval, Generating,
                 Evaluating
    <3> QED BY <2>1, <3>1, <3>2
  <2>8. Budget'
    <3>1. state.tokens <= Allowed(attempt - 1) + TurnLimit * PerTurn
      BY <1>t, <2>1 DEF Budget, Evaluating
    <3>2. attempt - 1 \in Nat /\ (attempt - 1) + 1 = attempt
      BY <1>s
    <3>3. Allowed(attempt) = Allowed(attempt - 1) + AttemptCost /\ Allowed(attempt - 1) \in Nat
      BY <1>a, <3>2
    <3>4. Allowed(attempt) <= Allowed(MaxAttempts) /\ Allowed(attempt) \in Nat
          /\ Allowed(MaxAttempts) \in Nat
      BY <1>a, <1>c, <1>s, <2>3
    <3>5. AttemptCost \in Nat /\ AttemptCost = TurnLimit * PerTurn + PerTurn
          /\ TurnLimit * PerTurn \in Nat
      BY Costs
    <3>6. state'.tokens <= Allowed(attempt)
      BY <1>c, <1>s, <2>2, <3>1, <3>3, <3>5
    <3>7. state'.tokens <= Allowed(MaxAttempts)
      <4>1. state'.tokens \in Nat
        BY <1>c, <1>s, <2>2
      <4> QED BY <3>4, <3>6, <4>1
    <3>8. CASE pc' = "sprint"
      BY <3>7, <3>8 DEF Budget, Allowed, AttemptCost, Generating, Evaluating
    <3>9. CASE pc' = "attempt" /\ attempt' = attempt + 1
      <4>1. attempt' - 1 = attempt
        BY <1>s, <3>9
      <4>2. state'.tokens <= Allowed(attempt' - 1)
        BY <3>6, <4>1
      <4> QED BY <3>7, <3>9, <4>2 DEF Budget, Allowed, AttemptCost, Generating, Evaluating
    <3> QED BY <2>1, <3>8, <3>9
  <2>9. Late' /\ EndIsRecorded' /\ StatusIsTrue'
    BY <1>t, <2>1, <2>2, <2>3 DEF Late, EndIsRecorded, StatusIsTrue
  <2> QED BY <2>5, <2>7, <2>8, <2>9 DEF HarnessInv
(* Ctrl+C and the clock.                                                   *)
<1>21. ASSUME token' \in BOOLEAN, late' \in BOOLEAN, token => token', late => late',
              UNCHANGED <<pc, result, state, disk, docVars, loopVars, runs, histVars>>
       PROVE  HarnessInv'
  <2>1. TypeOK'
    BY <1>t, <1>21 DEF TypeOK
  <2>2. Progress' /\ Feedback'
    BY <1>t, <1>21 DEF Progress, Feedback, Count, LastHandOff, LastEval, SprintBefore
  <2>3. Budget' /\ Late' /\ StatusIsTrue' /\ EndIsRecorded'
    BY <1>t, <1>21 DEF Budget, Allowed, AttemptCost, Late, StatusIsTrue, EndIsRecorded
  <2> QED BY <2>1, <2>2, <2>3 DEF HarnessInv
<1>22. CASE CtrlC \/ TimePasses
  <2>1. token' \in BOOLEAN /\ (token => token')
    <3>1. token \in BOOLEAN
      BY <1>t DEF TypeOK
    <3>2. token' = TRUE \/ token' = token
      BY <1>22, Zenon DEF CtrlC, TimePasses
    <3> QED BY <3>1, <3>2, Zenon
  <2>2. late' \in BOOLEAN /\ (late => late')
    <3>1. late \in BOOLEAN
      BY <1>t DEF TypeOK
    <3>2. late' = TRUE \/ late' = late
      BY <1>22, Zenon DEF CtrlC, TimePasses
    <3> QED BY <3>1, <3>2, Zenon
  <2> QED BY <1>21, <1>22, <2>1, <2>2 DEF CtrlC, TimePasses
<1>23. CASE CancelCommand
  <2>1. /\ disk \in States /\ disk' = [disk EXCEPT !.status = "cancelled"]
        /\ disk.status = "running"
        /\ UNCHANGED <<pc, result, state, docVars, loopVars, token, late, runs, histVars>>
    BY <1>t, <1>23 DEF CancelCommand, TypeOK, NoState
  <2>2. disk' \in States /\ disk'.status = "cancelled"
    BY <2>1 DEF States, Statuses
  <2>3. TypeOK'
    BY <1>t, <2>1, <2>2 DEF TypeOK
  <2>4. pc \notin Planning
    BY <1>t, <2>1 DEF Progress, NoState
  <2>5. Progress' /\ Feedback'
    BY <1>t, <2>1, <2>2, <2>4
       DEF Progress, Feedback, Count, LastHandOff, LastEval, SprintBefore
  <2>6. Budget' /\ Late' /\ StatusIsTrue' /\ EndIsRecorded'
    BY <1>t, <2>1, <2>2
       DEF Budget, Allowed, AttemptCost, Late, StatusIsTrue, EndIsRecorded
  <2> QED BY <2>3, <2>5, <2>6 DEF HarnessInv
<1>24. CASE UNCHANGED vars
  BY <1>t, <1>21, <1>24 DEF vars, TypeOK
<1>25. CASE NoMoreRuns
  BY <1>24, <1>25 DEF NoMoreRuns
<1> QED BY <1>5, <1>6, <1>7, <1>8, <1>9, <1>10, <1>11, <1>12, <1>13, <1>14, <1>15, <1>16,
           <1>17, <1>18, <1>19, <1>20, <1>22, <1>23, <1>24, <1>25 DEF Next, Step

-----------------------------------------------------------------------------
(* The inductive invariant of the harness: what the files hold at each     *)
(* place of run_harness, and what may have been spent.                     *)
THEOREM HarnessInvariant == ASSUME HarnessConstants PROVE Spec => []HarnessInv
<1>1. Init => HarnessInv
  BY HarnessInit
<1>2. HarnessInv /\ [Next]_vars => HarnessInv'
  BY HarnessStep
<1> QED BY <1>1, <1>2, PTL DEF Spec

(* The state of the harness, in memory and in its files, keeps its types,  *)
(* and the sprints, attempts and turns their limits.                       *)
THEOREM HarnessTypeCorrect == ASSUME HarnessConstants PROVE Spec => []TypeOK
<1>1. HarnessInv => TypeOK
  BY DEF HarnessInv
<1> QED BY <1>1, HarnessInvariant, PTL

(* What state.toml says of a run is true, also after /harness cancel, a    *)
(* crash and a failure, and a run that returns normally has left a final   *)
(* status there (harness.rs: every HarnessState::save).                    *)
THEOREM StateFileIsTrue ==
    ASSUME HarnessConstants PROVE Spec => [](StatusIsTrue /\ EndIsRecorded)
<1>1. HarnessInv => StatusIsTrue /\ EndIsRecorded
  BY DEF HarnessInv
<1> QED BY <1>1, HarnessInvariant, PTL

(* A generator's prompt is built from the handoff of the attempt before    *)
(* its own, over the boundary between sprints too, and from no evaluation  *)
(* of another sprint (harness.rs: build_generator_prompt).                 *)
THEOREM DocumentsAreCurrent ==
    ASSUME HarnessConstants PROVE Spec => []FeedbackIsCurrent
<1>1. HarnessInv => FeedbackIsCurrent
  BY DEF HarnessInv, Feedback, FeedbackIsCurrent, LastHandOff, LastEval, SprintBefore,
         Generating
<1> QED BY <1>1, HarnessInvariant, PTL

(* The tokens of a run exceed its budget by the attempts of one sprint at  *)
(* most, and after Ctrl+C at most one turn begins (harness.rs: the checks  *)
(* at the heads of the sprint and attempt loops and before the evaluator). *)
THEOREM HarnessIsBounded ==
    ASSUME HarnessConstants PROVE Spec => [](BudgetBound /\ OneLateTurn)
<1>1. HarnessInv => BudgetBound
  BY Costs DEF HarnessInv, Budget, BudgetBound, Allowed
<1>2. HarnessInv => OneLateTurn
  BY DEF HarnessInv, Late, OneLateTurn
<1> QED BY <1>1, <1>2, HarnessInvariant, PTL
=============================================================================
