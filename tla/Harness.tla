------------------------------ MODULE Harness -------------------------------
(***************************************************************************)
(* The harness (anvil-agent/src/harness.rs): a planner divides a task into *)
(* sprints; for each of them a generator works and an evaluator judges, up *)
(* to a number of attempts.  Each of the three is a fresh agent; they talk *)
(* through files in .anvil/harness: state.toml, handoff.md and eval.md.    *)
(* The commands /harness cancel and /harness resume (anvil/src/commands.rs)*)
(* work on the same files, from this process or another one.               *)
(*                                                                         *)
(* Documents are known by the sprint and attempt they come from; a turn is *)
(* a span in which the workspace may change and tokens are spent.          *)
(***************************************************************************)
EXTENDS Naturals, Sequences, FiniteSetsExt

CONSTANTS
    MaxSprints,   \* [harness] max_sprints
    MaxAttempts,  \* max_retries_per_sprint
    MaxTokens,    \* max_total_tokens
    TurnLimit,    \* sprint_turn_limit
    MaxPlan,      \* bound: sprints of a plan
    PerTurn,      \* bound: tokens of one turn
    MaxRuns       \* bound: runs of the harness, each after the other

HarnessConstants ==
    /\ {MaxSprints, MaxAttempts, MaxTokens, TurnLimit, PerTurn, MaxRuns} \subseteq Nat
    /\ MaxPlan \in Nat \ {0}

VARIABLES
    pc,        \* where run_harness stands
    result,    \* how it returned: "none", "ok", "error"
    state,     \* HarnessState in memory
    disk,      \* state.toml, or NoState
    handoff,   \* handoff.md: <<sprint, attempt>> it comes from, or NoDoc
    eval,      \* eval.md
    i,         \* the sprint the loop is at, from 0
    attempt,   \* and the attempt, from 1
    turns,     \* generator turns of this attempt
    sprintDone,\* the generator has said [SPRINT:DONE]
    token,     \* Ctrl+C was pressed
    late,      \* max_duration_minutes are over
    runs,      \* runs begun
    passed,    \* history: the attempt at which a sprint of this run passed
    fed,       \* history: the documents the generator's prompt was built from
    lateTurns, \* history: turns begun after Ctrl+C
    resumedAt  \* history: the sprint state.toml named when a run was resumed

NoDoc == <<>>
NoState == [status |-> "none"]

docVars == <<handoff, eval>>
loopVars == <<i, attempt, turns, sprintDone>>
histVars == <<passed, fed, lateTurns, resumedAt>>
vars == <<pc, result, state, disk, docVars, loopVars, token, late, runs, histVars>>

TurnPlaces == {"planner_turn", "generator_turn", "evaluator_turn"}
Active == pc \notin {"idle", "over", "hung"}

(* The sprints that are carried out: the plan may have more.               *)
Sprints == 0 .. Min({state.total, MaxSprints}) - 1

NewState(total, tokens) ==
    [status |-> "running", sprint |-> 0, attempt |-> 1, total |-> total,
     tokens |-> tokens]

Save(s) == state' = s /\ disk' = s

Return(how) == pc' = "over" /\ result' = how

(* Every exit that ends the run as finished writes the status first.       *)
Finish(status) ==
    /\ Save([state EXCEPT !.status = status])
    /\ Return("ok")

Init ==
    /\ pc = "idle" /\ result = "none"
    /\ state = NewState(1, 0) /\ disk = NoState
    /\ handoff = NoDoc /\ eval = NoDoc
    /\ i = 0 /\ attempt = 1 /\ turns = 0 /\ sprintDone = FALSE
    /\ token = FALSE /\ late = FALSE
    /\ runs = 0
    /\ passed = <<>> /\ fed = <<NoDoc, NoDoc>> /\ lateTurns = 0 /\ resumedAt = 0

-----------------------------------------------------------------------------
(* run_harness from its first line: whatever an earlier run left is        *)
(* removed, and the planner started.                                       *)
Begin ==
    /\ pc \in {"idle", "over"} /\ runs < MaxRuns
    /\ runs' = runs + 1
    /\ pc' = "plan" /\ result' = "none"
    /\ disk' = NoState /\ handoff' = NoDoc /\ eval' = NoDoc
    /\ token' = FALSE /\ late' = FALSE
    /\ passed' = <<>> /\ fed' = <<NoDoc, NoDoc>> /\ lateTurns' = 0
    /\ UNCHANGED <<state, loopVars>>

Start == Begin /\ resumedAt' = 0

(* /harness resume: the prompt and command are taken from state.toml, the  *)
(* run from the beginning: run_harness_command looks at no subcommand.     *)
Resume ==
    /\ disk.status \in {"running", "failed"}
    /\ Begin
    /\ resumedAt' = disk.sprint

(* An agent's turn is begun at pc and awaited.                             *)
BeginTurn(place) ==
    /\ pc' = place
    /\ lateTurns' = IF token THEN lateTurns + 1 ELSE lateTurns

PlanCancelled ==
    /\ pc = "plan" /\ token
    /\ Return("ok")
    /\ UNCHANGED <<state, disk, docVars, loopVars, token, late, runs, histVars>>

Plan ==
    /\ pc = "plan" /\ ~token
    /\ pc' = "planner"
    /\ UNCHANGED <<result, state, disk, docVars, loopVars, token, late, runs, histVars>>

PlannerTurn ==
    /\ pc = "planner"
    /\ BeginTurn("planner_turn")
    /\ UNCHANGED <<result, state, disk, docVars, loopVars, token, late, runs,
                   passed, fed, resumedAt>>

(* parse_plan finds at least one sprint in whatever the planner said.      *)
Planned(total, cost) ==
    /\ pc = "planner_turn"
    /\ IF token
         THEN Return("ok") /\ UNCHANGED <<state, disk, i>>
         ELSE /\ Save(NewState(total, cost))
              /\ pc' = "sprint" /\ i' = 0 /\ UNCHANGED result
    /\ UNCHANGED <<attempt, turns, sprintDone, docVars, token, late, runs, histVars>>

(* Mutant of SprintsDone: the last sprint is left out.                     *)
SprintsDoneEarly ==
    /\ pc = "sprint" /\ i + 1 \notin Sprints
    /\ Finish("completed")
    /\ UNCHANGED <<docVars, loopVars, token, late, runs, histVars>>

(* The head of the sprint loop.                                            *)
SprintsDone ==
    /\ pc = "sprint" /\ i \notin Sprints
    /\ Finish("completed")
    /\ UNCHANGED <<docVars, loopVars, token, late, runs, histVars>>

(* Mutant of SprintCancelled: the status is not saved.                     *)
SprintCancelledUnsaved ==
    /\ pc = "sprint" /\ i \in Sprints /\ token
    /\ Return("ok")
    /\ UNCHANGED <<state, disk, docVars, loopVars, token, late, runs, histVars>>

SprintCancelled ==
    /\ pc = "sprint" /\ i \in Sprints /\ token
    /\ Finish("cancelled")
    /\ UNCHANGED <<docVars, loopVars, token, late, runs, histVars>>

OutOfBudget ==
    /\ pc = "sprint" /\ i \in Sprints /\ ~token
    /\ state.tokens >= MaxTokens \/ late
    /\ Finish("failed")
    /\ UNCHANGED <<docVars, loopVars, token, late, runs, histVars>>

(* Mutant of BeginSprint: the budget is looked at before the first only.   *)
BeginSprintUnchecked ==
    /\ pc = "sprint" /\ i \in Sprints /\ ~token
    /\ (state.tokens < MaxTokens /\ ~late) \/ i > 0
    /\ Save([state EXCEPT !.sprint = i, !.attempt = 1])
    /\ pc' = "attempt" /\ attempt' = 1
    /\ UNCHANGED <<result, docVars, i, turns, sprintDone, token, late, runs, histVars>>

BeginSprint ==
    /\ pc = "sprint" /\ i \in Sprints /\ ~token
    /\ state.tokens < MaxTokens /\ ~late
    /\ Save([state EXCEPT !.sprint = i, !.attempt = 1])
    /\ pc' = "attempt" /\ attempt' = 1
    /\ UNCHANGED <<result, docVars, i, turns, sprintDone, token, late, runs,
                   histVars>>

(* The head of the attempt loop.                                           *)
AttemptsUsedUp ==
    /\ pc = "attempt" /\ attempt > MaxAttempts
    /\ Finish("failed")
    /\ UNCHANGED <<docVars, loopVars, token, late, runs, histVars>>

AttemptCancelled ==
    /\ pc = "attempt" /\ attempt <= MaxAttempts /\ token
    /\ Finish("cancelled")
    /\ UNCHANGED <<docVars, loopVars, token, late, runs, histVars>>

(* The generator's prompt is built from the last handoff and, from the     *)
(* second attempt on, from the last evaluation.                            *)
BeginAttempt ==
    /\ pc = "attempt" /\ attempt <= MaxAttempts /\ ~token
    /\ Save([state EXCEPT !.attempt = attempt])
    /\ fed' = <<handoff, IF attempt > 1 THEN eval ELSE NoDoc>>
    /\ pc' = "generate" /\ turns' = 0 /\ sprintDone' = FALSE
    /\ UNCHANGED <<result, docVars, i, attempt, token, late, runs, passed,
                   lateTurns, resumedAt>>

(* Turns of the generator, until it says that it is done.                  *)
GeneratorGoesOn == turns < TurnLimit /\ ~sprintDone /\ ~token

GeneratorNext ==
    /\ pc = "generate" /\ GeneratorGoesOn
    /\ pc' = "generator"
    /\ UNCHANGED <<result, state, disk, docVars, loopVars, token, late, runs,
                   histVars>>

GeneratorTurn ==
    /\ pc = "generator"
    /\ BeginTurn("generator_turn")
    /\ UNCHANGED <<result, state, disk, docVars, loopVars, token, late, runs,
                   passed, fed, resumedAt>>

(* Mutant of Generated: the turns are not counted.                         *)
GeneratedUncounted(done) ==
    /\ pc = "generator_turn"
    /\ sprintDone' = done
    /\ pc' = "generate"
    /\ UNCHANGED <<result, state, disk, docVars, i, attempt, turns, token, late, runs,
                   histVars>>

Generated(done) ==
    /\ pc = "generator_turn"
    /\ turns' = turns + 1 /\ sprintDone' = done
    /\ pc' = "generate"
    /\ UNCHANGED <<result, state, disk, docVars, i, attempt, token, late, runs, histVars>>

(* Mutant of HandOff: a cancelled or silent generator hands nothing over.  *)
HandOffIfDone(cost) ==
    /\ pc = "generate" /\ ~GeneratorGoesOn
    /\ state' = [state EXCEPT !.tokens = @ + cost]
    /\ handoff' = IF sprintDone THEN <<i, attempt>> ELSE handoff
    /\ pc' = "evaluate"
    /\ UNCHANGED <<result, disk, eval, loopVars, token, late, runs, histVars>>

(* The generator's tokens, and the end of what it said, are taken over.    *)
HandOff(cost) ==
    /\ pc = "generate" /\ ~GeneratorGoesOn
    /\ state' = [state EXCEPT !.tokens = @ + cost]
    /\ handoff' = <<i, attempt>>
    /\ pc' = "evaluate"
    /\ UNCHANGED <<result, disk, eval, loopVars, token, late, runs, histVars>>

EvaluationCancelled ==
    /\ pc = "evaluate" /\ token
    /\ Finish("cancelled")
    /\ UNCHANGED <<docVars, loopVars, token, late, runs, histVars>>

(* Mutant of Evaluate: the token is not looked at after the generator.     *)
EvaluateUnchecked ==
    /\ pc = "evaluate"
    /\ pc' = "evaluator"
    /\ UNCHANGED <<result, state, disk, docVars, loopVars, token, late, runs, histVars>>

Evaluate ==
    /\ pc = "evaluate" /\ ~token
    /\ pc' = "evaluator"
    /\ UNCHANGED <<result, state, disk, docVars, loopVars, token, late, runs,
                   histVars>>

EvaluatorTurn ==
    /\ pc = "evaluator"
    /\ BeginTurn("evaluator_turn")
    /\ UNCHANGED <<result, state, disk, docVars, loopVars, token, late, runs,
                   passed, fed, resumedAt>>

(* The verdict read from what the evaluator said, also when it was         *)
(* cancelled meanwhile; the verification command, which succeeds or not,   *)
(* where it gives none.                                                    *)
Passes(verdict, verified) == verdict = "pass" \/ (verdict = "none" /\ verified)

Evaluated(verdict, verified, cost) ==
    /\ pc = "evaluator_turn"
    /\ eval' = <<i, attempt>>
    /\ Save([state EXCEPT !.tokens = @ + cost])
    /\ IF Passes(verdict, verified)
         THEN /\ passed' = Append(passed, attempt)
              /\ i' = i + 1 /\ pc' = "sprint" /\ UNCHANGED attempt
         ELSE /\ attempt' = attempt + 1 /\ pc' = "attempt"
              /\ UNCHANGED <<i, passed>>
    /\ UNCHANGED <<result, handoff, turns, sprintDone, token, late, runs, fed,
                   lateTurns, resumedAt>>

(* A turn returns an error, or a file or database cannot be used: ? leaves *)
(* run_harness with whatever state.toml says.                              *)
Fail ==
    /\ Active
    /\ Return("error")
    /\ UNCHANGED <<state, disk, docVars, loopVars, token, late, runs, histVars>>

(* The agent's events are received only after its turn: with more than the *)
(* channel holds it never returns, and nothing ends the wait; nor does     *)
(* anything bound the command that verifies where no verdict was given.    *)
Hang ==
    /\ pc \in TurnPlaces
    /\ pc' = "hung"
    /\ UNCHANGED <<result, state, disk, docVars, loopVars, token, late, runs,
                   histVars>>

CtrlC ==
    /\ Active /\ ~token
    /\ token' = TRUE
    /\ UNCHANGED <<pc, result, state, disk, docVars, loopVars, late, runs, histVars>>

TimePasses ==
    /\ Active /\ ~late
    /\ late' = TRUE
    /\ UNCHANGED <<pc, result, state, disk, docVars, loopVars, token, runs, histVars>>

(* /harness cancel changes the file, whoever is running the harness.       *)
CancelCommand ==
    /\ disk.status = "running"
    /\ disk' = [disk EXCEPT !.status = "cancelled"]
    /\ UNCHANGED <<pc, result, state, docVars, loopVars, token, late, runs,
                   histVars>>

(* The process dies, perhaps while state.toml is being written.            *)
Crash ==
    /\ Active \/ pc = "hung"
    /\ pc' = "idle" /\ result' = "none"
    /\ disk' \in {disk, NoState}
    /\ UNCHANGED <<state, docVars, loopVars, token, late, runs, histVars>>

NoMoreRuns == pc \in {"idle", "over"} /\ runs = MaxRuns /\ UNCHANGED vars

-----------------------------------------------------------------------------
Verdicts == {"pass", "fail", "none"}

Step ==
    \/ PlanCancelled \/ Plan \/ PlannerTurn
    \/ \E total \in 1 .. MaxPlan, cost \in 0 .. PerTurn : Planned(total, cost)
    \/ SprintsDone \/ SprintCancelled \/ OutOfBudget \/ BeginSprint
    \/ AttemptsUsedUp \/ AttemptCancelled \/ BeginAttempt
    \/ GeneratorNext \/ GeneratorTurn
    \/ \E done \in BOOLEAN : Generated(done)
    \/ \E cost \in 0 .. turns * PerTurn : HandOff(cost)
    \/ EvaluationCancelled \/ Evaluate \/ EvaluatorTurn
    \/ \E verdict \in Verdicts, verified \in BOOLEAN, cost \in 0 .. PerTurn :
         Evaluated(verdict, verified, cost)

Next ==
    \/ Start \/ Resume \/ Step \/ Fail \/ Hang
    \/ CtrlC \/ TimePasses \/ CancelCommand \/ Crash \/ NoMoreRuns

Spec == Init /\ [][Next]_vars

(* run_harness is polled.                                                  *)
Fairness == WF_vars(Step)
FairSpec == Spec /\ Fairness

-----------------------------------------------------------------------------
Docs == {NoDoc} \cup ((0 .. MaxPlan - 1) \X (1 .. MaxAttempts))
Statuses == {"running", "completed", "failed", "cancelled"}
States == [status : Statuses, sprint : 0 .. MaxPlan, attempt : 1 .. MaxAttempts + 1,
           total : 1 .. MaxPlan, tokens : Nat]

TypeOK ==
    /\ pc \in TurnPlaces \cup {"idle", "over", "hung", "plan", "planner", "sprint",
               "attempt", "generate", "generator", "evaluate", "evaluator"}
    /\ result \in {"none", "ok", "error"}
    /\ state \in States /\ disk \in States \cup {NoState}
    /\ handoff \in Docs /\ eval \in Docs
    /\ i \in 0 .. MaxPlan /\ attempt \in 1 .. MaxAttempts + 1
    /\ turns \in 0 .. TurnLimit
    /\ {sprintDone, token, late} \subseteq BOOLEAN
    /\ runs \in 0 .. MaxRuns
    /\ passed \in Seq(1 .. MaxAttempts)
    /\ fed \in Docs \X Docs
    /\ lateTurns \in Nat /\ resumedAt \in 0 .. MaxPlan

(* state.toml tells the truth about the run that wrote it: "completed"     *)
(* means that every sprint carried out was judged in order; "failed"       *)
(* that the sprint it names was not and that its attempts, the tokens or   *)
(* the time had run out.  (A plan longer than max_sprints is cut short     *)
(* and still completes.)                                                   *)
StatusIsTrue ==
    /\ disk.status = "completed" => Len(passed) = Min({disk.total, MaxSprints})
    /\ disk.status = "failed" =>
         /\ Len(passed) < Min({disk.total, MaxSprints})
         /\ (disk.sprint = Len(passed) /\ disk.attempt = MaxAttempts)
               \/ MaxAttempts = 0 \/ disk.tokens >= MaxTokens \/ late

(* A run that returns normally has a final status on disk, unless it was   *)
(* cancelled before there was a plan.                                      *)
EndIsRecorded ==
    pc = "over" /\ result = "ok" =>
        \/ disk.status \in {"completed", "failed", "cancelled"}
        \/ disk = NoState /\ token

(* The documents a generator works from are those of the attempt before    *)
(* its own: the handoff of this sprint's last attempt or of the attempt at *)
(* which the sprint before passed, and the evaluation of this sprint's     *)
(* last attempt only.                                                      *)
FeedbackIsCurrent ==
    pc \in {"generate", "generator", "generator_turn"} =>
        fed = << IF attempt > 1 THEN <<i, attempt - 1>>
                 ELSE IF i > 0 THEN <<i - 1, passed[i]>> ELSE NoDoc,
                 IF attempt > 1 THEN <<i, attempt - 1>> ELSE NoDoc >>

(* After Ctrl+C at most the turn that was about to begin begins.           *)
OneLateTurn == lateTurns <= 1

(* The budget is looked at between sprints: what is spent beyond it is     *)
(* bounded by the turns of one sprint.                                     *)
BudgetBound ==
    state.tokens <= Max({MaxTokens, PerTurn}) + MaxAttempts * (TurnLimit + 1) * PerTurn

(* A run ends, unless an agent's turn, or the command that is run for an   *)
(* evaluation without a verdict, hangs.                                    *)
RunEnds == Active ~> ~Active

(* The commands' help: /harness resume continues from the last completed   *)
(* sprint.                                                                 *)
ResumeContinues == pc = "attempt" => i >= resumedAt
=============================================================================
