--------------------------------- MODULE Plans ---------------------------------
(***************************************************************************)
(* The documents of the harness: the plan that the planner's answer is     *)
(* parsed into, and the verdict of the evaluator's                         *)
(* (anvil-agent/src/harness.rs).  An answer is a sequence of lines, each   *)
(* known by what the parser tells apart; a verdict's line is the set of    *)
(* words in it.                                                            *)
(***************************************************************************)
EXTENDS Naturals, Sequences, SequencesExt, FiniteSets

CONSTANTS
    Lines,      \* what the planner may write in a line
    NoText,     \* nothing, where there could be a text
    GlobalVerify,  \* the harness's verify command
    MaxPlan,    \* bound: lines of a plan
    MaxAnswer   \* bound: lines of an evaluation

PlansConstants ==
    /\ \A l \in Lines : DOMAIN l = {"kind", "lead", "sep", "text"}
    /\ MaxPlan \in Nat /\ MaxAnswer \in Nat

VARIABLES
    plan,       \* the planner's answer so far
    answer      \* the evaluator's

vars == <<plan, answer>>

(* What is after a number: "1. Title", "1: Title"; or after "Sprint".      *)
parse_sprint_header(l) ==
    CASE l.kind # "heading" -> [is |-> FALSE, title |-> NoText]
      [] l.lead = "sprint" -> [is |-> TRUE, title |-> l.text]
      [] l.lead = "digit" /\ l.sep \in {".", ":"} /\ l.text # NoText ->
             [is |-> TRUE, title |-> l.text]
      [] OTHER -> [is |-> FALSE, title |-> NoText]

Sprint(title) ==
    [title |-> title, description |-> <<>>, files |-> NoText, criteria |-> <<>>,
     verify |-> NoText]

(* The fields of a sprint: lists of files replace each other, criteria and *)
(* descriptions add up, a command that is empty is none.                   *)
Field(s, l) ==
    CASE l.kind = "files" -> [s EXCEPT !.files = l.text]
      [] l.kind = "verify" /\ l.text # NoText -> [s EXCEPT !.verify = l.text]
      [] l.kind = "criterion" /\ l.text # NoText -> [s EXCEPT !.criteria = Append(@, l.text)]
      [] l.kind \in {"description", "text"} /\ l.text # NoText ->
             [s EXCEPT !.description = Append(@, l.text)]
      [] OTHER -> s

(* Mutant of ReadLine: what was collected is kept for the next sprint.     *)
ReadKeeping(state, l) ==
    LET h == parse_sprint_header(l)
    IN  IF h.is THEN [in |-> TRUE, sprint |-> [state.sprint EXCEPT !.title = h.title],
                      done |-> IF state.in THEN Append(state.done, state.sprint) ELSE state.done]
        ELSE IF state.in THEN [state EXCEPT !.sprint = Field(@, l)]
        ELSE state

ReadLine(state, l) ==
    LET h == parse_sprint_header(l)
    IN  IF h.is THEN [in |-> TRUE, sprint |-> Sprint(h.title),
                      done |-> IF state.in THEN Append(state.done, state.sprint) ELSE state.done]
        ELSE IF state.in THEN [state EXCEPT !.sprint = Field(@, l)]
        ELSE state

(* Mutant of SaveLast: the last sprint is not saved.                       *)
LastUnsaved(state) == state.done

SaveLast(state) == IF state.in THEN Append(state.done, state.sprint) ELSE state.done

Begun == [in |-> FALSE, sprint |-> Sprint(NoText), done |-> <<>>]

(* An answer without sprints is one sprint.                                *)
Whole(lines) ==
    <<[Sprint("Complete task") EXCEPT !.description = lines, !.verify = GlobalVerify]>>

parse_plan(lines) ==
    LET sprints == SaveLast(FoldLeft(ReadLine, Begun, lines))
    IN  IF sprints = <<>> THEN Whole(lines) ELSE sprints

-----------------------------------------------------------------------------
(* The words of a line that the verdict depends on.                        *)
Words == {"verdict", "PASS", "FAIL", "**PASS**", "**FAIL**"}
Says(line, word) ==
    word \in line \/ (word = "PASS" /\ "**PASS**" \in line) \/ (word = "FAIL" /\ "**FAIL**" \in line)
Anywhere(lines, word) == \E i \in DOMAIN lines : Says(lines[i], word)

(* The first line with VERDICT or RESULT and PASS or FAIL, PASS first.     *)
OfMarker(lines) ==
    LET i == SelectInSeq(lines, LAMBDA l :
                 "verdict" \in l /\ (Says(l, "PASS") \/ Says(l, "FAIL")))
    IN  IF i = 0 THEN "none" ELSE IF Says(lines[i], "PASS") THEN "pass" ELSE "fail"

(* Then the bold words, PASS first; then the only one there is.            *)
OfText(lines) ==
    IF Anywhere(lines, "**PASS**") THEN "pass"
    ELSE IF Anywhere(lines, "**FAIL**") THEN "fail"
    ELSE IF Anywhere(lines, "PASS") /\ ~Anywhere(lines, "FAIL") THEN "pass"
    ELSE IF Anywhere(lines, "FAIL") /\ ~Anywhere(lines, "PASS") THEN "fail"
    ELSE "none"

(* Mutant of parse_eval_verdict: the rest of the text comes first.         *)
TextFirst(lines) == IF OfText(lines) # "none" THEN OfText(lines) ELSE OfMarker(lines)

parse_eval_verdict(lines) ==
    IF OfMarker(lines) # "none" THEN OfMarker(lines) ELSE OfText(lines)

-----------------------------------------------------------------------------
Init == plan = <<>> /\ answer = <<>>

(* The planner or the evaluator adds a line.                               *)
PlannerWrites == \E l \in Lines :
    /\ answer = <<>> /\ Len(plan) < MaxPlan
    /\ plan' = Append(plan, l) /\ UNCHANGED answer

EvaluatorWrites == \E l \in SUBSET Words :
    /\ plan = <<>> /\ Len(answer) < MaxAnswer
    /\ answer' = Append(answer, l) /\ UNCHANGED plan

Next == PlannerWrites \/ EvaluatorWrites

Spec == Init /\ [][Next]_vars

-----------------------------------------------------------------------------
TypeOK == plan \in Seq(Lines) /\ answer \in Seq(SUBSET Words)

(* The places of the headers, and the lines that belong to each.           *)
Headers == SelectSeq([i \in DOMAIN plan |-> i], LAMBDA i : parse_sprint_header(plan[i]).is)

Section(k) ==
    LET last == IF k = Len(Headers) THEN Len(plan) ELSE Headers[k + 1] - 1
    IN  SubSeq(plan, Headers[k] + 1, last)

TextsOf(lines, kinds) ==
    LET chosen == SelectSeq(lines, LAMBDA l : l.kind \in kinds /\ l.text # NoText)
    IN  [i \in DOMAIN chosen |-> chosen[i].text]

LastOf(texts) == IF texts = <<>> THEN NoText ELSE texts[Len(texts)]

(* Every header makes a sprint, in order, of what is written up to the     *)
(* next one and of nothing else; an answer without a header is one sprint  *)
(* with all of its text, which the harness's own command verifies.         *)
PlanIsRead ==
    LET sprints == parse_plan(plan)
    IN  IF Headers = <<>> THEN sprints = Whole(plan)
        ELSE /\ Len(sprints) = Len(Headers)
             /\ \A k \in DOMAIN sprints :
                 /\ sprints[k].criteria = TextsOf(Section(k), {"criterion"})
                 /\ sprints[k].description = TextsOf(Section(k), {"description", "text"})
                 /\ sprints[k].verify = LastOf(TextsOf(Section(k), {"verify"}))
                 /\ LET lists == SelectSeq(Section(k), LAMBDA l : l.kind = "files")
                    IN  sprints[k].files = IF lists = <<>> THEN NoText ELSE lists[Len(lists)].text

(* A verdict that is one word is read as that word, whatever the rest of   *)
(* the answer says, as long as no other line looks like a verdict; and an  *)
(* answer with neither word gives none.                                    *)
Clear(line) == "verdict" \in line /\ (Says(line, "PASS") # Says(line, "FAIL"))
VerdictIsRead ==
    /\ \A i \in DOMAIN answer :
           /\ Clear(answer[i])
           /\ \A k \in DOMAIN answer \ {i} : "verdict" \notin answer[k]
           => parse_eval_verdict(answer) = IF Says(answer[i], "PASS") THEN "pass" ELSE "fail"
    /\ ~Anywhere(answer, "PASS") /\ ~Anywhere(answer, "FAIL")
           => parse_eval_verdict(answer) = "none"
=============================================================================
