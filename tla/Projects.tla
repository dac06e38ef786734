------------------------------- MODULE Projects -------------------------------
(***************************************************************************)
(* The guided projects of the /project command                             *)
(* (anvil-agent/src/projects.rs, anvil/src/commands.rs): the steps of a    *)
(* project are passed one by one, each when its verification succeeds.     *)
(* What is done in the project's folder, and undone, is the user's.        *)
(***************************************************************************)
EXTENDS Naturals, FiniteSets

CONSTANTS
    Project,    \* the bundled projects
    Steps,      \* project -> number of its steps
    NoProject,  \* none is active
    MaxNext     \* bound: uses of /project next

ProjectsConstants == Steps \in [Project -> Nat] /\ MaxNext \in Nat

VARIABLES
    active,     \* the active project, or NoProject
    current,    \* its current_step
    done,       \* project -> steps that its folder would pass now
    seen,       \* history: project -> steps verified since it was started
    said,       \* the answer to the last command
    nexts

vars == <<active, current, done, seen, said, nexts>>

Answers == {"none", "step", "not_yet", "finished", "no_project", "error"}

Init ==
    /\ active = NoProject /\ current = 0
    /\ done = [p \in Project |-> {}] /\ seen = [p \in Project |-> {}]
    /\ said = "none" /\ nexts = 0

is_complete(p, n) == n >= Steps[p]

(* What the step at n is shown as.                                         *)
format_current_step(p, n) == IF is_complete(p, n) THEN "finished" ELSE "step"

(* A project is started from its first step, whatever its folder holds and *)
(* whichever was active.                                                   *)
start_project(p) ==
    /\ active' = p /\ current' = 0
    /\ seen' = [seen EXCEPT ![p] = {}]
    /\ said' = format_current_step(p, 0)
    /\ UNCHANGED <<done, nexts>>

(* Mutant of verify_current: every step before it is enough.               *)
VerifyPrevious == is_complete(active, current) \/ current = 0 \/ current - 1 \in done[active]

verify_current == is_complete(active, current) \/ current \in done[active]

(* /project next: a step that is not passed is shown again; past the last  *)
(* one the count goes on.                                                  *)
project_next ==
    /\ nexts < MaxNext /\ nexts' = nexts + 1
    /\ IF active = NoProject THEN said' = "no_project" /\ UNCHANGED <<current, seen>>
       ELSE \/ /\ verify_current
               /\ current' = current + 1
               /\ said' = format_current_step(active, current')
               /\ seen' = [seen EXCEPT ![active] =
                      IF current \in done[active] THEN @ \cup {current} ELSE @]
            \/ ~verify_current /\ said' = "not_yet" /\ UNCHANGED <<current, seen>>
            \/ /\ ~is_complete(active, current)
               /\ said' = "error" /\ UNCHANGED <<current, seen>>
    /\ UNCHANGED <<active, done>>

(* The user, or a turn of the agent, does a step's work or undoes it.      *)
Work == \E p \in Project :
    /\ \E s \in 0 .. Steps[p] - 1 :
           done' = [done EXCEPT ![p] = IF s \in @ THEN @ \ {s} ELSE @ \cup {s}]
    /\ UNCHANGED <<active, current, seen, said, nexts>>

(* Nothing of it is kept when anvil ends.                                  *)
Restart ==
    /\ active # NoProject /\ active' = NoProject /\ current' = 0 /\ said' = "none"
    /\ UNCHANGED <<done, seen, nexts>>

Next == (\E p \in Project : start_project(p)) \/ project_next \/ Work \/ Restart

Spec == Init /\ [][Next]_vars

-----------------------------------------------------------------------------
(* Types of the state.                                                     *)
TypeOK ==
    /\ active \in Project \cup {NoProject} /\ current \in 0 .. MaxNext
    /\ done \in [Project -> SUBSET Nat] /\ said \in Answers

(* A project is called finished only if each of its steps was verified in  *)
(* turn since it was started, also when others were started in between.    *)
FinishedIsVerified ==
    said = "finished" /\ active # NoProject => seen[active] = 0 .. Steps[active] - 1
=============================================================================
