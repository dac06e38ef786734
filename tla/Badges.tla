-------------------------------- MODULE Badges --------------------------------
(***************************************************************************)
(* Badges: what a prompt of anvil counts of its turns, and the file of a   *)
(* workspace in which the badges that were unlocked are kept               *)
(* (anvil-agent/src/achievements.rs, anvil/src/interactive.rs).  Two       *)
(* prompts may be open in one workspace; each reads the file once, when it *)
(* starts, and writes all of its own copy at every badge.                  *)
(***************************************************************************)
EXTENDS Naturals, FiniteSets

CONSTANTS
    Prompt,     \* interactive sessions
    Asking,     \* tools whose calls ask the user
    ToolGoal,   \* different tools for tool_master
    TalkGoal,   \* messages for marathon
    MaxTurns,   \* bound: turns of all prompts
    MaxStarts   \* bound: starts of prompts

BadgesConstants ==
    /\ Asking \subseteq {"shell", "file_write", "git_commit"}
    /\ ToolGoal \in Nat /\ TalkGoal \in Nat /\ MaxTurns \in Nat

VARIABLES
    file,       \* the badges in the file, or Torn
    unlocked,   \* prompt -> its copy
    at,         \* prompt -> "down", "prompt", "turn", "awards" or "saves"
    used,       \* prompt -> tools a call of which was shown to the user
    talk,       \* prompt -> messages
    pending,    \* prompt -> badges triggered in the turn
    award,      \* prompt -> the badge that is being saved
    told,       \* history: badge -> times it was announced
    shared,     \* history: two prompts have been open at once
    torn,       \* history: a prompt was killed as it wrote
    turns, starts

vars == <<file, unlocked, at, used, talk, pending, award, told, shared, torn, turns, starts>>

(* What a call triggers.                                                   *)
Trigger == [shell |-> "first_command", file_write |-> "first_file", git_commit |-> "git_hero"]

Badge == {Trigger[t] : t \in DOMAIN Trigger} \cup {"tool_master", "marathon"}

(* A file that is being written, or was when its writer was killed.        *)
Torn == {"torn"}

Go(p, where) == at' = [at EXCEPT ![p] = where]

Init ==
    /\ file = {} /\ unlocked = [p \in Prompt |-> {}]
    /\ at = [p \in Prompt |-> "down"]
    /\ used = [p \in Prompt |-> {}] /\ talk = [p \in Prompt |-> 0]
    /\ pending = [p \in Prompt |-> {}] /\ award = [p \in Prompt |-> "none"]
    /\ told = [b \in Badge |-> 0]
    /\ shared = FALSE /\ torn = FALSE /\ turns = 0 /\ starts = 0

(* Mutant of load: the file is not read.                                   *)
LoadNothing == {}

(* A file that cannot be parsed counts as empty.                           *)
load == IF file = Torn THEN {} ELSE file

Start(p) ==
    /\ at[p] = "down" /\ starts < MaxStarts /\ starts' = starts + 1
    /\ Go(p, "prompt")
    /\ unlocked' = [unlocked EXCEPT ![p] = load]
    /\ shared' = (shared \/ \E q \in Prompt \ {p} : at[q] # "down")
    /\ UNCHANGED <<file, used, talk, pending, award, told, torn, turns>>

record_message(p) ==
    /\ at[p] = "prompt" /\ turns < MaxTurns /\ turns' = turns + 1
    /\ Go(p, "turn")
    /\ talk' = [talk EXCEPT ![p] = @ + 1]
    /\ pending' = [pending EXCEPT ![p] = IF talk'[p] >= TalkGoal THEN {"marathon"} ELSE {}]
    /\ UNCHANGED <<file, unlocked, used, award, told, shared, torn, starts>>

(* A call the user is asked about, before the answer; the calls that need  *)
(* no permission are not counted.                                          *)
record_tool_call(p) == \E tool \in Asking :
    /\ at[p] = "turn"
    /\ used' = [used EXCEPT ![p] = @ \cup {tool}]
    /\ pending' = [pending EXCEPT ![p] =
           @ \cup {Trigger[tool]}
             \cup IF Cardinality(used'[p]) >= ToolGoal THEN {"tool_master"} ELSE {}]
    /\ UNCHANGED <<file, unlocked, at, talk, award, told, shared, torn, turns, starts>>

(* Only a turn that is complete earns anything.                            *)
TurnEnds(p) ==
    /\ at[p] = "turn"
    /\ \/ Go(p, "awards") /\ UNCHANGED pending
       \/ Go(p, "prompt") /\ pending' = [pending EXCEPT ![p] = {}]
    /\ UNCHANGED <<file, unlocked, used, talk, award, told, shared, torn, turns, starts>>

(* Mutant of unlock: the badge is announced and not saved.                 *)
UnlockUnsaved(p) == \E b \in pending[p] :
    /\ at[p] = "awards"
    /\ pending' = [pending EXCEPT ![p] = @ \ {b}]
    /\ unlocked' = [unlocked EXCEPT ![p] = @ \cup {b}]
    /\ told' = [told EXCEPT ![b] = IF b \in unlocked[p] THEN @ ELSE @ + 1]
    /\ UNCHANGED <<file, at, award, used, talk, shared, torn, turns, starts>>

(* A badge is new to the prompt's copy, or dropped.  All of the copy is    *)
(* written: the file is empty before it is whole.                          *)
unlock(p) == \E b \in pending[p] :
    /\ at[p] = "awards"
    /\ pending' = [pending EXCEPT ![p] = @ \ {b}]
    /\ IF b \in unlocked[p] THEN UNCHANGED <<at, file, unlocked, award>>
       ELSE /\ Go(p, "saves") /\ file' = Torn
            /\ unlocked' = [unlocked EXCEPT ![p] = @ \cup {b}]
            /\ award' = [award EXCEPT ![p] = b]
    /\ UNCHANGED <<used, talk, told, shared, torn, turns, starts>>

save(p) ==
    /\ at[p] = "saves" /\ Go(p, "awards")
    /\ file' = unlocked[p]
    /\ told' = [told EXCEPT ![award[p]] = @ + 1]
    /\ award' = [award EXCEPT ![p] = "none"]
    /\ UNCHANGED <<unlocked, used, talk, pending, shared, torn, turns, starts>>

Awarded(p) ==
    /\ at[p] = "awards" /\ pending[p] = {} /\ Go(p, "prompt")
    /\ UNCHANGED <<file, unlocked, used, talk, pending, award, told, shared, torn, turns, starts>>

(* The prompt ends, or is killed.                                          *)
Ends(p) ==
    /\ at[p] # "down" /\ Go(p, "down")
    /\ torn' = (torn \/ at[p] = "saves")
    /\ pending' = [pending EXCEPT ![p] = {}]
    /\ award' = [award EXCEPT ![p] = "none"]
    /\ unlocked' = [unlocked EXCEPT ![p] = {}]
    /\ used' = [used EXCEPT ![p] = {}] /\ talk' = [talk EXCEPT ![p] = 0]
    /\ UNCHANGED <<file, told, shared, turns, starts>>

Next == \E p \in Prompt :
    \/ Start(p) \/ record_message(p) \/ record_tool_call(p) \/ TurnEnds(p)
    \/ unlock(p) \/ save(p) \/ Awarded(p) \/ Ends(p)

Spec == Init /\ [][Next]_vars

-----------------------------------------------------------------------------
(* Types of the state.                                                     *)
TypeOK ==
    /\ file = Torn \/ file \subseteq Badge
    /\ unlocked \in [Prompt -> SUBSET Badge] /\ pending \in [Prompt -> SUBSET Badge]
    /\ at \in [Prompt -> {"down", "prompt", "turn", "awards", "saves"}]
    /\ used \in [Prompt -> SUBSET Asking]
    /\ award \in [Prompt -> Badge \cup {"none"}]

(* As long as no two prompts were open at once and none was killed in the  *)
(* middle of a save, a badge is announced once and is in the file from     *)
(* then on, over any number of restarts.                                   *)
AwardsLast ==
    ~shared /\ ~torn => \A b \in Badge :
        /\ told[b] <= 1
        /\ told[b] = 1 /\ file # Torn => b \in file
=============================================================================
