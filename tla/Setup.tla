-------------------------------- MODULE Setup --------------------------------
(***************************************************************************)
(* The .anvil folders of a project and of a folder within it: what anvil   *)
(* init writes, what a start finds, and what else makes such a folder      *)
(* (anvil-config/src/lib.rs, anvil/src/main.rs).                           *)
(***************************************************************************)
EXTENDS Naturals, Sequences

CONSTANTS
    Root, Sub,   \* the project's folder, a folder in it
    NoDir,       \* no folder
    Items,       \* what anvil init writes after config.toml, in its order
    MaxInits,    \* bound: runs of anvil init
    MaxStarts,   \* bound: starts
    MaxEdits     \* bound: edits by the user

SetupConstants == Items \in Seq(STRING) /\ {MaxInits, MaxStarts, MaxEdits} \subseteq Nat

VARIABLES
    harness,    \* folder -> it has an .anvil
    item,       \* folder -> item -> "none", "torn", "default" or "user"
    where,      \* the folder anvil init runs in, or NoDir
    step,       \* the item it stands at
    writing,    \* it has made the file and not filled it
    killed,     \* history: an init was killed as it wrote
    loaded,     \* what the last start has loaded
    inits, starts, edits

vars == <<harness, item, where, step, writing, killed, loaded, inits, starts, edits>>

Dirs == {Root, Sub}
Plan == <<"config">> \o Items
Item == {Plan[i] : i \in DOMAIN Plan}

Init ==
    /\ harness = [d \in Dirs |-> FALSE]
    /\ item = [d \in Dirs |-> [i \in Item |-> "none"]]
    /\ where = NoDir /\ step = 0 /\ writing = FALSE
    /\ killed = FALSE /\ loaded = [at |-> NoDir, from |-> "nothing"]
    /\ inits = 0 /\ starts = 0 /\ edits = 0

(* The nearest .anvil, upward; the folder it is in.                        *)
find_harness_dir(d) ==
    IF harness[d] THEN d
    ELSE IF d = Sub /\ harness[Root] THEN Root
    ELSE NoDir

(* What a configuration file gives.  One that was cut off may be parsed or *)
(* not, and so may the one anvil init writes, which defines its profiles   *)
(* twice: as the empty list of the defaults, and as a table.               *)
Parsed(state) ==
    CASE state = "none" -> {"defaults"}
      [] state = "torn" -> {"defaults", "error"}
      [] state = "default" -> {"init", "error"}
      [] state = "user" -> {"user"}

(* Only the nearest .anvil is looked into, whether it has a file or not.   *)
load_settings(d) ==
    LET dir == find_harness_dir(d)
    IN  IF dir = NoDir THEN {"defaults"} ELSE Parsed(item[dir]["config"])

-----------------------------------------------------------------------------
(* Mutant of BeginInit: where there is an .anvil, nothing is to be done.    *)
BeginNew == \E d \in Dirs :
    /\ where = NoDir /\ inits < MaxInits /\ inits' = inits + 1
    /\ where' = d /\ step' = IF harness[d] THEN Len(Plan) + 1 ELSE 1
    /\ harness' = [harness EXCEPT ![d] = TRUE]
    /\ UNCHANGED <<item, writing, killed, loaded, starts, edits>>

BeginInit == \E d \in Dirs :
    /\ where = NoDir /\ inits < MaxInits /\ inits' = inits + 1
    /\ where' = d /\ step' = 1
    /\ harness' = [harness EXCEPT ![d] = TRUE]
    /\ UNCHANGED <<item, writing, killed, loaded, starts, edits>>

Stands == where # NoDir /\ step <= Len(Plan)

Put(state) == item' = [item EXCEPT ![where][Plan[step]] = state]

(* Mutant of init_harness: a file that exists is written again.            *)
Rewrite ==
    /\ Stands /\ ~writing /\ writing' = TRUE /\ Put("torn")
    /\ UNCHANGED <<harness, where, step, killed, loaded, inits, starts, edits>>

(* Each file in turn: one that exists is left as it is, another is made    *)
(* and then filled.                                                        *)
init_harness ==
    /\ Stands /\ ~writing
    /\ IF item[where][Plan[step]] = "none"
       THEN writing' = TRUE /\ Put("torn") /\ UNCHANGED step
       ELSE step' = step + 1 /\ UNCHANGED <<writing, item>>
    /\ UNCHANGED <<harness, where, killed, loaded, inits, starts, edits>>

Fill ==
    /\ writing /\ writing' = FALSE /\ Put("default") /\ step' = step + 1
    /\ UNCHANGED <<harness, where, killed, loaded, inits, starts, edits>>

Over == where' = NoDir /\ step' = 0 /\ writing' = FALSE

cmd_init ==
    /\ where # NoDir /\ step > Len(Plan) /\ Over
    /\ UNCHANGED <<harness, item, killed, loaded, inits, starts, edits>>

(* anvil init is killed.                                                   *)
Crash ==
    /\ where # NoDir /\ Over
    /\ killed' = (killed \/ writing)
    /\ UNCHANGED <<harness, item, loaded, inits, starts, edits>>

(* A start in either folder.                                               *)
Start == \E d \in Dirs, from \in {"nothing", "defaults", "error", "init", "user"} :
    /\ starts < MaxStarts /\ starts' = starts + 1
    /\ from \in load_settings(d) /\ loaded' = [at |-> d, from |-> from]
    /\ UNCHANGED <<harness, item, where, step, writing, killed, inits, edits>>

(* What runs there makes an .anvil of its own if it keeps a badge, a long  *)
(* output, a memory or a plan.                                             *)
Keep ==
    /\ loaded.from \notin {"nothing", "error"} /\ ~harness[loaded.at]
    /\ harness' = [harness EXCEPT ![loaded.at] = TRUE]
    /\ UNCHANGED <<item, where, step, writing, killed, loaded, inits, starts, edits>>

(* The user writes a file of an .anvil.                                    *)
Edit == \E d \in Dirs, i \in Item :
    /\ edits < MaxEdits /\ edits' = edits + 1
    /\ harness[d] /\ item' = [item EXCEPT ![d][i] = "user"]
    /\ UNCHANGED <<harness, where, step, writing, killed, loaded, inits, starts>>

Next == BeginInit \/ init_harness \/ Fill \/ cmd_init \/ Crash \/ Start \/ Keep \/ Edit

Spec == Init /\ [][Next]_vars

-----------------------------------------------------------------------------
(* Types of the state.                                                     *)
TypeOK ==
    /\ harness \in [Dirs -> BOOLEAN]
    /\ item \in [Dirs -> [Item -> {"none", "torn", "default", "user"}]]
    /\ where \in Dirs \cup {NoDir} /\ step \in 0 .. Len(Plan) + 1
    /\ writing \in BOOLEAN /\ killed \in BOOLEAN

(* An init that comes to its end leaves every file there, and whole unless *)
(* one was killed as it wrote.                                             *)
InitIsWhole ==
    where # NoDir /\ step > Len(Plan) =>
        \A i \in Item : item[where][i] # "none" /\ (item[where][i] = "torn" => killed)

(* What the user has written no init changes, however often it is run or   *)
(* killed; except into the file it is just filling.                        *)
UserFilesStay ==
    [][\A d \in Dirs, i \in Item :
        item[d][i] = "user" /\ ~(writing /\ where = d /\ Plan[step] = i)
            => item'[d][i] = "user"]_vars
=============================================================================
