-------------------------------- MODULE Memory --------------------------------
(***************************************************************************)
(* The notes of a workspace (anvil-agent/src/memory.rs and the /memory     *)
(* command): a file each, named by the second and a random part, with its  *)
(* category on a line before the text.  Several prompts may be open in the *)
(* workspace.                                                              *)
(***************************************************************************)
EXTENDS Naturals, FiniteSets

CONSTANTS
    Prompts,     \* open prompts
    Plain,       \* texts of notes
    Bracketed,   \* texts that are one word in brackets
    Empty,       \* no text
    MaxSeconds,  \* bound: seconds
    MaxNotes     \* bound: notes added

MemoryConstants == Empty \notin Plain \cup Bracketed /\ MaxSeconds \in Nat /\ MaxNotes \in Nat

VARIABLES
    now,        \* the second
    store,      \* the files
    doing,      \* prompt -> what it is in the middle of
    kept,       \* history: notes that were saved and not removed
    notes

vars == <<now, store, doing, kept, notes>>

Categories == {"Convention", "Gotcha", "Pattern", "Note"}
Idle == [op |-> "idle"]

Init ==
    /\ now = 0 /\ store = {} /\ kept = {} /\ notes = 0
    /\ doing = [p \in Prompts |-> Idle]

Do(p, what) == doing' = [doing EXCEPT ![p] = what]

-----------------------------------------------------------------------------
(* Mutant of Tag: the category is not written.                             *)
NoTag(category) == "none"

(* The line before the text: a plain note has none.                        *)
Tag(category) == IF category = "Note" THEN "none" ELSE category

(* /memory add makes the file and then writes it; the random part of its   *)
(* name decides where it comes among those of the same second.             *)
add_with_category(p) ==
  \E category \in Categories, text \in Plain \cup Bracketed, id \in 1 .. MaxNotes :
    /\ doing[p] = Idle /\ notes < MaxNotes /\ notes' = notes + 1
    /\ LET name == <<now, id>>
           file == [name |-> name, tag |-> "none", text |-> Empty]
       IN  /\ \A f \in store : f.name[2] # id
           /\ store' = store \cup {file}
           /\ Do(p, [op |-> "add", file |-> file, category |-> category,
                     whole |-> [name |-> name, tag |-> Tag(category), text |-> text]])
    /\ UNCHANGED <<now, kept>>

Fill(p) ==
    /\ doing[p].op = "add"
    /\ IF doing[p].file \in store
       THEN /\ store' = (store \ {doing[p].file}) \cup {doing[p].whole}
            /\ kept' = kept \cup {[name |-> doing[p].whole.name, category |-> doing[p].category,
                                   text |-> doing[p].whole.text]}
       ELSE UNCHANGED <<store, kept>>
    /\ Do(p, Idle) /\ UNCHANGED <<now, notes>>

Forget(file) == kept' = {k \in kept : k.name # file.name}

(* /memory rm                                                              *)
remove(p) == \E file \in store :
    /\ doing[p] = Idle
    /\ store' = store \ {file} /\ Forget(file)
    /\ UNCHANGED <<now, doing, notes>>

(* /memory clear goes through the files it has found, and ends with an     *)
(* error at one that another prompt has removed.                           *)
clear(p) ==
    /\ doing[p] = Idle
    /\ Do(p, [op |-> "clear", left |-> {f.name : f \in store}])
    /\ UNCHANGED <<now, store, kept, notes>>

(* Mutant of ClearNext: the notes of this second are taken for new ones.   *)
ClearOld(p) ==
    /\ doing[p].op = "clear"
    /\ Do(p, Idle) /\ store' = {f \in store : f.name \notin doing[p].left \/ f.name[1] = now}
    /\ kept' = {k \in kept : k.name \notin doing[p].left}
    /\ UNCHANGED <<now, notes>>

ClearNext(p) ==
    /\ doing[p].op = "clear"
    /\ IF doing[p].left = {} THEN Do(p, Idle) /\ UNCHANGED <<store, kept>>
       ELSE \E name \in doing[p].left :
           /\ Do(p, IF \E f \in store : f.name = name
                    THEN [op |-> "clear", left |-> doing[p].left \ {name}] ELSE Idle)
           /\ store' = {f \in store : f.name # name}
           /\ kept' = {k \in kept : k.name # name}
    /\ UNCHANGED <<now, notes>>

(* A prompt is killed in the middle of it.                                 *)
Killed(p) ==
    /\ doing[p] # Idle /\ Do(p, Idle)
    /\ UNCHANGED <<now, store, kept, notes>>

Tick ==
    /\ now < MaxSeconds /\ now' = now + 1
    /\ UNCHANGED <<store, doing, kept, notes>>

Next ==
    \/ \E p \in Prompts :
           add_with_category(p) \/ Fill(p) \/ remove(p) \/ clear(p) \/ ClearNext(p) \/ Killed(p)
    \/ Tick

Spec == Init /\ [][Next]_vars

-----------------------------------------------------------------------------
Before(a, b) == a.name[1] < b.name[1] \/ (a.name[1] = b.name[1] /\ a.name[2] < b.name[2])

(* A text that begins with a line in brackets is taken for a tag, also     *)
(* when it is all there is; an unknown tag is a note.                      *)
parse_category(file) ==
    IF file.tag # "none" THEN [name |-> file.name, category |-> file.tag, text |-> file.text]
    ELSE [name |-> file.name, category |-> "Note",
          text |-> IF file.text \in Bracketed THEN Empty ELSE file.text]

Entries == {parse_category(f) : f \in store}

(* Mutant of load_all: the files in the order of their random parts.       *)
LoadUnsorted == [e \in Entries |-> Cardinality({d \in Entries : d.name[2] < e.name[2]})]

(* The entries and the place of each: those that sort before it.           *)
load_all == [e \in Entries |-> Cardinality({d \in Entries : Before(d, e)})]

(* The section of the system prompt: the entries of each category, which   *)
(* come in their order.                                                    *)
as_prompt_section == [c \in Categories |-> {e \in DOMAIN load_all : e.category = c}]

search(text) == {e \in DOMAIN load_all : e.text = text}

TypeOK ==
    /\ now \in 0 .. MaxSeconds /\ notes \in 0 .. MaxNotes
    /\ \A f \in store : f.text \in Plain \cup Bracketed \cup {Empty}
    /\ \A f, g \in store : f.name = g.name => f = g

(* The prompt has every note that was saved and not removed, once, under   *)
(* the category it was given, those of an earlier second first, whatever   *)
(* the prompts do at once or are killed at; but a note that is nothing but *)
(* a word in brackets is lost.                                             *)
Readable == {k \in kept : k.category # "Note" \/ k.text \notin Bracketed}

NotesAreKept ==
    /\ \A c \in Categories :
          {e \in as_prompt_section[c] : e.text # Empty} = {k \in Readable : k.category = c}
    /\ \A k, l \in Readable : k.name[1] < l.name[1] => load_all[k] < load_all[l]
=============================================================================
