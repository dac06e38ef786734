------------------------------- MODULE Overflow -------------------------------
(***************************************************************************)
(* Long outputs of tools: what the executor leaves of them, the file the   *)
(* terminal saves them to and names, and what /context does with these     *)
(* files (anvil/src/context.rs, render.rs, commands.rs,                    *)
(* anvil-tools/src/truncation.rs).  A name is the tool and the second.     *)
(***************************************************************************)
EXTENDS Naturals, FiniteSets

CONSTANTS
    Tool,       \* tools whose output is shown
    Threshold,  \* OVERFLOW_THRESHOLD, in lines
    MaxLines,   \* lines the executor leaves of an output
    MaxOutputs, \* bound: outputs
    MaxSecond   \* bound: seconds

OverflowConstants == {Threshold, MaxLines, MaxOutputs, MaxSecond} \subseteq Nat

VARIABLES
    second,     \* the time, as far as a name shows it
    dir,        \* the files: name, what is in them, order of modification
    made,       \* outputs so far; the last one's number
    told,       \* history: the names the terminal has shown, and for what
    clobbered   \* history: names that were written twice

vars == <<second, dir, made, told, clobbered>>

Names == [tool : Tool, second : 0 .. MaxSecond]

Init ==
    /\ second = 0 /\ dir = {} /\ made = 0
    /\ told = {} /\ clobbered = {}

(* What the executor leaves of an output of that many lines.               *)
Kept(lines) == IF lines > MaxLines THEN MaxLines ELSE lines

(* Mutant of FileName: a file of a tool is overwritten by its next one.    *)
ToolName(tool) == [tool |-> tool, second |-> 0]

FileName(tool) == [tool |-> tool, second |-> second]

(* A tool's output is shown; if what is left of it is long, it is saved,   *)
(* over a file of that name if there is one, and the name is told.         *)
save_overflow == \E tool \in Tool, lines \in 1 .. MaxLines + 1 :
    /\ made < MaxOutputs /\ made' = made + 1
    /\ IF Kept(lines) <= Threshold THEN UNCHANGED <<dir, told, clobbered>>
       ELSE LET name == FileName(tool)
                same == {f \in dir : f.name = name}
            IN  /\ dir' = (dir \ same) \cup
                          {[name |-> name, output |-> made', lines |-> Kept(lines)]}
                /\ told' = told \cup {[name |-> name, output |-> made', lines |-> lines]}
                /\ clobbered' = IF \E t \in told : t.name = [tool |-> tool, second |-> second]
                                THEN clobbered \cup {name} ELSE clobbered
    /\ UNCHANGED second

(* Outputs are numbered in the order in which they are written.            *)
Newer(f, g) == f.output > g.output

(* Mutant of list_context_files: the oldest first.                         *)
OldestFirst == [f \in dir |-> Cardinality({g \in dir : ~Newer(g, f)})]

(* The list, the newest first: every file and its place.                   *)
list_context_files == [f \in dir |-> Cardinality({g \in dir : ~Newer(f, g)})]

(* /context clean: all but the newest are removed.                         *)
cleanup_context == \E keep \in 0 .. MaxOutputs :
    /\ dir' = {f \in dir : list_context_files[f] <= keep}
    /\ dir' # dir
    /\ UNCHANGED <<second, made, told, clobbered>>

Tick ==
    /\ second < MaxSecond /\ second' = second + 1
    /\ UNCHANGED <<dir, made, told, clobbered>>

Next == save_overflow \/ cleanup_context \/ Tick

Spec == Init /\ [][Next]_vars

-----------------------------------------------------------------------------
(* The files a prefix may mean: a whole name, or the tool's part of one.   *)
Matches(tool, at) ==
    LET exact == {f \in dir : f.name = [tool |-> tool, second |-> at]}
    IN  IF exact # {} THEN exact ELSE {f \in dir : f.name.tool = tool}

(* /context show: one file, or an error if none or several match.          *)
read_context_file(tool, at) ==
    LET found == Matches(tool, at)
    IN  IF Cardinality(found) = 1 THEN (CHOOSE f \in found : TRUE).output ELSE 0

(* Types of the state.                                                     *)
TypeOK ==
    /\ second \in 0 .. MaxSecond /\ made \in 0 .. MaxOutputs
    /\ \A f \in dir : f.name \in Names /\ f.lines \in 1 .. MaxLines
    /\ clobbered \subseteq Names

(* A name the terminal has told leads to the output it was told for, as    *)
(* long as the file is there and the tool had no other output within the   *)
(* same second.                                                            *)
NamesLead == \A t \in told :
    (\E f \in dir : f.name = t.name) /\ t.name \notin clobbered
        => read_context_file(t.name.tool, t.name.second) = t.output

(* Cleaning up removes no output that is newer than one it keeps.          *)
CleanKeepsNewest ==
    [][\A f \in dir \ dir', g \in dir' : ~(g \in dir /\ Newer(f, g))
        \/ \E h \in dir' \ dir : h.name = f.name]_vars
=============================================================================
