-------------------------------- MODULE Skills --------------------------------
(***************************************************************************)
(* The skills of a workspace (anvil-agent/src/skills.rs): what the loader  *)
(* makes of a file, and the order in which the skills that one depends on  *)
(* come before it.  A file is a sequence of lines; the user writes them.   *)
(***************************************************************************)
EXTENDS Naturals, Sequences, SequencesExt, FiniteSets

CONSTANTS
    Keys,       \* names of files
    NoFile,
    Fronts,     \* what a line of YAML may list as dependencies, a sequence of keys
    MaxLines,   \* bound: lines of the page the user writes
    MaxEdits    \* bound: changes of dependencies

SkillsConstants == Fronts \subseteq Seq(Keys) /\ MaxLines \in Nat /\ MaxEdits \in Nat

VARIABLES
    depends,    \* key -> the dependencies its file lists, or NoFile
    page,       \* the lines of a page being written
    edits

vars == <<depends, page, edits>>

(* A line is a fence (---), a YAML line of metadata, one that is no YAML,  *)
(* a heading, some text, or blank.                                         *)
Kinds == {"fence", "yaml", "junk", "heading", "text", "blank"}

-----------------------------------------------------------------------------
Skip(lines, kind) ==
    LET i == SelectInSeq(lines, LAMBDA l : l # kind)
    IN  IF i = 0 THEN <<>> ELSE SubSeq(lines, i, Len(lines))

(* Mutant of Closing: the last fence closes the front.                     *)
LastFence(lines) == SelectLastInSeq(lines, LAMBDA l : l = "fence")

(* The first fence that comes after at least one line.                     *)
Closing(lines) ==
    IF lines = <<>> THEN 0
    ELSE LET i == SelectInSeq(Tail(lines), LAMBDA l : l = "fence")
         IN  IF i = 0 THEN 0 ELSE i + 1

(* YAML: a heading is a comment to it, a fence may open it.                *)
IsYaml(lines) ==
    LET inner == IF Head(lines) = "fence" THEN Tail(lines) ELSE lines
    IN  ToSet(inner) \subseteq {"yaml", "blank", "heading"} /\ "yaml" \in ToSet(inner)

(* Between the fences there must be YAML; else all of the file is text.    *)
extract_frontmatter(lines) ==
    LET start == Skip(lines, "blank")
        rest == Skip(Tail(start), "blank")
        end == Closing(rest)
        front == SubSeq(rest, 1, end - 1)
    IN  IF start # <<>> /\ Head(start) = "fence" /\ end # 0
           /\ IsYaml(front)
        THEN [front |-> front, body |-> Skip(SubSeq(rest, end + 1, Len(rest)), "blank")]
        ELSE [front |-> <<>>, body |-> lines]

(* The body from its first heading on is the prompt; without a heading all *)
(* of it is.  The first line of text describes the skill.                  *)
parse_body(lines) ==
    LET heading == SelectInSeq(lines, LAMBDA l : l = "heading")
        content == IF heading = 0 THEN lines ELSE SubSeq(lines, heading + 1, Len(lines))
    IN  [named |-> heading # 0, content |-> content,
         described |-> \E i \in DOMAIN content : content[i] # "blank"]

parse_skill_file(lines) == parse_body(extract_frontmatter(lines).body)

-----------------------------------------------------------------------------
get(key) == depends[key] # NoFile

scan == {key \in Keys : get(key)}

RECURSIVE resolve_recursive(_, _, _)

(* Mutant of Resolved: a skill comes before those it depends on.           *)
ResolvedFirst(order, key) == IF Contains(order, key) THEN order ELSE <<key>> \o order

Resolved(order, key) == Append(order, key)

(* The keys in the order they are done, or <<>> for an error: a skill that *)
(* is not there, or one that is being visited.                             *)
resolve_recursive(key, order, visiting) ==
    IF Contains(order, key) THEN [ok |-> TRUE, order |-> order]
    ELSE IF key \in visiting \/ ~get(key) THEN [ok |-> FALSE, order |-> order]
    ELSE LET Dependency(r, dep) ==
                 IF r.ok THEN resolve_recursive(dep, r.order, visiting \cup {key}) ELSE r
             done == FoldLeft(Dependency, [ok |-> TRUE, order |-> order], depends[key])
         IN  IF done.ok THEN [ok |-> TRUE, order |-> Resolved(done.order, key)] ELSE done

resolve_dependencies(key) == resolve_recursive(key, <<>>, {})

-----------------------------------------------------------------------------
Init == depends \in [Keys -> {NoFile, <<>>}] /\ page = <<>> /\ edits = 0

EditDepends == \E key \in Keys, front \in Fronts \cup {NoFile} :
    /\ edits < MaxEdits /\ edits' = edits + 1
    /\ depends[key] # front /\ depends' = [depends EXCEPT ![key] = front]
    /\ UNCHANGED page

WriteLine == \E kind \in Kinds :
    /\ edits = 0 /\ Len(page) < MaxLines
    /\ depends = [key \in Keys |-> NoFile]
    /\ page' = Append(page, kind) /\ UNCHANGED <<depends, edits>>

Next == (page = <<>> /\ EditDepends) \/ WriteLine

Spec == Init /\ [][Next]_vars

-----------------------------------------------------------------------------
TypeOK ==
    /\ depends \in [Keys -> Fronts \cup {NoFile, <<>>}]
    /\ page \in Seq(Kinds) /\ edits \in 0 .. MaxEdits

(* The skills that one needs, directly or not; and those on a cycle.       *)
RECURSIVE Needs(_, _)
Needs(from, n) ==
    IF n = 0 THEN from
    ELSE Needs(from \cup UNION {ToSet(depends[k]) : k \in from \cap scan}, n - 1)

NeededBy(key) == Needs({key}, Cardinality(Keys))

OnCycle(key) ==
    get(key) /\ \E dep \in ToSet(depends[key]) : key \in NeededBy(dep)

(* A skill is resolved exactly if all it needs is there and none of that   *)
(* needs itself, and then to all it needs, each once and after what it     *)
(* depends on.                                                             *)
DependenciesComeFirst == \A key \in Keys :
    LET r == resolve_dependencies(key)
        At(k) == CHOOSE i \in DOMAIN r.order : r.order[i] = k
    IN  /\ r.ok <=> NeededBy(key) \subseteq scan /\ \A k \in NeededBy(key) : ~OnCycle(k)
        /\ r.ok => /\ ToSet(r.order) = NeededBy(key) /\ IsInjective(r.order)
                   /\ \A k \in NeededBy(key) : \A dep \in ToSet(depends[k]) : At(dep) < At(k)

(* A page with a front of metadata shows none of it to the model, and from *)
(* its first heading on all that follows the front; one that has no front  *)
(* is shown from its first heading.                                        *)
PagesAreRead ==
    LET content == parse_skill_file(page).content
        first == SelectInSeq(page, LAMBDA l : l = "heading")
        close == SelectInSeq(SubSeq(page, 2, Len(page)), LAMBDA l : l = "fence") + 1
        fronted == /\ page # <<>> /\ page[1] = "fence" /\ close > 2
                   /\ \A i \in 2 .. close - 1 : page[i] = "yaml"
    IN  /\ fronted /\ first > close => content = SubSeq(page, first + 1, Len(page))
        /\ fronted /\ first = 0 => IsSuffix(content, SubSeq(page, close + 1, Len(page)))
        /\ "fence" \notin ToSet(page) /\ first # 0 => content = SubSeq(page, first + 1, Len(page))
=============================================================================
