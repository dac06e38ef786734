-------------------------------- MODULE Search --------------------------------
(***************************************************************************)
(* Looking for files in a workspace: the tools grep, find and ls           *)
(* (anvil-tools/src/tools.rs), and the map of its sources that the agent   *)
(* makes at a start or when it is told to (anvil-agent/src/repo_map.rs).   *)
(***************************************************************************)
EXTENDS Naturals, Sequences, SequencesExt, FiniteSets, FiniteSetsExt, Functions

CONSTANTS
    Root,        \* the workspace's folder
    Orders,      \* folder -> its entries, in the orders the system may list them
    Hidden,      \* entries whose name begins with a dot
    Noise,       \* folders every search leaves out (node_modules, target)
    Built,       \* folders only find, ls and the map leave out (dist, build)
    Sources,     \* files the map takes by their extension
    Symbols,     \* file -> symbols defined in it
    Size,        \* file -> length of its line in the map
    PartOf,      \* pairs of files, the path of one being in that of the other
    MaxResults,  \* 500
    MaxDepth,    \* 10
    MaxMatches,  \* 5
    Budget,      \* length of the map that is shown
    MaxTouches   \* bound: changes of files

SearchConstants ==
    /\ Symbols \in [Sources -> SUBSET STRING] /\ Size \in [Sources -> Nat]
    /\ {MaxResults, MaxDepth, MaxMatches, Budget, MaxTouches} \subseteq Nat

VARIABLES
    entries,    \* folder -> its entries as they are listed
    hits,       \* file -> lines that match a pattern
    recent,     \* the files, the one changed last first
    map,        \* what the agent knows of recent, and of the symbols' order
    touches

vars == <<entries, hits, recent, map, touches>>

Dirs == DOMAIN entries
Files == UNION {ToSet(entries[d]) : d \in Dirs} \ Dirs

-----------------------------------------------------------------------------
(* A result of grep is a line of a file, or the note that there were more. *)
More == "... (truncated, too many matches)"

grep_file(f) == [i \in 1 .. hits[f] |-> <<f, i>>]

(* Mutants of Full: at the limit; every folder for itself, and too late.   *)
FullAtLimit(results) == Len(results) >= MaxResults

Full(results) == Len(results) > MaxResults

RECURSIVE grep_dir(_, _, _)

(* A folder is left at the limit with a note; the folder it is in goes on. *)
grep_dir(dir, depth, results) ==
    LET Entry(r, e) ==
            IF r.left \/ e \in Hidden \cup Noise THEN r
            ELSE IF e \in Dirs THEN [r EXCEPT !.found = grep_dir(e, depth + 1, @)]
            ELSE LET found == r.found \o grep_file(e)
                 IN  IF Full(found) THEN [found |-> Append(found, More), left |-> TRUE]
                     ELSE [r EXCEPT !.found = found]
    IN  IF depth > MaxDepth THEN results
        ELSE FoldLeft(Entry, [found |-> results, left |-> FALSE], entries[dir]).found

grep == grep_dir(Root, 0, <<>>)

(* Mutant of should_skip: the hidden ones are kept.                        *)
SkipBuilt(e) == e \in Noise \cup Built

should_skip(e) == e \in Hidden \cup Noise \cup Built

RECURSIVE find_recursive(_, _, _)
find_recursive(dir, depth, results) ==
    LET Entry(found, e) ==
            IF should_skip(e) THEN found
            ELSE IF e \in Dirs THEN find_recursive(e, depth + 1, found)
            ELSE Append(found, e)
    IN  IF depth > MaxDepth \/ Len(results) > MaxResults THEN results
        ELSE FoldLeft(Entry, results, entries[dir])

find ==
    LET found == find_recursive(Root, 0, <<>>)
    IN  IF Len(found) > MaxResults THEN Append(SubSeq(found, 1, MaxResults), More) ELSE found

ls(dir) == {e \in ToSet(entries[dir]) : ~should_skip(e)}

-----------------------------------------------------------------------------
RECURSIVE walk_dir(_)
walk_dir(dir) ==
    FoldLeft(LAMBDA found, e :
                 IF e \in Hidden \/ e \in Noise \cup Built THEN found
                 ELSE IF e \in Dirs THEN found \o walk_dir(e)
                 ELSE IF e \in Sources THEN Append(found, e) ELSE found,
             <<>>, entries[dir])

(* The files, newest first, and as they were walked.                       *)
scan == LET walked == walk_dir(Root)
        IN  [files |-> SelectSeq(recent, LAMBDA f : f \in ToSet(walked)), walked |-> walked]

(* The lines that fit, up to the first that does not.                      *)
Lengths(n) == FoldLeft(LAMBDA sum, f : sum + Size[f], 0, SubSeq(map.files, 1, n))
Shown == Max({n \in 0 .. Len(map.files) : Lengths(n) <= Budget})

(* The rest is counted by the paths that are nowhere in the text.          *)
NotShown ==
    Len(map.files) - Cardinality({f \in ToSet(map.files) :
        \E i \in 1 .. Shown : f = map.files[i] \/ <<f, map.files[i]>> \in PartOf})

(* Mutant of Add: a file may come twice.                                   *)
AddAgain(list, f) == Append(list, f)

Add(list, f) == IF f \in ToSet(list) THEN list ELSE Append(list, f)

(* The files of the symbols in a query, in the order of its words, then    *)
(* those it names; the first few of them.                                  *)
find_files_for_query(words) ==
    LET BySymbol(list, w) == FoldLeft(Add, list, SelectSeq(map.walked, LAMBDA f : w \in Symbols[f]))
        ByName(list, w) == FoldLeft(Add, list, SelectSeq(map.files, LAMBDA f : w = f))
        all == FoldLeft(ByName, FoldLeft(BySymbol, <<>>, words), words)
    IN  SubSeq(all, 1, Min({MaxMatches, Len(all)}))

-----------------------------------------------------------------------------
Init ==
    /\ entries \in Orders
    /\ hits = [f \in Files |-> 0]
    /\ recent = SetToSeq(Files) /\ map = scan /\ touches = 0

(* A file is changed.                                                      *)
Touch(f) == \E n \in 0 .. 2 :
    /\ touches < MaxTouches /\ touches' = touches + 1
    /\ hits' = [hits EXCEPT ![f] = n]
    /\ recent' = <<f>> \o SelectSeq(recent, LAMBDA g : g # f)
    /\ UNCHANGED <<entries, map>>

(* A start of the agent, or /map refresh.                                  *)
refresh_repo_map ==
    /\ map # scan /\ map' = scan
    /\ UNCHANGED <<entries, hits, recent, touches>>

Next == (\E f \in Files : Touch(f)) \/ refresh_repo_map

Spec == Init /\ [][Next]_vars

-----------------------------------------------------------------------------
TypeOK ==
    /\ \A f \in Files : hits[f] \in 0 .. 2
    /\ ToSet(recent) = Files /\ IsInjective(recent) /\ ToSet(map.files) \subseteq Sources

(* The folders from the root to a file; what a search may not leave out.   *)
RECURSIVE Above(_, _)
Above(e, n) ==
    IF e = Root \/ n = 0 THEN {e}
    ELSE {e} \cup Above(CHOOSE d \in Dirs : e \in ToSet(entries[d]), n - 1)

Within(f, out) ==
    LET path == Above(f, 10)
    IN  path \cap out = {} /\ Cardinality(path) - 2 <= MaxDepth

(* A search that does not say that there is more has found every line and  *)
(* every file, each once, in whatever order the system lists them; one     *)
(* that does has at least as many results as the limit.                    *)
SearchIsComplete ==
    LET lines == SelectSeq(grep, LAMBDA r : r # More)
        matches == {<<f, i>> : f \in {f \in Files : Within(f, Hidden \cup Noise)}, i \in 1 .. 2}
        there == {m \in matches : m[2] <= hits[m[1]]}
        visible == {f \in Files : Within(f, Hidden \cup Noise \cup Built)}
    IN  /\ IsInjective(lines) /\ ToSet(lines) \subseteq there
        /\ IF lines = grep THEN ToSet(grep) = there ELSE Len(lines) > MaxResults
        /\ IsInjective(find) /\ ToSet(find) \subseteq visible \cup {More}
        /\ IF More \in ToSet(find) THEN Len(find) = MaxResults + 1 ELSE ToSet(find) = visible
        /\ ToSet(entries[Root]) \cap visible \subseteq ls(Root)

Vocabulary == Sources \cup UNION {Symbols[f] : f \in Sources}
Queries == {<<w>> : w \in Vocabulary} \cup {<<v, w>> : v, w \in Vocabulary}

(* The map never says that more is left out than is; a query finds each    *)
(* file that it names or a symbol of which it names, once and the latter   *)
(* first, unless it has found enough.                                      *)
MapIsHonest ==
    /\ NotShown <= Len(map.files) - Shown
    /\ \A q \in Queries :
        LET found == find_files_for_query(q)
            defining == {f \in ToSet(map.files) : Symbols[f] \cap ToSet(q) # {}}
            named == ToSet(map.files) \cap ToSet(q)
        IN  /\ IsInjective(found) /\ Len(found) <= MaxMatches
            /\ ToSet(found) \subseteq defining \cup named
            /\ Len(found) < MaxMatches => ToSet(found) = defining \cup named
            /\ \A i, k \in DOMAIN found : i < k /\ found[k] \in defining => found[i] \in defining
=============================================================================
