-------------------------------- MODULE Filters --------------------------------
(***************************************************************************)
(* What the program makes of text it does not control: the tail of a       *)
(* command's output that the model is shown (anvil-tools/truncation.rs),   *)
(* the arguments found in what the model wrote (anvil-agent/               *)
(* json_filter.rs), the arguments of /ralph and /backend start             *)
(* (anvil/commands.rs), and the calls that repeat (anvil-agent/agent.rs).  *)
(* An output is the sequence of its lines' lengths, the other texts are    *)
(* sequences of tokens.                                                    *)
(***************************************************************************)
EXTENDS Integers, Sequences, SequencesExt, FiniteSets

CONSTANTS
    MaxLines, MaxBytes,  \* limits of an output that is shown
    Window, Limit,       \* calls remembered, and equal ones that are a loop
    MaxInput             \* bound: lines, tokens or calls

FiltersConstants ==
    {MaxLines, MaxBytes, Window, Limit, MaxInput} \subseteq Nat \ {0}

VARIABLES
    output,     \* what a command wrote, line by line
    ended,      \* whether its last line is ended
    raw,        \* what the model wrote for arguments
    args,       \* what the user wrote for arguments
    called,     \* the calls of the agent so far
    hashes,     \* those it remembers
    looped      \* whether the last one was reported

vars == <<output, ended, raw, args, called, hashes, looped>>

-----------------------------------------------------------------------------
(* The bytes of lines that are each ended, or joined.                      *)
Ended(lines) == FoldLeft(LAMBDA sum, len : sum + len + 1, 0, lines)
Joined(lines) == IF lines = <<>> THEN 0 ELSE Ended(lines) - 1

(* lines() of a joined text: an empty last line is none.                   *)
LinesOf(joined) ==
    IF joined # <<>> /\ Last(joined) = 0 THEN Front(joined) ELSE joined

LastOnes(seq, n) == SubSeq(seq, Len(seq) - n + 1, Len(seq))

(* Mutant of OfBytes: the line that goes beyond the limit is kept.         *)
OneMore(lines) ==
    LET fits == {n \in 0..Len(lines) : n = 0 \/ Ended(LastOnes(lines, n - 1)) <= MaxBytes}
    IN  LastOnes(lines, CHOOSE n \in fits : \A k \in fits : k <= n)

(* The last lines that fit, an end of line counted for every one.          *)
OfBytes(lines) ==
    LET fits == {n \in 0..Len(lines) : Ended(LastOnes(lines, n)) <= MaxBytes}
    IN  LastOnes(lines, CHOOSE n \in fits : \A k \in fits : k <= n)

(* Mutant of truncate_output: the range starts one line early.             *)
StartsEarly(lines, bytes) ==
    IF Len(lines) <= MaxLines /\ bytes <= MaxBytes
    THEN [shown |-> lines, cut |-> FALSE, start |-> 1]
    ELSE LET tail == LastOnes(lines, IF Len(lines) > MaxLines THEN MaxLines ELSE Len(lines))
             kept == IF Joined(tail) > MaxBytes THEN OfBytes(LinesOf(tail)) ELSE tail
         IN  [shown |-> kept, cut |-> TRUE, start |-> Len(lines) - Len(LinesOf(kept))]

truncate_output(lines, bytes) ==
    IF Len(lines) <= MaxLines /\ bytes <= MaxBytes
    THEN [shown |-> lines, cut |-> FALSE, start |-> 1]
    ELSE LET tail == LastOnes(lines, IF Len(lines) > MaxLines THEN MaxLines ELSE Len(lines))
             kept == IF Joined(tail) > MaxBytes THEN OfBytes(LinesOf(tail)) ELSE tail
         IN  [shown |-> kept, cut |-> TRUE, start |-> Len(lines) - Len(LinesOf(kept)) + 1]

-----------------------------------------------------------------------------
(* Objects, one of them in another, and another value; nothing else is     *)
(* JSON.  The names of their members are left out.                         *)
Object == {<<"{", "}">>, <<"{", "value", "}">>, <<"{", "{", "}", "}">>}
Value == Object \cup {<<"value">>}

(* Mutant of Outermost: the last opening brace.                            *)
Innermost(text) ==
    LET a == SelectLastInSeq(text, LAMBDA t : t = "{")
        b == SelectLastInSeq(text, LAMBDA t : t = "}")
    IN  IF a = 0 \/ b < a THEN <<>> ELSE SubSeq(text, a, b)

(* From the first opening brace to the last closing one.                   *)
Outermost(text) ==
    LET a == SelectInSeq(text, LAMBDA t : t = "{")
        b == SelectLastInSeq(text, LAMBDA t : t = "}")
    IN  IF a = 0 \/ b < a THEN <<>> ELSE SubSeq(text, a, b)

extract_json(text) ==
    IF text \in Value THEN text
    ELSE IF Outermost(text) \in Value THEN Outermost(text) ELSE <<"{", "}">>

-----------------------------------------------------------------------------
(* Mutant of RalphToken: a new flag is not looked for after the number's.  *)
NumberFirst(s, t) ==
    IF s.expect THEN [s EXCEPT !.max = t, !.expect = FALSE, !.ok = @ /\ t = "3"]
    ELSE IF t = "--verify" THEN [s EXCEPT !.in = TRUE]
    ELSE IF t = "--max-iterations" THEN [s EXCEPT !.expect = TRUE]
    ELSE IF s.in THEN [s EXCEPT !.verify = Append(@, t)]
    ELSE [s EXCEPT !.prompt = Append(@, t)]

(* One token of /ralph; a number that is none ends it.                     *)
RalphToken(s, t) ==
    IF ~s.ok THEN s
    ELSE IF t = "--verify" THEN [s EXCEPT !.in = TRUE]
    ELSE IF t = "--max-iterations" THEN [s EXCEPT !.expect = TRUE]
    ELSE IF s.expect THEN [s EXCEPT !.max = t, !.expect = FALSE, !.ok = t = "3"]
    ELSE IF s.in THEN [s EXCEPT !.verify = Append(@, t)]
    ELSE [s EXCEPT !.prompt = Append(@, t)]

parse_ralph_args(tokens) ==
    FoldLeft(RalphToken,
             [prompt |-> <<>>, verify |-> <<>>, max |-> "10", in |-> FALSE,
              expect |-> FALSE, ok |-> TRUE], tokens)

(* /backend start: the first word is the model, a bad port the usual one.  *)
BackendToken(s, t) ==
    IF t = "--port" THEN [s EXCEPT !.expect = TRUE]
    ELSE IF s.expect THEN [s EXCEPT !.port = IF t = "3" THEN t ELSE "8080", !.expect = FALSE]
    ELSE IF s.model = "" THEN [s EXCEPT !.model = t]
    ELSE s

parse_backend_start_args(tokens) ==
    FoldLeft(BackendToken, [model |-> "", port |-> "8080", expect |-> FALSE], tokens)

-----------------------------------------------------------------------------
Init ==
    /\ output = <<>> /\ ended = TRUE /\ raw = <<>> /\ args = <<>>
    /\ called = <<>> /\ hashes = <<>> /\ looped = FALSE

(* A command writes a line, with or without its end.                       *)
Writes(len, end) ==
    /\ raw = <<>> /\ args = <<>> /\ called = <<>>
    /\ ended /\ Len(output) < MaxInput /\ (end \/ len > 0)
    /\ output' = Append(output, len) /\ ended' = end
    /\ UNCHANGED <<raw, args, called, hashes, looped>>

(* The model writes a piece of arguments.                                  *)
Answers(t) ==
    /\ output = <<>> /\ args = <<>> /\ called = <<>> /\ Len(raw) < MaxInput
    /\ raw' = Append(raw, t)
    /\ UNCHANGED <<output, ended, args, called, hashes, looped>>

(* The user writes an argument of a command.                               *)
Types(t) ==
    /\ output = <<>> /\ raw = <<>> /\ called = <<>> /\ Len(args) < MaxInput
    /\ args' = Append(args, t)
    /\ UNCHANGED <<output, ended, raw, called, hashes, looped>>

(* Mutant of Remembered: the oldest call is forgotten one call early.      *)
ForgottenEarly(call) ==
    LET all == Append(hashes, call) IN IF Len(all) >= Window THEN Tail(all) ELSE all

Remembered(call) ==
    LET all == Append(hashes, call) IN IF Len(all) > Window THEN Tail(all) ELSE all

(* A tool is called: one that changes things is reported if it was called  *)
(* too often, and called all the same; one that only reads is recorded.    *)
record_tool_call(call) ==
    /\ output = <<>> /\ raw = <<>> /\ args = <<>> /\ Len(called) < MaxInput
    /\ called' = Append(called, call) /\ hashes' = Remembered(call)
    /\ looped' = (/\ call # "read"
                  /\ Len(SelectSeq(hashes, LAMBDA h : h = call)) >= Limit)
    /\ UNCHANGED <<output, ended, raw, args>>

Next ==
    \/ \E len \in 0..2, end \in BOOLEAN : Writes(len, end)
    \/ \E t \in {"{", "}", "value", "text"} : Answers(t)
    \/ \E t \in {"--verify", "--max-iterations", "--port", "word", "3"} : Types(t)
    \/ \E call \in {"read", "edit", "run"} : record_tool_call(call)

Spec == Init /\ [][Next]_vars

-----------------------------------------------------------------------------
TypeOK ==
    /\ output \in Seq(Nat) /\ ended \in BOOLEAN /\ looped \in BOOLEAN
    /\ Len(hashes) <= Window /\ Len(called) <= MaxInput

(* What is shown of an output is its end, within both limits, and as much  *)
(* of it as fits but for one end of line; the range announced is the lines *)
(* shown, unless the output ends in an empty line.                         *)
TailIsKept ==
    LET bytes == Ended(output) - (IF ended THEN 0 ELSE 1)
        t == truncate_output(output, bytes)
        lines == LinesOf(output)
    IN  IF ~t.cut THEN Len(output) <= MaxLines /\ bytes <= MaxBytes
        ELSE /\ Len(t.shown) <= MaxLines /\ Joined(t.shown) <= MaxBytes
             /\ t.shown \in {LastOnes(output, Len(t.shown)), LastOnes(lines, Len(t.shown))}
             /\ \/ Len(t.shown) = MaxLines
                \/ Len(t.shown) >= Len(lines)
                \/ Joined(t.shown) + 1 + lines[Len(lines) - Len(t.shown)] >= MaxBytes
             /\ lines = output => t.shown = SubSeq(output, t.start, Len(output))

(* An object is found in text around it that has no brace, and nothing is  *)
(* made of a text that has none.                                           *)
ObjectIsFound ==
    /\ \A a \in 1..Len(raw), b \in 1..Len(raw) :
           /\ SubSeq(raw, a, b) \in Object
           /\ \A i \in DOMAIN raw \ (a..b) : raw[i] \notin {"{", "}"}
           => extract_json(raw) = SubSeq(raw, a, b)
    /\ extract_json(raw) \in Value

(* Every word of /ralph is kept: those before --verify are the prompt,     *)
(* those after it the command, but for the first after --max-iterations.   *)
Flags == {"--verify", "--max-iterations"}
Number(i) ==
    /\ args[i] \notin Flags
    /\ \E k \in 1..(i - 1) : /\ args[k] = "--max-iterations"
                             /\ \A n \in (k + 1)..(i - 1) : args[n] \in Flags
WordsAreKept ==
    LET r == parse_ralph_args(args)
        b == parse_backend_start_args(args)
        words == SelectSeq([i \in DOMAIN args |-> i],
                           LAMBDA i : args[i] \notin Flags /\ ~Number(i))
        first == SelectInSeq(args, LAMBDA t : t = "--verify")
    IN  /\ r.ok = (\A i \in DOMAIN args : Number(i) => args[i] = "3")
        /\ r.ok => /\ r.prompt \o r.verify = [i \in DOMAIN words |-> args[words[i]]]
                   /\ \A i \in DOMAIN words :
                          (i > Len(r.prompt)) = (first # 0 /\ words[i] > first)
        /\ b.model # "" => b.model \in ToSet(args) \ {"--port"}

(* A call that changes something is reported exactly when as many of the   *)
(* calls before it, within the window, were the same as the limit says.    *)
LoopsAreReported ==
    called # <<>> =>
        LET last == Last(called)
            before == LET n == Len(called) - 1
                      IN  SubSeq(called, IF n > Window THEN n - Window + 1 ELSE 1, n)
        IN  looped = (/\ last # "read"
                      /\ Cardinality({i \in DOMAIN before : before[i] = last}) >= Limit)
=============================================================================
