------------------------------- MODULE Thinking -------------------------------
(***************************************************************************)
(* The filter that takes the thinking blocks out of a model's stream       *)
(* (anvil-agent/src/thinking.rs).  The text comes in deltas that may end   *)
(* anywhere, within a tag too.                                             *)
(***************************************************************************)
EXTENDS Naturals, Sequences, SequencesExt

CONSTANTS
    OpenTag, CloseTag,  \* the tags, as sequences of characters
    Streams       \* the texts that are streamed

ThinkingConstants == Len(OpenTag) > 0 /\ Len(CloseTag) > 0

VARIABLES
    stream,         \* the whole text
    read,           \* characters of it that have come
    show_thinking,  \* /think
    in_thinking, tag_buf,
    display,        \* what has been shown of it as text
    thinking,       \* and as thinking
    flushed

vars == <<stream, read, show_thinking, in_thinking, tag_buf, display, thinking, flushed>>

Drop(t, n) == SubSeq(t, n + 1, Len(t))
Take(t, n) == SubSeq(t, 1, n)

(* The places at which a text has a tag.                                   *)
Places(t, tag) == {i \in 1 .. Len(t) - Len(tag) + 1 : IsPrefix(tag, Drop(t, i - 1))}
First(t, tag) == CHOOSE i \in Places(t, tag) : \A k \in Places(t, tag) : i <= k

(* Mutant of PartialTag: a tag that is cut after its first character only. *)
OneCharacter(t, tag) == {n \in {1} : n < Len(tag) /\ IsSuffix(Take(tag, n), t)}

(* The lengths at which the end of a text may be the start of a tag.       *)
PartialTag(t, tag) == {n \in 1 .. Len(tag) - 1 : IsSuffix(Take(tag, n), t)}

Longest(lengths) == CHOOSE n \in lengths : \A k \in lengths : k <= n

State(in, buf, shown, thought) ==
    [in |-> in, buf |-> buf, shown |-> shown, thought |-> thought]

RECURSIVE Filtered(_)

(* Mutant of Inside: the buffer is let go when no whole tag is in it.      *)
InsideAtOnce(s) ==
    IF Places(s.buf, CloseTag) # {}
    THEN LET at == First(s.buf, CloseTag) IN
         Filtered(State(FALSE, Drop(s.buf, at + Len(CloseTag) - 1), s.shown,
                        s.thought \o Take(s.buf, at - 1)))
    ELSE State(TRUE, <<>>, s.shown, s.thought \o s.buf)

(* Inside a block: up to its end; or all of the buffer if it is long and   *)
(* does not end like a tag; or nothing yet.                                *)
Inside(s) ==
    IF Places(s.buf, CloseTag) # {}
    THEN LET at == First(s.buf, CloseTag) IN
         Filtered(State(FALSE, Drop(s.buf, at + Len(CloseTag) - 1), s.shown,
                        s.thought \o Take(s.buf, at - 1)))
    ELSE IF Len(s.buf) > Len(CloseTag) /\ PartialTag(s.buf, CloseTag) = {}
    THEN State(TRUE, <<>>, s.shown, s.thought \o s.buf)
    ELSE s

(* Outside: up to the next block; or what is not the start of a tag.       *)
Outside(s) ==
    IF Places(s.buf, OpenTag) # {}
    THEN LET at == First(s.buf, OpenTag) IN
         Filtered(State(TRUE, Drop(s.buf, at + Len(OpenTag) - 1),
                        s.shown \o Take(s.buf, at - 1), s.thought))
    ELSE LET kept == IF PartialTag(s.buf, OpenTag) = {} THEN 0 ELSE Longest(PartialTag(s.buf, OpenTag))
             n == Len(s.buf) - kept
         IN  State(FALSE, Drop(s.buf, n), s.shown \o Take(s.buf, n), s.thought)

Filtered(s) == IF s.buf = <<>> THEN s ELSE IF s.in THEN Inside(s) ELSE Outside(s)

-----------------------------------------------------------------------------
Init ==
    /\ stream \in Streams /\ show_thinking \in BOOLEAN
    /\ read = 0 /\ in_thinking = FALSE /\ tag_buf = <<>>
    /\ display = <<>> /\ thinking = <<>> /\ flushed = FALSE

(* A delta.                                                                *)
push == \E n \in 1 .. Len(stream) - read :
    LET delta == SubSeq(stream, read + 1, read + n)
        s == Filtered(State(in_thinking, tag_buf \o delta, <<>>, <<>>))
    IN  /\ ~flushed /\ read' = read + n
        /\ in_thinking' = s.in /\ tag_buf' = s.buf
        /\ display' = display \o s.shown
        /\ thinking' = IF show_thinking THEN thinking \o s.thought ELSE thinking
        /\ UNCHANGED <<stream, show_thinking, flushed>>

(* The end of the stream: the start of a tag was text after all.           *)
flush ==
    /\ read = Len(stream) /\ ~flushed /\ flushed' = TRUE
    /\ display' = IF in_thinking THEN display ELSE display \o tag_buf
    /\ in_thinking' = FALSE /\ tag_buf' = <<>>
    /\ UNCHANGED <<stream, read, show_thinking, thinking>>

Next == push \/ flush

Spec == Init /\ [][Next]_vars

-----------------------------------------------------------------------------
RECURSIVE Text(_), Thoughts(_)

(* The text outside the blocks of a whole stream, and that of its blocks   *)
(* that are closed; a block that is not closed goes on to the end.         *)
Text(t) ==
    IF Places(t, OpenTag) = {} THEN t
    ELSE LET at == First(t, OpenTag)
             rest == Drop(t, at + Len(OpenTag) - 1)
         IN  Take(t, at - 1) \o
             IF Places(rest, CloseTag) = {} THEN <<>>
             ELSE Text(Drop(rest, First(rest, CloseTag) + Len(CloseTag) - 1))

Thoughts(t) ==
    IF Places(t, OpenTag) = {} THEN <<>>
    ELSE LET rest == Drop(t, First(t, OpenTag) + Len(OpenTag) - 1)
         IN  IF Places(rest, CloseTag) = {} THEN <<>>
             ELSE Take(rest, First(rest, CloseTag) - 1)
                  \o Thoughts(Drop(rest, First(rest, CloseTag) + Len(CloseTag) - 1))

(* Types of the state.                                                     *)
TypeOK ==
    /\ read \in 0 .. Len(stream) /\ in_thinking \in BOOLEAN /\ flushed \in BOOLEAN
    /\ IsSuffix(tag_buf, Take(stream, read))

(* However a stream is cut into deltas, what is shown is the text outside  *)
(* its blocks: all of it in the end, never more of it before; nothing of a *)
(* block is shown but with /think, and then every block that is closed.    *)
ShownIsText ==
    /\ IsPrefix(display, Text(stream))
    /\ flushed => display = Text(stream)
    /\ ~show_thinking => thinking = <<>>
    /\ flushed /\ show_thinking => IsPrefix(Thoughts(stream), thinking)
=============================================================================
