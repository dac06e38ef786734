----------------------------- MODULE LlmClient ------------------------------
(***************************************************************************)
(* One request to the model: LlmClient::chat_stream (client.rs) with its   *)
(* retries (retry.rs), the task that reads the answer and the agent that   *)
(* puts it together (stream.rs, the streaming part of Agent::turn); also   *)
(* LlmClient::chat, the request without a stream that compaction makes.    *)
(*                                                                         *)
(* The answer is a sequence of chunks: a piece of text, a piece of a tool  *)
(* call (with its place in the list of calls, its name or NoName, and a    *)
(* piece of its arguments), the usage, or data that cannot be parsed.      *)
(***************************************************************************)
EXTENDS Naturals, Sequences, SequencesExt

CONSTANTS
    Replies,      \* what the model may answer: sequences of chunks
    NoName,
    Capacity,     \* places of the event channel (64)
    MaxRetries,   \* RetryConfig::max_retries (3)
    MaxRequests   \* bound: requests of the agent

Chunks == UNION {{r[k] : k \in DOMAIN r} : r \in Replies}

LlmConstants ==
    /\ Capacity \in Nat \ {0} /\ {MaxRetries, MaxRequests} \subseteq Nat
    /\ Replies \subseteq Seq(Chunks)
    /\ \A c \in Chunks : /\ c.kind \in {"text", "call", "usage", "bad"}
                         /\ c.kind = "call" => c.index \in Nat \ {0}

VARIABLES
    phase,       \* "idle", "posting", "sleeping", "fallback", "stream" or "chat"
    attempt,     \* the loop variable of retry_async
    cancel,      \* the token of the turn
    requests,
    \* the task that reads the answer
    wire,        \* chunks it has not read
    reader,      \* "off", "reading" or "ended"
    pending,     \* events of the current line it has yet to send
    chan,        \* the channel between the two
    \* the agent
    content_buf, tool_acc, was_cancelled,
    usage,       \* LlmClient::usage: the recorded answers
    answer,      \* the last request's outcome with its text and calls
    \* history
    reply,       \* what the model answered
    cut,         \* the answer was not read to its end
    heard        \* the token had fired before the agent was done with the stream

reading == <<wire, reader, pending, chan>>
agent == <<content_buf, tool_acc, was_cancelled, usage, answer>>
hist == <<reply, cut, heard>>
vars == <<phase, attempt, cancel, requests, reading, agent, hist>>

Event(kind) == [kind |-> kind]
NoAnswer == [outcome |-> "none", text |-> <<>>, calls |-> <<>>]

Init ==
    /\ phase = "idle" /\ attempt = 0 /\ cancel = FALSE /\ requests = 0
    /\ wire = <<>> /\ reader = "off" /\ pending = <<>> /\ chan = <<>>
    /\ content_buf = <<>> /\ tool_acc = <<>> /\ was_cancelled = FALSE
    /\ usage = 0 /\ answer = NoAnswer
    /\ reply = <<>> /\ cut = FALSE /\ heard = FALSE

-----------------------------------------------------------------------------
(* The POST and its retries.  Neither heeds the token.                     *)
chat_stream ==
    /\ phase = "idle" /\ requests < MaxRequests /\ reader \in {"off", "ended"}
    /\ requests' = requests + 1
    /\ phase' = "posting" /\ attempt' = 0 /\ cancel' = FALSE
    /\ reader' = "off" /\ chan' = <<>> /\ pending' = <<>>
    /\ content_buf' = <<>> /\ tool_acc' = <<>> /\ was_cancelled' = FALSE
    /\ answer' = NoAnswer /\ cut' = FALSE /\ heard' = FALSE
    /\ UNCHANGED <<wire, usage, reply>>

Fails(outcome) ==
    /\ phase' = "idle"
    /\ answer' = [NoAnswer EXCEPT !.outcome = outcome]
    /\ UNCHANGED <<requests, cancel, attempt, reading, content_buf, tool_acc,
                   was_cancelled, usage, hist>>

(* 2xx: the answer begins, and a task reads it.                            *)
PostSucceeds(r) ==
    /\ phase \in {"posting", "fallback"}
    /\ phase' = "stream"
    /\ reply' = r /\ wire' = r
    /\ reader' = "reading"
    /\ UNCHANGED <<attempt, cancel, requests, pending, chan, agent, cut, heard>>

(* Mutant of PostIsTransient: the attempts are not counted.                *)
PostIsTransientForever ==
    /\ phase = "posting"
    /\ phase' = "sleeping"
    /\ UNCHANGED <<attempt, cancel, requests, reading, agent, hist>>

(* 429, 5xx, a refused or reset connection.                                *)
PostIsTransient ==
    /\ phase = "posting"
    /\ IF attempt < MaxRetries
         THEN /\ phase' = "sleeping" /\ attempt' = attempt + 1
              /\ UNCHANGED <<cancel, requests, reading, agent, hist>>
         ELSE Fails("error")

SleepEnds ==
    /\ phase = "sleeping"
    /\ phase' = "posting"
    /\ UNCHANGED <<attempt, cancel, requests, reading, agent, hist>>

(* Another status; and any failure of the request made without tool_choice.*)
PostIsRefused ==
    /\ phase \in {"posting", "fallback"}
    /\ Fails("error")

(* 400 or 422 with a body that names tool_choice: once more without it.    *)
ToolChoiceRefused ==
    /\ phase = "posting"
    /\ phase' = "fallback"
    /\ UNCHANGED <<attempt, cancel, requests, reading, agent, hist>>

-----------------------------------------------------------------------------
(* process_sse_stream.  A line gives an event for its usage, its text or   *)
(* its piece of a call; a line that cannot be parsed gives none.           *)
EventsOf(chunk) == IF chunk.kind = "bad" THEN <<>> ELSE <<chunk>>

ReadChunk ==
    /\ reader = "reading" /\ pending = <<>> /\ wire # <<>>
    /\ pending' = EventsOf(Head(wire))
    /\ wire' = Tail(wire)
    /\ cut' = (cut \/ Head(wire).kind = "bad")
    /\ UNCHANGED <<phase, attempt, cancel, requests, reader, chan, agent, reply,
                   heard>>

(* Mutant of SendEvent: a piece of text that finds the channel full is     *)
(* dropped.                                                                *)
TrySendText ==
    /\ pending # <<>>
    /\ Head(pending).kind = "text" \/ phase # "stream" \/ Len(chan) < Capacity
    /\ chan' = IF phase = "stream" /\ Len(chan) < Capacity
               THEN Append(chan, Head(pending)) ELSE chan
    /\ pending' = Tail(pending)
    /\ UNCHANGED <<phase, attempt, cancel, requests, wire, reader, agent, hist>>

(* tx.send: waits for a place; fails, and is ignored, when the agent has   *)
(* let go of the stream.                                                   *)
SendEvent ==
    /\ pending # <<>>
    /\ IF phase = "stream" THEN Len(chan) < Capacity /\ chan' = Append(chan, Head(pending))
                           ELSE chan' = chan
    /\ pending' = Tail(pending)
    /\ UNCHANGED <<phase, attempt, cancel, requests, wire, reader, agent, hist>>

EndWith(events, early) ==
    /\ reader = "reading" /\ pending = <<>>
    /\ reader' = "ended" /\ pending' = events
    /\ cut' = (cut \/ early)
    /\ UNCHANGED <<phase, attempt, cancel, requests, wire, chan, agent, reply, heard>>

(* [DONE], or the end of the body: early or not, it is taken for the end.  *)
ReadEnd == wire = <<>> /\ EndWith(<<Event("done")>>, FALSE)

BodyCloses == wire # <<>> /\ EndWith(<<Event("done")>>, TRUE)

BodyBreaks == EndWith(<<Event("error"), Event("done")>>, TRUE)

(* Mutant of ReaderCancelled: the token is looked at with the last line.   *)
ReaderCancelledLast == cancel /\ wire = <<>> /\ EndWith(<<Event("done")>>, FALSE)

ReaderCancelled == cancel /\ EndWith(<<Event("done")>>, wire # <<>>)

(* Ctrl+C, a cancelled turn.                                               *)
Cancel ==
    /\ phase # "idle" /\ ~cancel
    /\ cancel' = TRUE
    /\ UNCHANGED <<phase, attempt, requests, reading, agent, hist>>

-----------------------------------------------------------------------------
(* The agent.  ToolCallAccumulator: pieces are put together by their place *)
(* in the list, whose gaps are filled.                                     *)
Partial == [name |-> NoName, args |-> <<>>]

(* Mutant of push_delta: a piece goes to the last call.                    *)
push_deltaLast(acc, d) ==
    IF d.name = NoName /\ acc # <<>>
      THEN [acc EXCEPT ![Len(acc)].args = Append(@, d.part)]
      ELSE Append(acc, [name |-> d.name, args |-> <<d.part>>])

push_delta(acc, d) ==
    LET padded == [k \in 1 .. (IF d.index > Len(acc) THEN d.index ELSE Len(acc)) |->
                     IF k <= Len(acc) THEN acc[k] ELSE Partial]
    IN  [padded EXCEPT ![d.index] =
           [name |-> IF d.name = NoName THEN @.name ELSE d.name,
            args |-> Append(@.args, d.part)]]

finish(acc) == SelectSeq(acc, LAMBDA c : c.name # NoName)

Receive ==
    /\ phase = "stream" /\ chan # <<>> /\ Head(chan).kind \in {"text", "call", "usage"}
    /\ chan' = Tail(chan)
    /\ CASE Head(chan).kind = "text" ->
              /\ content_buf' = Append(content_buf, Head(chan).part)
              /\ UNCHANGED <<tool_acc, usage>>
         [] Head(chan).kind = "call" ->
              /\ tool_acc' = push_delta(tool_acc, Head(chan))
              /\ UNCHANGED <<content_buf, usage>>
         [] OTHER ->
              /\ usage' = usage + 1
              /\ UNCHANGED <<content_buf, tool_acc>>
    /\ UNCHANGED <<phase, attempt, cancel, requests, wire, reader, pending,
                   was_cancelled, answer, hist>>

(* Mutant of StreamEnds: the token is not looked at after the stream.      *)
StreamEndsUnheard ==
    /\ phase = "stream" /\ chan # <<>> /\ Head(chan).kind \in {"error", "done"}
    /\ was_cancelled' = (Head(chan).kind = "error")
    /\ phase' = "idle" /\ chan' = <<>>
    /\ heard' = cancel
    /\ answer' = [text |-> content_buf, calls |-> finish(tool_acc),
                  outcome |-> IF was_cancelled' THEN "cancelled"
                              ELSE IF finish(tool_acc) = <<>> THEN "complete" ELSE "calls"]
    /\ UNCHANGED <<attempt, cancel, requests, wire, reader, pending, content_buf,
                   tool_acc, usage, reply, cut>>

(* Error or Done: the agent lets go of the stream, looks at the token and  *)
(* keeps what it has.                                                      *)
StreamEnds ==
    /\ phase = "stream" /\ chan # <<>> /\ Head(chan).kind \in {"error", "done"}
    /\ was_cancelled' = (Head(chan).kind = "error" \/ cancel)
    /\ phase' = "idle" /\ chan' = <<>>
    /\ heard' = cancel
    /\ answer' = [text |-> content_buf, calls |-> finish(tool_acc),
                  outcome |-> IF was_cancelled' THEN "cancelled"
                              ELSE IF finish(tool_acc) = <<>> THEN "complete" ELSE "calls"]
    /\ UNCHANGED <<attempt, cancel, requests, wire, reader, pending, content_buf,
                   tool_acc, usage, reply, cut>>

(* LlmClient::chat: one POST, no retry, no token.                          *)
chat ==
    /\ phase = "idle" /\ requests < MaxRequests
    /\ requests' = requests + 1 /\ phase' = "chat"
    /\ cancel' = FALSE
    /\ UNCHANGED <<attempt, reading, agent, hist>>

ChatReturns ==
    /\ phase = "chat" /\ phase' = "idle"
    /\ \/ usage' = usage + 1
       \/ usage' = usage
    /\ UNCHANGED <<attempt, cancel, requests, reading, content_buf, tool_acc,
                   was_cancelled, answer, hist>>

Over == phase = "idle" /\ requests = MaxRequests /\ UNCHANGED vars

-----------------------------------------------------------------------------
Next ==
    \/ chat_stream \/ (\E r \in Replies : PostSucceeds(r))
    \/ PostIsTransient \/ SleepEnds \/ PostIsRefused \/ ToolChoiceRefused
    \/ ReadChunk \/ SendEvent \/ ReadEnd \/ BodyCloses \/ BodyBreaks \/ ReaderCancelled
    \/ Cancel \/ Receive \/ StreamEnds \/ chat \/ ChatReturns \/ Over

Spec == Init /\ [][Next]_vars

ServerAnswers ==
    (\E r \in Replies : PostSucceeds(r)) \/ PostIsTransient \/ PostIsRefused
      \/ ToolChoiceRefused \/ ChatReturns

(* The tasks run, and one that waits for the token or a line goes on when  *)
(* there is one.  A server answers a POST, but owes nothing after that: it *)
(* may go silent in the middle of its answer.                              *)
Fairness ==
    /\ WF_vars(ReaderCancelled) /\ WF_vars(SendEvent) /\ WF_vars(Receive)
    /\ WF_vars(StreamEnds) /\ WF_vars(SleepEnds) /\ WF_vars(ServerAnswers)

FairSpec == Spec /\ Fairness

-----------------------------------------------------------------------------
Kinds == {"text", "call", "usage", "bad", "error", "done"}

TypeOK ==
    /\ phase \in {"idle", "posting", "sleeping", "fallback", "stream", "chat"}
    /\ attempt \in 0 .. MaxRetries /\ requests \in 0 .. MaxRequests
    /\ {cancel, was_cancelled, cut, heard} \subseteq BOOLEAN
    /\ reader \in {"off", "reading", "ended"}
    /\ \A s \in {wire, pending, chan, reply} : \A k \in DOMAIN s : s[k].kind \in Kinds
    /\ Len(chan) <= Capacity /\ usage \in Nat
    /\ answer.outcome \in {"none", "error", "cancelled", "complete", "calls"}

(* The reference: the text and the calls of an answer, read as a whole.    *)
(* A piece has the place in its list that it has among the places of its   *)
(* kind; a call's name is the last that was given for it.                  *)
Rank(k, places) == Cardinality({l \in places : l <= k})
Listed(r, places) ==
    [j \in 1 .. Cardinality(places) |->
       r[CHOOSE k \in places : Rank(k, places) = j].part]

TextPlaces(r, n) == {k \in 1 .. n : r[k].kind = "text"}
CallPlaces(r, n, i) == {k \in 1 .. n : r[k].kind = "call" /\ r[k].index = i}
NamePlaces(r, n, i) == {k \in CallPlaces(r, n, i) : r[k].name # NoName}
Indices(r, n) == {r[k].index : k \in {j \in 1 .. n : r[j].kind = "call"}}

TextOf(r) == Listed(r, TextPlaces(r, Len(r)))
CallAt(r, i) ==
    LET named == NamePlaces(r, Len(r), i)
    IN  [name |-> IF named = {} THEN NoName ELSE r[Max(named)].name,
         args |-> Listed(r, CallPlaces(r, Len(r), i))]
CallsOf(r) ==
    finish([i \in 1 .. Max(Indices(r, Len(r)) \cup {0}) |-> CallAt(r, i)])

(* An answer that was read to its end is acted on as a whole: the pieces   *)
(* the task sent through the channel and the agent put together are the    *)
(* model's text and calls, the pieces of several calls told apart.         *)
AnswerIsWhole ==
    answer.outcome \in {"calls", "complete"} /\ ~cut =>
        /\ answer.text = TextOf(reply)
        /\ answer.calls = CallsOf(reply)

(* However the stream ends, what the agent keeps is the beginning of the   *)
(* model's text, unless a chunk could not be parsed.                       *)
TextIsPrefix ==
    answer.outcome \in {"calls", "complete", "cancelled"}
      /\ (\A k \in DOMAIN reply : reply[k].kind # "bad")
        => IsPrefix(answer.text, TextOf(reply))

(* A token that fired while the answer was read keeps its calls from being *)
(* made, whatever the reading task had already sent.                       *)
CancelledIsNotActedOn == heard => answer.outcome \notin {"calls", "complete"}

(* Once the answer streams, a fired token ends the turn, even when the     *)
(* server has gone silent and the channel is full.                         *)
CancelEndsStream == phase = "stream" /\ cancel ~> phase # "stream"

(* A server that answers every POST with whatever it likes gives an end to *)
(* the request: the retries run out.                                       *)
RequestEnds == phase \in {"posting", "sleeping", "fallback", "chat"} ~>
               phase \in {"stream", "idle"}
=============================================================================
