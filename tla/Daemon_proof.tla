----------------------------- MODULE Daemon_proof -----------------------------
(***************************************************************************)
(* Proofs about Daemon: the inductive invariant DaemonInv, which relates   *)
(* each connection to its place in the queue, in the dispatch loop and in  *)
(* the two channels behind it; and the safety properties that follow.      *)
(***************************************************************************)
EXTENDS Daemon, SequenceTheorems, TLAPS

Exited(c) == client[c] \in {"exit 0", "exit 1"}

(* Nothing has been said to the client.                                    *)
Fresh(c) ==
    /\ reply[c] = <<>> /\ wire[c] = <<>> /\ got[c] = <<>>
    /\ ended[c] = "none" /\ c \notin shed /\ ~Exited(c)

IsLast(f) == f.kind # "progress"

(* The events a client has printed, those on the wire and those in the     *)
(* reply channel are those of the turn from the first on; nothing follows  *)
(* one that is not a progress event.                                       *)
InOrder(g, w, r) ==
    /\ \A n \in DOMAIN g : g[n] = n
    /\ \A n \in DOMAIN w :
          \/ w[n] = Progress(Len(g) + n)
          \/ IsLast(w[n]) /\ n = Len(w) /\ r = <<>>
    /\ \A n \in DOMAIN r :
          \/ r[n] = Progress(Len(g) + Len(w) + n)
          \/ IsLast(r[n]) /\ n = Len(r)

Total(g, w, r) == Len(g) + Len(w) + Len(r)

(* The one that was sent last.                                             *)
Latest(w, r) == IF r # <<>> THEN r[Len(r)] ELSE w[Len(w)]

Numbered(c) == InOrder(got[c], wire[c], reply[c])
Sent(c) == Total(got[c], wire[c], reply[c])
Newest(c) == Latest(wire[c], reply[c])
Waiting(c) == wire[c] # <<>> \/ reply[c] # <<>>

(* The turn of a prompt is over: its last event is on its way, or the      *)
(* client has exited on it.                                                *)
Told(c) ==
    /\ ended[c] # "none"
    /\ \/ /\ ~Exited(c)
          /\ Waiting(c) /\ Newest(c) = Last(ended[c]) /\ Sent(c) = emitted[c] + 1
       \/ /\ reply[c] = <<>> /\ wire[c] = <<>> /\ Len(got[c]) = emitted[c]
          /\ client[c] = IF ended[c] = "complete" THEN "exit 0" ELSE "exit 1"

(* Where a connection stands before its task is taken from the queue.      *)
Accepted(c) ==
    /\ client[c] = "new" => request[c] = "none" /\ handler[c] = "none"
    /\ handler[c] = "none" => client[c] = "new"
    /\ handler[c] \in {"none", "enqueue", "ack", "refuse"} => Fresh(c) /\ current # c
    /\ handler[c] \in {"none", "enqueue", "refuse"} => ~Queued(c)
    /\ handler[c] = "ack" => request[c] = "shutdown"
    /\ handler[c] = "refuse" => daemon # "running"
    /\ handler[c] = "stream" => request[c] # "shutdown"
    /\ handler[c] = "closed" => reply[c] = <<>>
    /\ Queued(c) => current # c /\ ended[c] = "none"
    /\ Queued(c) /\ request[c] # "shutdown" => Fresh(c) /\ handler[c] = "stream"
    /\ request[c] = "shutdown" /\ daemon = "running" => handler[c] = "enqueue" \/ Queued(c)

(* Where it stands while its turn runs, and afterwards.                    *)
Served(c) ==
    /\ current = c =>
          /\ IsPrompt(c) /\ ended[c] = "none"
          /\ \/ handler[c] = "closed" /\ c \in shed
             \/ /\ handler[c] = "stream" /\ c \notin shed /\ ~Exited(c)
                /\ Sent(c) = emitted[c]
                /\ Waiting(c) => ~IsLast(Newest(c))
    /\ daemon = "running" /\ IsPrompt(c) /\ c \notin shed
          => handler[c] = "enqueue" \/ Queued(c) \/ current = c \/ Told(c)

(* A client waits in the queue at one place at most.                       *)
Distinct ==
    \A m, n \in DOMAIN queue : queue[m] = queue[n] /\ queue[m] \in Clients => m = n

QueueInv ==
    /\ Distinct
    /\ current # NoTask => daemon = "running"
    /\ stage = "ending" => outcome # "none"

DaemonInv ==
    /\ TypeOK /\ QueueInv
    /\ \A c \in Clients : Numbered(c) /\ Accepted(c) /\ Served(c)

-----------------------------------------------------------------------------
(* Sequences.                                                              *)
LEMMA ValuesOfAppend ==
    ASSUME NEW S, NEW s \in Seq(S), NEW e \in S
    PROVE  /\ Append(s, e) \in Seq(S) /\ Append(s, e) # <<>>
           /\ Len(Append(s, e)) = Len(s) + 1
           /\ DOMAIN Append(s, e) = 1 .. Len(s) + 1
           /\ \A n \in 1 .. Len(s) : Append(s, e)[n] = s[n]
           /\ Append(s, e)[Len(s) + 1] = e
  BY AppendProperties, LenProperties

LEMMA ValuesOfTail ==
    ASSUME NEW S, NEW s \in Seq(S), s # <<>>
    PROVE  /\ Tail(s) \in Seq(S) /\ Head(s) \in S /\ Head(s) = s[1]
           /\ Len(s) \in Nat \ {0} /\ Len(Tail(s)) = Len(s) - 1
           /\ DOMAIN Tail(s) = 1 .. Len(s) - 1 /\ DOMAIN s = 1 .. Len(s)
           /\ \A n \in 1 .. Len(s) - 1 : Tail(s)[n] = s[n + 1]
           /\ Tail(s) = <<>> <=> Len(s) = 1
           /\ Tail(s) # <<>> => Tail(s)[Len(Tail(s))] = s[Len(s)]
<1>1. /\ Tail(s) \in Seq(S) /\ Head(s) \in S /\ Head(s) = s[1]
      /\ Len(s) \in Nat \ {0} /\ Len(Tail(s)) = Len(s) - 1
      /\ DOMAIN Tail(s) = 1 .. Len(s) - 1 /\ DOMAIN s = 1 .. Len(s)
      /\ \A n \in 1 .. Len(s) - 1 : Tail(s)[n] = s[n + 1]
  BY HeadTailProperties, LenProperties
<1>2. Tail(s) = <<>> <=> Len(Tail(s)) = 0
  BY <1>1, EmptySeq
<1>3. Tail(s) = <<>> <=> Len(s) = 1
  BY <1>1, <1>2
<1>4. ASSUME Tail(s) # <<>> PROVE Tail(s)[Len(Tail(s))] = s[Len(s)]
  <2>1. Len(s) - 1 \in 1 .. Len(s) - 1
    BY <1>1, <1>3, <1>4
  <2> QED BY <1>1, <2>1
<1> QED BY <1>1, <1>3, <1>4

-----------------------------------------------------------------------------
(* What becomes of the order when a frame is read, ...                     *)
LEMMA ReadOne ==
    ASSUME NEW g \in Seq(Nat), NEW w \in Seq(Event), NEW r \in Seq(Event),
           w # <<>>, InOrder(g, w, r)
    PROVE  \/ /\ Head(w) = Progress(Len(g) + 1)
              /\ InOrder(Append(g, Len(g) + 1), Tail(w), r)
              /\ Total(Append(g, Len(g) + 1), Tail(w), r) = Total(g, w, r)
              /\ IF Tail(w) = <<>> /\ r = <<>> THEN Latest(w, r) = Head(w)
                                               ELSE Latest(Tail(w), r) = Latest(w, r)
           \/ /\ IsLast(Head(w))
              /\ Tail(w) = <<>> /\ r = <<>> /\ Latest(w, r) = Head(w)
              /\ InOrder(g, Tail(w), r) /\ Total(g, w, r) = Len(g) + 1
<1> DEFINE h == Append(g, Len(g) + 1)
           v == Tail(w)
<1>1. /\ Len(g) \in Nat /\ DOMAIN g = 1 .. Len(g)
      /\ Len(r) \in Nat /\ DOMAIN r = 1 .. Len(r)
  BY LenProperties
<1>2. /\ Len(h) = Len(g) + 1 /\ DOMAIN h = 1 .. Len(g) + 1
      /\ \A n \in 1 .. Len(g) : h[n] = g[n]
      /\ h[Len(g) + 1] = Len(g) + 1
  BY <1>1, ValuesOfAppend
<1>3. /\ Head(w) = w[1] /\ Len(w) \in Nat \ {0} /\ DOMAIN w = 1 .. Len(w)
      /\ Len(v) = Len(w) - 1 /\ DOMAIN v = 1 .. Len(w) - 1 /\ v \in Seq(Event)
      /\ \A n \in 1 .. Len(w) - 1 : v[n] = w[n + 1]
  BY ValuesOfTail
<1>4. /\ v = <<>> <=> Len(w) = 1
      /\ v # <<>> => v[Len(v)] = w[Len(w)]
  BY ValuesOfTail
<1> HIDE DEF h, v
<1>5. \/ w[1] = Progress(Len(g) + 1)
      \/ IsLast(w[1]) /\ 1 = Len(w) /\ r = <<>>
  BY <1>3 DEF InOrder
<1>6. CASE w[1] = Progress(Len(g) + 1)
  <2>1. \A n \in DOMAIN h : h[n] = n
    BY <1>1, <1>2 DEF InOrder
  <2>2. ASSUME NEW n \in 1 .. Len(w) - 1
        PROVE  \/ v[n] = Progress(Len(h) + n)
               \/ IsLast(v[n]) /\ n = Len(v) /\ r = <<>>
    <3>1. n + 1 \in 1 .. Len(w) /\ v[n] = w[n + 1]
      BY <1>3
    <3>2. Len(g) + (n + 1) = Len(h) + n
      BY <1>1, <1>2
    <3>3. n + 1 = Len(w) => n = Len(v)
      <4>1. Len(w) \in Nat /\ Len(v) = Len(w) - 1
        BY <1>3
      <4> QED BY <2>2, <4>1
    <3> QED BY <1>3, <3>1, <3>2, <3>3 DEF InOrder
  <2>3. \A n \in DOMAIN r : Len(h) + Len(v) + n = Len(g) + Len(w) + n
    BY <1>1, <1>2, <1>3
  <2>4. InOrder(h, v, r)
    BY <1>3, <2>1, <2>2, <2>3 DEF InOrder
  <2>5. Total(h, v, r) = Total(g, w, r)
    BY <1>1, <1>2, <1>3 DEF Total
  <2>6. IF v = <<>> /\ r = <<>> THEN Latest(w, r) = w[1] ELSE Latest(v, r) = Latest(w, r)
    BY <1>4 DEF Latest
  <2> QED BY <1>3, <1>6, <2>4, <2>5, <2>6 DEF h, v
<1>7. CASE IsLast(w[1]) /\ 1 = Len(w) /\ r = <<>>
  <2>1. v = <<>> /\ DOMAIN v = {}
    BY <1>3, <1>4, <1>7
  <2>2. InOrder(g, v, r)
    BY <1>7, <2>1 DEF InOrder
  <2>3. Len(r) = 0
    BY <1>7, EmptySeq
  <2>4. Total(g, w, r) = Len(g) + 1
    <3>1. Len(g) \in Nat /\ Len(w) = 1
      BY <1>1, <1>7
    <3> QED BY <2>3, <3>1 DEF Total
  <2>5. Latest(w, r) = w[1]
    BY <1>7 DEF Latest
  <2> QED BY <1>3, <1>7, <2>1, <2>2, <2>4, <2>5 DEF v
<1> QED BY <1>5, <1>6, <1>7

(* ... forwarded ...                                                       *)
LEMMA ForwardOne ==
    ASSUME NEW g \in Seq(Nat), NEW w \in Seq(Event), NEW r \in Seq(Event),
           r # <<>>, InOrder(g, w, r)
    PROVE  LET v == Append(w, Head(r))
           IN  /\ InOrder(g, v, Tail(r)) /\ v # <<>>
               /\ Total(g, v, Tail(r)) = Total(g, w, r)
               /\ Latest(v, Tail(r)) = Latest(w, r)
<1> DEFINE v == Append(w, Head(r))
           q == Tail(r)
<1>1. /\ Len(g) \in Nat /\ DOMAIN g = 1 .. Len(g)
      /\ Len(w) \in Nat /\ DOMAIN w = 1 .. Len(w)
  BY LenProperties
<1>2. /\ Head(r) = r[1] /\ Head(r) \in Event
      /\ Len(r) \in Nat \ {0} /\ DOMAIN r = 1 .. Len(r)
      /\ Len(q) = Len(r) - 1 /\ DOMAIN q = 1 .. Len(r) - 1 /\ q \in Seq(Event)
      /\ \A n \in 1 .. Len(r) - 1 : q[n] = r[n + 1]
  BY ValuesOfTail
<1>3. /\ q = <<>> <=> Len(r) = 1
      /\ q # <<>> => q[Len(q)] = r[Len(r)]
  BY ValuesOfTail
<1>4. /\ Len(v) = Len(w) + 1 /\ DOMAIN v = 1 .. Len(w) + 1 /\ v # <<>>
      /\ \A n \in 1 .. Len(w) : v[n] = w[n]
      /\ v[Len(w) + 1] = r[1]
  BY <1>2, ValuesOfAppend
<1> HIDE DEF v, q
<1>5. \/ r[1] = Progress(Len(g) + Len(w) + 1)
      \/ IsLast(r[1]) /\ Len(r) = 1
  BY <1>2 DEF InOrder
<1>6. Len(g) + (Len(w) + 1) = Len(g) + Len(w) + 1
  BY <1>1
<1>7. ASSUME NEW n \in 1 .. Len(w) + 1
      PROVE  \/ v[n] = Progress(Len(g) + n)
             \/ IsLast(v[n]) /\ n = Len(v) /\ q = <<>>
  <2>1. CASE n = Len(w) + 1
    BY <1>3, <1>4, <1>5, <1>6, <2>1
  <2>2. CASE n # Len(w) + 1
    <3>1. n \in 1 .. Len(w)
      BY <1>1, <2>2
    <3> QED BY <1>1, <1>4, <3>1 DEF InOrder
  <2> QED BY <2>1, <2>2
<1>8. ASSUME NEW n \in 1 .. Len(r) - 1
      PROVE  \/ q[n] = Progress(Len(g) + Len(v) + n)
             \/ IsLast(q[n]) /\ n = Len(q)
  <2>1. n + 1 \in 1 .. Len(r) /\ q[n] = r[n + 1]
    BY <1>2
  <2>2. Len(g) + Len(w) + (n + 1) = Len(g) + Len(v) + n
    BY <1>1, <1>4
  <2>3. n + 1 = Len(r) => n = Len(q)
    <3>1. Len(r) \in Nat /\ Len(q) = Len(r) - 1
      BY <1>2
    <3> QED BY <1>8, <3>1
  <2> QED BY <1>2, <2>1, <2>2, <2>3 DEF InOrder
<1>9. InOrder(g, v, q)
  BY <1>2, <1>4, <1>7, <1>8 DEF InOrder
<1>10. Total(g, v, q) = Total(g, w, r)
  BY <1>1, <1>2, <1>4 DEF Total
<1>11. Latest(v, q) = Latest(w, r)
  <2>1. CASE q = <<>>
    BY <1>3, <1>4, <2>1, EmptySeq DEF Latest
  <2>2. CASE q # <<>>
    BY <1>2, <1>3, <2>2, EmptySeq DEF Latest
  <2> QED BY <2>1, <2>2
<1> QED BY <1>4, <1>9, <1>10, <1>11 DEF v, q

(* ... sent ...                                                            *)
LEMMA SendOne ==
    ASSUME NEW g \in Seq(Nat), NEW w \in Seq(Event), NEW r \in Seq(Event),
           InOrder(g, w, r), w # <<>> \/ r # <<>> => ~IsLast(Latest(w, r)),
           NEW e \in Event, e = Progress(Total(g, w, r) + 1) \/ IsLast(e)
    PROVE  LET q == Append(r, e)
           IN  /\ InOrder(g, w, q) /\ q # <<>>
               /\ Total(g, w, q) = Total(g, w, r) + 1
               /\ Latest(w, q) = e
<1> DEFINE q == Append(r, e)
<1>1. /\ Len(g) \in Nat /\ DOMAIN g = 1 .. Len(g)
      /\ Len(w) \in Nat /\ DOMAIN w = 1 .. Len(w)
      /\ Len(r) \in Nat /\ DOMAIN r = 1 .. Len(r)
  BY LenProperties
<1>2. /\ Len(q) = Len(r) + 1 /\ DOMAIN q = 1 .. Len(r) + 1 /\ q # <<>>
      /\ \A n \in 1 .. Len(r) : q[n] = r[n]
      /\ q[Len(r) + 1] = e
  BY ValuesOfAppend
<1> HIDE DEF q
<1>3. ASSUME NEW n \in 1 .. Len(w) PROVE w[n] = Progress(Len(g) + n)
  <2>1. SUFFICES ASSUME IsLast(w[n]), n = Len(w), r = <<>> PROVE FALSE
    BY <1>1 DEF InOrder
  <2> QED BY <1>1, <2>1, EmptySeq DEF Latest
<1>4. ASSUME NEW n \in 1 .. Len(r) PROVE r[n] = Progress(Len(g) + Len(w) + n)
  <2>1. SUFFICES ASSUME IsLast(r[n]), n = Len(r) PROVE FALSE
    BY <1>1 DEF InOrder
  <2> QED BY <1>1, <2>1, EmptySeq DEF Latest
<1>5. Total(g, w, r) + 1 = Len(g) + Len(w) + (Len(r) + 1)
  BY <1>1 DEF Total
<1>6. ASSUME NEW n \in 1 .. Len(r) + 1
      PROVE  \/ q[n] = Progress(Len(g) + Len(w) + n)
             \/ IsLast(q[n]) /\ n = Len(q)
  <2>1. CASE n = Len(r) + 1
    <3>1. q[n] = e /\ n = Len(q)
      BY <1>2, <2>1
    <3> QED BY <1>5, <2>1, <3>1
  <2>2. CASE n # Len(r) + 1
    <3>1. n \in 1 .. Len(r)
      BY <1>1, <2>2
    <3>2. q[n] = r[n]
      BY <1>2, <3>1
    <3> QED BY <1>4, <3>1, <3>2
  <2> QED BY <2>1, <2>2
<1>7. InOrder(g, w, q)
  BY <1>1, <1>2, <1>3, <1>6 DEF InOrder
<1>8. Total(g, w, q) = Total(g, w, r) + 1 /\ Latest(w, q) = e
  BY <1>1, <1>2 DEF Total, Latest
<1> QED BY <1>2, <1>7, <1>8 DEF q

(* ... or dropped.                                                         *)
LEMMA DropAll ==
    ASSUME NEW g, NEW w, NEW r, InOrder(g, w, r)
    PROVE  InOrder(g, w, <<>>)
<1>1. DOMAIN <<>> = {}
  OBVIOUS
<1> QED BY <1>1 DEF InOrder

(* An answer that is the only frame.                                       *)
LEMMA OnlyLast ==
    ASSUME NEW w, Len(w) = 1, DOMAIN w = {1}, IsLast(w[1])
    PROVE  InOrder(<<>>, w, <<>>) /\ InOrder(<<>>, <<>>, w)
<1>1. DOMAIN <<>> = {}
  OBVIOUS
<1> QED BY <1>1 DEF InOrder

-----------------------------------------------------------------------------
LEMMA DaemonInvInit == Init => DaemonInv
<1> SUFFICES ASSUME Init PROVE DaemonInv
  OBVIOUS
<1>1. /\ token = FALSE /\ queue = <<>> /\ <<>> \in Seq(Tasks)
      /\ <<>> \in Seq(Event) /\ <<>> \in Seq(1 .. MaxEvents) /\ Len(<<>>) = 0
  BY EmptySeq DEF Init
<1>2. LoopTypeOK
  <2>1. token \in BOOLEAN
    BY <1>1, Zenon
  <2> QED BY <1>1, <2>1, DaemonConstants DEF Init, LoopTypeOK
<1>3. ConnTypeOK
  BY <1>1, DaemonConstants DEF Init, ConnTypeOK
<1>4. ClientTypeOK
  BY <1>1 DEF Init, ClientTypeOK
<1>5. QueueInv
  BY <1>1 DEF Init, QueueInv, Distinct
<1>6. ASSUME NEW c \in Clients PROVE Numbered(c) /\ Accepted(c) /\ Served(c)
  BY <1>1, DaemonConstants
     DEF Init, Numbered, InOrder, Accepted, Served, Fresh, Exited, Queued, IsPrompt, Prompts
<1> QED BY <1>2, <1>3, <1>4, <1>5, <1>6 DEF DaemonInv, TypeOK

(* The frames are events.                                                  *)
LEMMA FramesAreEvents ==
    /\ \A k \in LastEvents \cup {"status", "ack"} : Last(k) \in Event /\ IsLast(Last(k))
    /\ \A n \in 0 .. MaxEvents : Progress(n) \in Event /\ ~IsLast(Progress(n))
<1>1. 0 \in 0 .. MaxEvents
  BY DaemonConstants
<1> QED BY <1>1 DEF Last, Progress, Event, LastEvents, IsLast

(* What a step does to the frames of one client.                           *)
LEMMA FramesTaken ==
    ASSUME NEW S, NEW f \in [Clients -> Seq(S)], NEW c \in Clients, f[c] # <<>>,
           NEW Cap \in Nat, \A d \in Clients : Len(f[d]) <= Cap
    PROVE  LET g == [f EXCEPT ![c] = Tail(@)]
           IN  /\ g \in [Clients -> Seq(S)] /\ \A d \in Clients : Len(g[d]) <= Cap
               /\ Head(f[c]) \in S
<1>1. Tail(f[c]) \in Seq(S) /\ Len(Tail(f[c])) <= Cap /\ Head(f[c]) \in S
  BY ValuesOfTail
<1> QED BY <1>1

LEMMA FrameAdded ==
    ASSUME NEW S, NEW f \in [Clients -> Seq(S)], NEW c \in Clients, NEW e \in S,
           NEW Cap \in Nat, \A d \in Clients : Len(f[d]) <= Cap, Len(f[c]) < Cap
    PROVE  LET g == [f EXCEPT ![c] = Append(@, e)]
           IN  g \in [Clients -> Seq(S)] /\ \A d \in Clients : Len(g[d]) <= Cap
<1>1. Append(f[c], e) \in Seq(S) /\ Len(Append(f[c], e)) <= Cap
  BY ValuesOfAppend
<1> QED BY <1>1

LEMMA TaskAdded ==
    ASSUME LoopTypeOK, NEW t \in Tasks, Len(queue) < Capacity
    PROVE  Append(queue, t) \in Seq(Tasks) /\ Len(Append(queue, t)) <= Capacity
<1>1. queue \in Seq(Tasks)
  BY DEF LoopTypeOK
<1>2. Append(queue, t) \in Seq(Tasks) /\ Len(Append(queue, t)) = Len(queue) + 1
  BY <1>1, ValuesOfAppend
<1>3. Len(queue) \in Nat
  BY <1>1, LenProperties
<1> QED BY <1>2, <1>3, DaemonConstants

(* The loop's own state.                                                   *)
LEMMA LoopTypeStep == DaemonInv /\ [Next]_vars => LoopTypeOK'
<1> SUFFICES ASSUME DaemonInv, [Next]_vars PROVE LoopTypeOK'
  OBVIOUS
<1> USE DaemonConstants
<1>t. LoopTypeOK
  BY DEF DaemonInv, TypeOK
<1>a. token \in BOOLEAN /\ TRUE \in BOOLEAN
  BY <1>t DEF LoopTypeOK
<1>1. ASSUME UNCHANGED <<daemon, token, signal, loopVars, changes>>
      PROVE  LoopTypeOK'
  BY <1>t, <1>1 DEF LoopTypeOK, loopVars
<1>2. ASSUME NEW c \in Clients,
             \/ \E r \in Requests : Connect(c, r)
             \/ ReadFrame(c) \/ ReadEof(c) \/ Suspend(c) \/ Continue(c) \/ Die(c)
             \/ HandlerStep(c)
      PROVE  LoopTypeOK'
  <2>1. UNCHANGED <<daemon, token, signal, loopVars, changes>>
    BY <1>2, Zenon DEF Connect, ReadFrame, ReadEof, Suspend, Continue, Die, HandlerStep, Answer,
       Forward, DropConnection, StreamEnds, EnqueueFails
  <2> QED BY <2>1, <1>1
<1>3. ASSUME UNCHANGED <<daemon, current, stage, outcome, emitted>>,
             signal' \in {"armed", "fired", "sent"}, token' \in BOOLEAN,
             changes' \in 0 .. MaxChanges, Len(queue) < Capacity,
             NEW t \in Tasks, queue' = Append(queue, t)
      PROVE  LoopTypeOK'
  <2>1. queue' \in Seq(Tasks) /\ Len(queue') <= Capacity
    BY <1>t, <1>3, TaskAdded
  <2> QED BY <1>t, <1>3, <2>1 DEF LoopTypeOK
<1>4. ASSUME NEW c \in Clients, Enqueue(c) PROVE LoopTypeOK'
  <2>1. c \in Tasks /\ token' \in BOOLEAN
    BY <1>a, <1>4 DEF Tasks, Enqueue
  <2> QED BY <1>t, <1>3, <1>4, <2>1 DEF Enqueue, LoopTypeOK
<1>5. CASE SignalFires
  BY <1>t, <1>5 DEF SignalFires, LoopTypeOK, loopVars
<1>6. CASE SignalEnqueues
  <2>1. Signal \in Tasks /\ token' \in BOOLEAN
    BY <1>a, <1>6 DEF Tasks, SignalEnqueues
  <2> QED BY <1>t, <1>3, <1>6, <2>1 DEF SignalEnqueues, LoopTypeOK
<1>7. CASE FileChanged
  <2>1. Watcher \in Tasks /\ token' \in BOOLEAN /\ changes' \in 0 .. MaxChanges
    BY <1>a, <1>t, <1>7 DEF Tasks, FileChanged, LoopTypeOK
  <2> QED BY <1>t, <1>3, <1>7, <2>1 DEF FileChanged, LoopTypeOK
<1>8. ASSUME NEW t \in Tasks, Take(t)
      PROVE  queue' \in Seq(Tasks) /\ Len(queue') <= Capacity
  <2>1. queue \in Seq(Tasks) /\ queue # <<>> /\ Len(queue) <= Capacity /\ queue' = Tail(queue)
    BY <1>t, <1>8 DEF Take, LoopTypeOK
  <2>2. Tail(queue) \in Seq(Tasks) /\ Len(Tail(queue)) = Len(queue) - 1 /\ Len(queue) \in Nat
    BY <2>1, ValuesOfTail
  <2> QED BY <2>1, <2>2
<1>9. ASSUME NEW t \in Tasks, StartTurn(t) PROVE LoopTypeOK'
  <2>1. t \in Clients \cup {Watcher, NoTask}
    BY <1>9 DEF StartTurn, StartsTurn, IsPrompt
  <2>2. queue' \in Seq(Tasks) /\ Len(queue') <= Capacity
    BY <1>8, <1>9 DEF StartTurn
  <2>3. emitted' \in [Tasks -> 0 .. MaxEvents]
    BY <1>t, <1>9 DEF StartTurn, LoopTypeOK
  <2>4. UNCHANGED <<daemon, token, signal, changes>> /\ current' = t
        /\ stage' \in {"working", "ending"} /\ outcome' \in {"cancelled", "none"}
    BY <1>9 DEF StartTurn, Take
  <2> QED BY <1>t, <2>1, <2>2, <2>3, <2>4 DEF LoopTypeOK, LastEvents
<1>10. ASSUME NEW t \in Tasks, AnswerStatus(t) \/ LeaveLoop(t) PROVE LoopTypeOK'
  <2>1. queue' \in Seq(Tasks) /\ Len(queue') <= Capacity
    BY <1>8, <1>10 DEF AnswerStatus, LeaveLoop
  <2>2. token' \in BOOLEAN
    BY <1>a, <1>10 DEF AnswerStatus, LeaveLoop
  <2>3. UNCHANGED <<signal, changes, current, stage, outcome, emitted>>
        /\ daemon' \in {daemon, "stopping"}
    BY <1>10 DEF AnswerStatus, LeaveLoop, Take
  <2> QED BY <1>t, <2>1, <2>2, <2>3 DEF LoopTypeOK
<1>11. ASSUME NEW s, InTurn(s)
       PROVE  /\ current \in Tasks /\ UNCHANGED <<daemon, token, signal, queue, changes>>
  BY <1>t, <1>11 DEF InTurn, Tasks, LoopTypeOK
<1>12. CASE EmitEvent
  <2>1. current \in Tasks /\ UNCHANGED <<daemon, token, signal, queue, changes>>
    BY <1>11, <1>12 DEF EmitEvent
  <2>2. emitted[current] \in 0 .. MaxEvents /\ emitted[current] < MaxEvents
    BY <1>t, <1>12, <2>1 DEF EmitEvent, LoopTypeOK
  <2>3. emitted[current] + 1 \in 0 .. MaxEvents
    BY <2>2
  <2>4. emitted' \in [Tasks -> 0 .. MaxEvents]
    BY <1>t, <1>12, <2>1, <2>3 DEF EmitEvent, LoopTypeOK
  <2>5. stage' \in {"working", "asking"} /\ UNCHANGED <<current, outcome>>
    BY <1>12 DEF EmitEvent
  <2> QED BY <1>t, <2>1, <2>4, <2>5 DEF LoopTypeOK
<1>13. CASE Approve \/ ConcludeTurn \/ EndTurn
  BY <1>t, <1>13 DEF Approve, ConcludeTurn, EndTurn, InTurn, LastEvents, LoopTypeOK
<1>14. CASE Return \/ Gone
  <2>1. queue' = <<>> /\ <<>> \in Seq(Tasks) /\ Len(<<>>) <= Capacity
    BY <1>14, EmptySeq DEF Return, Gone
  <2>2. UNCHANGED <<token, signal, emitted, changes>>
    BY <1>14 DEF Return, Gone
  <2>3. daemon' \in {"returned", "down"} /\ current' \in {current, NoTask}
        /\ stage' \in {stage, "idle"} /\ outcome' \in {outcome, "none"}
    BY <1>14 DEF Return, Gone
  <2> QED BY <1>t, <2>1, <2>2, <2>3 DEF LoopTypeOK
<1>15. CASE UNCHANGED vars
  BY <1>1, <1>15 DEF vars
<1> QED
  BY <1>2, <1>4, <1>5, <1>6, <1>7, <1>9, <1>10, <1>12, <1>13, <1>14, <1>15
     DEF Next, DispatchStep, ProcessExits, Killed, Finished

(* An event of the turn that runs.                                         *)
LEMMA EventSent ==
    ASSUME ConnTypeOK, current \in Clients \cup {Watcher}, NEW e \in Event, SendEvent(e)
    PROVE  /\ reply' \in [Clients -> Seq(Event)]
           /\ \A d \in Clients : Len(reply'[d]) <= ReplyCap
<1>1. CASE UNCHANGED reply
  BY <1>1 DEF ConnTypeOK
<1>2. CASE current \in Clients /\ Len(reply[current]) < ReplyCap
           /\ reply' = [reply EXCEPT ![current] = Append(@, e)]
  BY <1>2, FrameAdded, DaemonConstants DEF ConnTypeOK
<1> QED BY <1>1, <1>2 DEF SendEvent

(* The connections.                                                        *)
LEMMA ConnTypeStep == DaemonInv /\ [Next]_vars => ConnTypeOK'
<1> SUFFICES ASSUME DaemonInv, [Next]_vars PROVE ConnTypeOK'
  OBVIOUS
<1> USE DaemonConstants
<1>t. ConnTypeOK /\ LoopTypeOK
  BY DEF DaemonInv, TypeOK
<1>1. ASSUME UNCHANGED <<reply, wire>>,
             handler' \in [Clients -> {"none", "enqueue", "ack", "refuse", "stream", "closed"}]
      PROVE  ConnTypeOK'
  BY <1>t, <1>1 DEF ConnTypeOK
<1>2. ASSUME UNCHANGED <<handler, wire>>,
             reply' \in [Clients -> Seq(Event)],
             \A d \in Clients : Len(reply'[d]) <= ReplyCap
      PROVE  ConnTypeOK'
  BY <1>t, <1>2 DEF ConnTypeOK
<1>3. ASSUME UNCHANGED connVars PROVE ConnTypeOK'
  BY <1>t, <1>3 DEF ConnTypeOK, connVars
<1>4. ASSUME NEW c \in Clients,
             \/ \E r \in Requests : Connect(c, r)
             \/ Enqueue(c) \/ EnqueueFails(c) \/ StreamEnds(c)
      PROVE  ConnTypeOK'
  BY <1>t, <1>1, <1>4 DEF Connect, Enqueue, EnqueueFails, StreamEnds, ConnTypeOK
<1>5. ASSUME NEW c \in Clients, ReadFrame(c) PROVE ConnTypeOK'
  <2>1. wire' \in [Clients -> Seq(Event)] /\ \A d \in Clients : Len(wire'[d]) <= WireCap
    BY <1>t, <1>5, FramesTaken DEF ReadFrame, ConnTypeOK
  <2> QED BY <1>t, <1>5, <2>1 DEF ReadFrame, ConnTypeOK
<1>6. ASSUME NEW c \in Clients, ReadEof(c) \/ Suspend(c) \/ Continue(c) \/ Die(c)
      PROVE  ConnTypeOK'
  BY <1>3, <1>6 DEF ReadEof, Suspend, Continue, Die
<1>7. ASSUME NEW c \in Clients, Answer(c) PROVE ConnTypeOK'
  <2>1. Len(wire[c]) < WireCap
    BY <1>7, EmptySeq DEF DaemonInv, Answer, Accepted, Fresh
  <2>2. Last("ack") \in Event /\ Last("error") \in Event
    BY FramesAreEvents DEF LastEvents
  <2> DEFINE f == Last(IF handler[c] = "ack" THEN "ack" ELSE "error")
  <2>3. f \in Event /\ wire' = [wire EXCEPT ![c] = Append(@, f)]
    BY <1>7, <2>2 DEF Answer
  <2> HIDE DEF f
  <2>4. wire' \in [Clients -> Seq(Event)] /\ \A d \in Clients : Len(wire'[d]) <= WireCap
    BY <1>t, <2>1, <2>3, FrameAdded DEF ConnTypeOK
  <2> QED BY <1>t, <1>7, <2>4 DEF Answer, ConnTypeOK
<1>8. ASSUME NEW c \in Clients, Forward(c) PROVE ConnTypeOK'
  <2>1. /\ reply' \in [Clients -> Seq(Event)] /\ \A d \in Clients : Len(reply'[d]) <= ReplyCap
        /\ Head(reply[c]) \in Event
    BY <1>t, <1>8, FramesTaken DEF Forward, ConnTypeOK
  <2>2. wire' \in [Clients -> Seq(Event)] /\ \A d \in Clients : Len(wire'[d]) <= WireCap
    BY <1>t, <1>8, <2>1, FrameAdded DEF Forward, ConnTypeOK
  <2> QED BY <1>t, <1>8, <2>1, <2>2 DEF Forward, ConnTypeOK
<1>9. ASSUME NEW c \in Clients, DropConnection(c) PROVE ConnTypeOK'
  <2>1. <<>> \in Seq(Event) /\ Len(<<>>) <= ReplyCap
    BY EmptySeq
  <2> QED BY <1>t, <1>9, <2>1 DEF DropConnection, ConnTypeOK
<1>10. CASE SignalFires \/ SignalEnqueues \/ FileChanged \/ Return
  BY <1>3, <1>10 DEF SignalFires, SignalEnqueues, FileChanged, Return
<1>11. ASSUME NEW t \in Tasks, StartTurn(t) \/ LeaveLoop(t) PROVE ConnTypeOK'
  BY <1>3, <1>11 DEF StartTurn, LeaveLoop, Take, connVars
<1>12. ASSUME NEW t \in Tasks, AnswerStatus(t) PROVE ConnTypeOK'
  <2>1. Last("status") \in Event
    BY FramesAreEvents
  <2>2. <<Last("status")>> \in Seq(Event) /\ Len(<<Last("status")>>) <= ReplyCap
    BY <2>1
  <2> DEFINE e == <<Last("status")>>
  <2>3. \/ UNCHANGED reply
        \/ t \in Clients /\ reply' = [reply EXCEPT ![t] = e]
    BY <1>t, <1>12 DEF AnswerStatus, ConnTypeOK
  <2> HIDE DEF e
  <2>4. reply' \in [Clients -> Seq(Event)] /\ \A d \in Clients : Len(reply'[d]) <= ReplyCap
    BY <1>t, <2>2, <2>3 DEF ConnTypeOK, e
  <2> QED BY <1>2, <1>12, <2>4 DEF AnswerStatus, Take
<1>13. CASE EmitEvent
  <2>1. current \in Clients \cup {Watcher} /\ current \in Tasks
    BY <1>t, <1>13 DEF EmitEvent, InTurn, Tasks, LoopTypeOK
  <2>2. emitted[current] \in 0 .. MaxEvents /\ emitted[current] < MaxEvents
    BY <1>t, <1>13, <2>1 DEF EmitEvent, LoopTypeOK
  <2>3. Progress(emitted[current] + 1) \in Event
    BY <2>2, FramesAreEvents
  <2> QED BY <1>t, <1>2, <1>13, <2>1, <2>3, EventSent DEF EmitEvent, InTurn
<1>14. CASE Approve \/ ConcludeTurn
  BY <1>3, <1>14 DEF Approve, ConcludeTurn, InTurn, connVars
<1>15. CASE EndTurn
  <2>1. current \in Clients \cup {Watcher}
    BY <1>t, <1>15 DEF EndTurn, InTurn, LoopTypeOK
  <2>2. Last(outcome) \in Event
    BY <1>t, <1>15, FramesAreEvents DEF EndTurn, InTurn, DaemonInv, QueueInv, LoopTypeOK
  <2> QED BY <1>t, <1>2, <1>15, <2>1, <2>2, EventSent DEF EndTurn, InTurn
<1>16. CASE Gone
  <2>1. <<>> \in Seq(Event) /\ Len(<<>>) <= ReplyCap
    BY EmptySeq
  <2> QED BY <1>t, <1>16, <2>1 DEF Gone, ConnTypeOK
<1>17. CASE UNCHANGED vars
  BY <1>3, <1>17 DEF vars
<1> QED
  BY <1>4, <1>5, <1>6, <1>7, <1>8, <1>9, <1>10, <1>11, <1>12, <1>13, <1>14, <1>15,
     <1>16, <1>17
     DEF Next, HandlerStep, DispatchStep, ProcessExits, Killed, Finished

(* The clients.                                                            *)
LEMMA ClientTypeStep == DaemonInv /\ [Next]_vars => ClientTypeOK'
<1> SUFFICES ASSUME DaemonInv, [Next]_vars PROVE ClientTypeOK'
  OBVIOUS
<1>t. ClientTypeOK /\ ConnTypeOK
  BY DEF DaemonInv, TypeOK
<1>1. ASSUME UNCHANGED <<clientVars, histVars>> PROVE ClientTypeOK'
  BY <1>t, <1>1 DEF ClientTypeOK, clientVars, histVars
<1>2. ASSUME NEW c \in Clients,
             \/ \E r \in Requests : Connect(c, r)
             \/ ReadEof(c) \/ Suspend(c) \/ Continue(c) \/ Die(c)
      PROVE  ClientTypeOK'
  BY <1>t, <1>2 DEF Connect, ReadEof, Suspend, Continue, Die, ClientTypeOK, histVars
<1>3. ASSUME NEW c \in Clients, ReadFrame(c) PROVE ClientTypeOK'
  <2>1. wire[c] \in Seq(Event) /\ wire[c] # <<>>
    BY <1>t, <1>3 DEF ReadFrame, ConnTypeOK
  <2>2. Head(wire[c]) = wire[c][1] /\ wire[c][1] \in Event /\ 1 \in DOMAIN wire[c]
    BY <2>1, ValuesOfTail
  <2>3. got[c] \in Seq(1 .. MaxEvents)
    BY <1>t DEF ClientTypeOK
  <2>4. ASSUME wire[c][1].kind = "progress"
        PROVE  Append(got[c], wire[c][1].number) \in Seq(1 .. MaxEvents)
    <3>1. wire[c][1] = Progress(Len(got[c]) + 1)
      BY <2>2, <2>4 DEF DaemonInv, Numbered, InOrder, IsLast
    <3>2. wire[c][1].number \in 1 .. MaxEvents
      BY <2>2, <2>3, <3>1, LenProperties DEF Progress, Event
    <3> QED BY <2>3, <3>2, AppendProperties
  <2>5. got' \in [Clients -> Seq(1 .. MaxEvents)]
    BY <1>t, <1>3, <2>2, <2>4 DEF ReadFrame, ClientTypeOK
  <2> QED BY <1>t, <1>3, <2>5 DEF ReadFrame, ClientTypeOK, histVars
<1>4. ASSUME NEW c \in Clients, DropConnection(c) PROVE ClientTypeOK'
  BY <1>t, <1>4 DEF DropConnection, ClientTypeOK, clientVars
<1>5. ASSUME NEW c \in Clients,
             \/ Enqueue(c) \/ EnqueueFails(c) \/ Answer(c) \/ Forward(c) \/ StreamEnds(c)
      PROVE  ClientTypeOK'
  BY <1>1, <1>5 DEF Enqueue, EnqueueFails, Answer, Forward, StreamEnds
<1>6. CASE SignalFires \/ SignalEnqueues \/ FileChanged \/ Return \/ Gone
  BY <1>1, <1>6 DEF SignalFires, SignalEnqueues, FileChanged, Return, Gone
<1>7. ASSUME NEW t \in Tasks, StartTurn(t) \/ AnswerStatus(t) \/ LeaveLoop(t)
      PROVE  ClientTypeOK'
  BY <1>1, <1>7 DEF StartTurn, AnswerStatus, LeaveLoop, Take
<1>8. CASE EmitEvent \/ Approve \/ ConcludeTurn
  BY <1>1, <1>8 DEF EmitEvent, Approve, ConcludeTurn, InTurn, histVars
<1>9. CASE EndTurn
  <2>1. outcome \in LastEvents \cup {"none"}
    BY DEF DaemonInv, TypeOK, LoopTypeOK
  <2> QED BY <1>t, <1>9, <2>1 DEF EndTurn, InTurn, ClientTypeOK, clientVars
<1>10. CASE UNCHANGED vars
  BY <1>1, <1>10 DEF vars
<1> QED
  BY <1>2, <1>3, <1>4, <1>5, <1>6, <1>7, <1>8, <1>9, <1>10
     DEF Next, HandlerStep, DispatchStep, ProcessExits, Killed, Finished

-----------------------------------------------------------------------------
(* What a step does to the queue, as far as clients are concerned.         *)
LEMMA QueueGrows ==
    ASSUME LoopTypeOK, Distinct, NEW t \in Tasks, t \in Clients => ~Queued(t),
           queue' = Append(queue, t)
    PROVE  Distinct' /\ \A d \in Clients : Queued(d)' <=> Queued(d) \/ d = t
<1>1. queue \in Seq(Tasks)
  BY DEF LoopTypeOK
<1>2. /\ DOMAIN queue' = 1 .. Len(queue) + 1 /\ DOMAIN queue = 1 .. Len(queue)
      /\ \A n \in 1 .. Len(queue) : queue'[n] = queue[n]
      /\ queue'[Len(queue) + 1] = t /\ Len(queue) \in Nat
  BY <1>1, ValuesOfAppend, LenProperties
<1>3. \A d \in Clients : Queued(d)' <=> Queued(d) \/ d = t
  BY <1>2 DEF Queued
<1>4. Distinct'
  BY <1>2 DEF Distinct, Queued
<1> QED BY <1>3, <1>4

LEMMA QueueShrinks ==
    ASSUME LoopTypeOK, Distinct, NEW t, Take(t)
    PROVE  /\ Distinct' /\ Queued(t)
           /\ \A d \in Clients : Queued(d)' <=> Queued(d) /\ d # t
<1>1. queue \in Seq(Tasks) /\ queue # <<>> /\ queue' = Tail(queue) /\ t = Head(queue)
  BY DEF LoopTypeOK, Take
<1>2. /\ DOMAIN queue' = 1 .. Len(queue) - 1 /\ DOMAIN queue = 1 .. Len(queue)
      /\ \A n \in 1 .. Len(queue) - 1 : queue'[n] = queue[n + 1]
      /\ t = queue[1] /\ Len(queue) \in Nat \ {0}
  BY <1>1, ValuesOfTail
<1>3. ASSUME NEW d \in Clients PROVE Queued(d)' <=> Queued(d) /\ d # t
  <2>1. ASSUME NEW n \in 1 .. Len(queue) - 1, queue'[n] = d PROVE Queued(d) /\ d # t
    <3>1. n + 1 \in DOMAIN queue /\ 1 \in DOMAIN queue /\ queue[n + 1] = d
      BY <1>2, <2>1
    <3> QED BY <1>2, <3>1 DEF Distinct, Queued
  <2>2. ASSUME NEW n \in 1 .. Len(queue), queue[n] = d, d # t PROVE Queued(d)'
    <3>1. n # 1 /\ n - 1 \in DOMAIN queue' /\ queue'[n - 1] = d
      BY <1>2, <2>2
    <3> QED BY <3>1 DEF Queued
  <2> QED BY <1>2, <2>1, <2>2 DEF Queued
<1>4. Distinct'
  BY <1>2 DEF Distinct
<1>5. Queued(t)
  BY <1>2 DEF Queued
<1> QED BY <1>3, <1>4, <1>5

LEMMA QueueStep == DaemonInv /\ [Next]_vars => QueueInv'
<1> SUFFICES ASSUME DaemonInv, [Next]_vars PROVE QueueInv'
  OBVIOUS
<1>t. LoopTypeOK /\ QueueInv
  BY DEF DaemonInv, TypeOK
<1>1. ASSUME UNCHANGED <<daemon, loopVars>> PROVE QueueInv'
  BY <1>t, <1>1 DEF QueueInv, Distinct, loopVars
<1>2. ASSUME NEW c \in Clients,
             \/ \E r \in Requests : Connect(c, r)
             \/ ReadFrame(c) \/ ReadEof(c) \/ Suspend(c) \/ Continue(c) \/ Die(c)
             \/ HandlerStep(c)
      PROVE  QueueInv'
  <2>1. UNCHANGED <<daemon, loopVars>>
    BY <1>2, Zenon DEF Connect, ReadFrame, ReadEof, Suspend, Continue, Die, HandlerStep,
       Answer, Forward, DropConnection, StreamEnds, EnqueueFails
  <2> QED BY <1>1, <2>1
<1>3. ASSUME NEW c \in Clients, Enqueue(c) PROVE QueueInv'
  <2>1. c \in Tasks /\ ~Queued(c)
    BY <1>3 DEF DaemonInv, Accepted, Enqueue, Tasks
  <2> QED BY <1>t, <1>3, <2>1, QueueGrows DEF Enqueue, QueueInv
<1>4. CASE SignalEnqueues \/ FileChanged
  <2>1. {Signal, Watcher} \subseteq Tasks \ Clients
    BY DaemonConstants DEF Tasks
  <2> QED BY <1>t, <1>4, <2>1, QueueGrows DEF SignalEnqueues, FileChanged, QueueInv
<1>5. ASSUME NEW t \in Tasks, StartTurn(t) \/ AnswerStatus(t) \/ LeaveLoop(t)
      PROVE  QueueInv'
  <2>1. Take(t)
    BY <1>5 DEF StartTurn, AnswerStatus, LeaveLoop
  <2>2. Distinct'
    BY <1>t, <2>1, QueueShrinks DEF QueueInv
  <2> QED BY <1>t, <1>5, <2>1, <2>2 DEF StartTurn, AnswerStatus, LeaveLoop, Take, QueueInv
<1>6. CASE SignalFires
  BY <1>1, <1>6 DEF SignalFires
<1>7. CASE EmitEvent \/ Approve \/ ConcludeTurn
  BY <1>t, <1>7 DEF EmitEvent, Approve, ConcludeTurn, InTurn, QueueInv, Distinct, LastEvents
<1>8. CASE EndTurn
  BY <1>t, <1>8 DEF EndTurn, InTurn, QueueInv, Distinct
<1>9. CASE Return \/ Gone
  <2>1. queue' = <<>>
    BY <1>9 DEF Return, Gone
  <2>2. Distinct'
    BY <2>1 DEF Distinct
  <2> QED BY <1>t, <1>9, <2>2 DEF Return, Gone, QueueInv
<1>10. CASE UNCHANGED vars
  BY <1>1, <1>10 DEF vars
<1> QED
  BY <1>2, <1>3, <1>4, <1>5, <1>6, <1>7, <1>8, <1>9, <1>10
     DEF Next, DispatchStep, ProcessExits, Killed, Finished

-----------------------------------------------------------------------------
(* One connection.  A step that leaves it alone keeps what is said of it.  *)
Conn(c) == Numbered(c) /\ Accepted(c) /\ Served(c)

Alone(c) ==
    /\ UNCHANGED <<request[c], client[c], handler[c], reply[c], wire[c], got[c],
                   ended[c], emitted[c]>>
    /\ c \in shed' <=> c \in shed
    /\ Queued(c)' <=> Queued(c)
    /\ current' = c <=> current = c
    /\ daemon' = "running" => daemon = "running"

LEMMA AloneKeeps ==
    ASSUME NEW c \in Clients, Conn(c), Alone(c)
    PROVE  Conn(c)'
<1>1. Fresh(c)' <=> Fresh(c)
  BY DEF Alone, Fresh, Exited
<1>2. Numbered(c)'
  BY DEF Conn, Alone, Numbered
<1>3. Accepted(c)'
  BY <1>1 DEF Conn, Alone, Accepted
<1>4. /\ Newest(c)' = Newest(c) /\ Sent(c)' = Sent(c) /\ emitted'[c] = emitted[c]
      /\ Waiting(c)' <=> Waiting(c)
      /\ Exited(c)' <=> Exited(c)
      /\ IsLast(Newest(c))' <=> IsLast(Newest(c))
  <2>1. Newest(c)' = Newest(c)
    BY DEF Alone, Newest, Latest
  <2>2. Sent(c)' = Sent(c)
    BY DEF Alone, Sent, Total
  <2> QED BY <2>1, <2>2 DEF Alone, Waiting, Exited, IsLast
<1>5. Told(c)' <=> Told(c)
  BY <1>4 DEF Alone, Told
<1>6. Served(c)'
  BY <1>4, <1>5 DEF Conn, Alone, Served, IsPrompt
<1> QED BY <1>2, <1>3, <1>6 DEF Conn

(* What an exited client, a fresh one and a served one have in common with *)
(* their frames.                                                           *)
LEMMA ConnTypes ==
    ASSUME DaemonInv, NEW c \in Clients
    PROVE  /\ reply[c] \in Seq(Event) /\ wire[c] \in Seq(Event)
           /\ got[c] \in Seq(1 .. MaxEvents)
           /\ Len(reply[c]) \in Nat /\ Len(wire[c]) \in Nat /\ Len(got[c]) \in Nat
           /\ DOMAIN reply[c] = 1 .. Len(reply[c]) /\ DOMAIN wire[c] = 1 .. Len(wire[c])
           /\ DOMAIN got[c] = 1 .. Len(got[c])
           /\ reply[c] = <<>> <=> Len(reply[c]) = 0
           /\ wire[c] = <<>> <=> Len(wire[c]) = 0
           /\ emitted[c] \in 0 .. MaxEvents
           /\ Conn(c)
<1>1. /\ reply[c] \in Seq(Event) /\ wire[c] \in Seq(Event)
      /\ got[c] \in Seq(1 .. MaxEvents) /\ emitted[c] \in 0 .. MaxEvents
  BY DEF DaemonInv, TypeOK, LoopTypeOK, ConnTypeOK, ClientTypeOK, Tasks
<1>2. Conn(c)
  BY DEF DaemonInv, Conn
<1> QED BY <1>1, <1>2, LenProperties, EmptySeq

LEMMA Printed == ASSUME DaemonInv, NEW c \in Clients PROVE got[c] \in Seq(Nat)
<1>1. got[c] \in Seq(1 .. MaxEvents) /\ 1 .. MaxEvents \subseteq Nat
  BY ConnTypes
<1> QED BY <1>1, SeqMonotonic

(* Each variable of the connections is a function over the clients.        *)
LEMMA Domains ==
    ASSUME TypeOK
    PROVE  /\ request = [d \in Clients |-> request[d]]
           /\ client = [d \in Clients |-> client[d]]
           /\ handler = [d \in Clients |-> handler[d]]
           /\ reply = [d \in Clients |-> reply[d]]
           /\ wire = [d \in Clients |-> wire[d]]
           /\ got = [d \in Clients |-> got[d]]
           /\ emitted = [t \in Tasks |-> emitted[t]]
<1>1. request = [d \in Clients |-> request[d]]
  BY DEF TypeOK, ClientTypeOK
<1>2. client = [d \in Clients |-> client[d]]
  BY DEF TypeOK, ClientTypeOK
<1>3. handler = [d \in Clients |-> handler[d]]
  BY DEF TypeOK, ConnTypeOK
<1>4. reply = [d \in Clients |-> reply[d]]
  BY DEF TypeOK, ConnTypeOK
<1>5. wire = [d \in Clients |-> wire[d]]
  BY DEF TypeOK, ConnTypeOK
<1>6. got = [d \in Clients |-> got[d]]
  BY DEF TypeOK, ClientTypeOK
<1>7. emitted = [t \in Tasks |-> emitted[t]]
  BY DEF TypeOK, LoopTypeOK
<1> QED BY <1>1, <1>2, <1>3, <1>4, <1>5, <1>6, <1>7

(* A step at one place of a function leaves the others.                    *)
LEMMA OtherValues ==
    ASSUME NEW f, f = [d \in Clients |-> f[d]], NEW c \in Clients, NEW e
    PROVE  /\ [f EXCEPT ![c] = e][c] = e
           /\ \A d \in Clients \ {c} : [f EXCEPT ![c] = e][d] = f[d]
OBVIOUS

(* A client reads a frame.                                                 *)
LEMMA ReadFrameStep ==
    ASSUME DaemonInv, NEW c \in Clients, ReadFrame(c)
    PROVE  \A d \in Clients : Conn(d)'
<1> DEFINE f == Head(wire[c])
<1>1. /\ client[c] = "waiting" /\ wire[c] # <<>>
      /\ client' = [client EXCEPT ![c] =
             CASE f.kind = "progress"              -> "waiting"
               [] f.kind \in {"error", "cancelled"} -> "exit 1"
               [] OTHER                            -> "exit 0"]
      /\ got' = [got EXCEPT ![c] =
             IF f.kind = "progress" THEN Append(got[c], f.number) ELSE got[c]]
      /\ wire' = [wire EXCEPT ![c] = Tail(wire[c])]
  BY DEF ReadFrame
<1>2. UNCHANGED <<daemon, queue, current, emitted, handler, reply, request, ended, shed>>
  BY DEF ReadFrame, loopVars, histVars
<1>3. TypeOK
  BY DEF DaemonInv
<1>4. \A d \in Clients \ {c} : Conn(d)'
  <2>1. \A d \in Clients \ {c} : client'[d] = client[d] /\ got'[d] = got[d] /\ wire'[d] = wire[d]
    BY <1>1, <1>3, Domains, OtherValues
  <2>2. \A d \in Clients \ {c} : Alone(d)
    BY <1>2, <2>1 DEF Alone, Queued
  <2> QED BY <2>2, AloneKeeps DEF DaemonInv, Conn
<1>5. /\ client'[c] = CASE f.kind = "progress"              -> "waiting"
                        [] f.kind \in {"error", "cancelled"} -> "exit 1"
                        [] OTHER                            -> "exit 0"
      /\ got'[c] = IF f.kind = "progress" THEN Append(got[c], f.number) ELSE got[c]
      /\ wire'[c] = Tail(wire[c]) /\ reply'[c] = reply[c]
  BY <1>1, <1>2, <1>3, Domains, OtherValues
<1>6. got[c] \in Seq(Nat) /\ wire[c] \in Seq(Event) /\ reply[c] \in Seq(Event) /\ Conn(c)
      /\ Len(got[c]) \in Nat /\ emitted[c] \in Nat
  BY ConnTypes, Printed
<1> HIDE DEF f
<1>7. Accepted(c)'
  <2>1. client'[c] \in {"waiting", "exit 0", "exit 1"}
    BY <1>5
  <2>2. client'[c] # "new" /\ client[c] # "new" /\ ~Fresh(c)
    BY <1>1, <2>1 DEF Fresh
  <2> QED BY <2>2, <1>2, <1>6, <2>1 DEF Conn, Accepted, Queued
<1>8. ASSUME f = Progress(Len(got[c]) + 1),
             InOrder(Append(got[c], Len(got[c]) + 1), Tail(wire[c]), reply[c]),
             Total(Append(got[c], Len(got[c]) + 1), Tail(wire[c]), reply[c]) = Sent(c),
             IF Tail(wire[c]) = <<>> /\ reply[c] = <<>>
             THEN Newest(c) = f ELSE Latest(Tail(wire[c]), reply[c]) = Newest(c)
      PROVE  Conn(c)'
  <2>1. f.kind = "progress" /\ f.number = Len(got[c]) + 1
    BY <1>8 DEF Progress
  <2>2. client'[c] = "waiting" /\ got'[c] = Append(got[c], Len(got[c]) + 1)
    BY <1>5, <2>1
  <2>3. Numbered(c)' /\ Sent(c)' = Sent(c) /\ (Waiting(c)' => Newest(c)' = Newest(c))
        /\ (Waiting(c)' \/ Newest(c) = f)
    BY <1>5, <1>8, <2>2 DEF Numbered, Sent, Newest, Waiting
  <2>4. Waiting(c) /\ ~Exited(c)' /\ ~Exited(c)
    BY <1>1, <2>2 DEF Waiting, Exited
  <2>5. \A k \in LastEvents : f # Last(k)
    BY <1>8 DEF Last, Progress, LastEvents
  <2>6. ASSUME Told(c), ended[c] \in LastEvents PROVE Told(c)'
    BY <1>1, <1>2, <2>3, <2>4, <2>5, <2>6 DEF Told
  <2>7. ended[c] # "none" => ended[c] \in LastEvents
    BY <1>3 DEF TypeOK, ClientTypeOK
  <2>8. Served(c)'
    BY <1>1, <1>2, <1>6, <2>3, <2>4, <2>6, <2>7 DEF Conn, Served, IsPrompt, Queued, Told
  <2> QED BY <1>7, <2>3, <2>8 DEF Conn
<1>9. ASSUME IsLast(f), Tail(wire[c]) = <<>>, reply[c] = <<>>, Newest(c) = f,
             InOrder(got[c], Tail(wire[c]), reply[c]), Sent(c) = Len(got[c]) + 1
      PROVE  Conn(c)'
  <2>1. got'[c] = got[c] /\ wire'[c] = <<>> /\ reply'[c] = <<>>
    BY <1>5, <1>9 DEF IsLast
  <2>2. Numbered(c)'
    BY <1>9, <2>1 DEF Numbered
  <2>3. Waiting(c) /\ ~Exited(c)
    BY <1>1 DEF Waiting, Exited
  <2>4. ASSUME Told(c) PROVE Told(c)'
    <3>1. f = Last(ended[c]) /\ Len(got[c]) = emitted[c] /\ ended[c] # "none"
      <4>1. Newest(c) = Last(ended[c]) /\ Sent(c) = emitted[c] + 1 /\ ended[c] # "none"
        BY <1>1, <2>4 DEF Told
      <4> QED BY <1>6, <1>9, <4>1
    <3>2. ended[c] \in LastEvents
      BY <1>3, <3>1 DEF TypeOK, ClientTypeOK
    <3>3. client'[c] = IF ended[c] = "complete" THEN "exit 0" ELSE "exit 1"
      BY <1>5, <3>1, <3>2 DEF Last, LastEvents
    <3> QED BY <1>2, <2>1, <3>1, <3>3 DEF Told
  <2>5. Served(c)'
    BY <1>1, <1>2, <1>6, <1>9, <2>3, <2>4 DEF Conn, Served, IsPrompt, Queued
  <2> QED BY <1>7, <2>2, <2>5 DEF Conn
<1>10. Conn(c)'
  <2>1. InOrder(got[c], wire[c], reply[c])
    BY <1>6 DEF Conn, Numbered
  <2> QED BY <1>1, <1>6, <1>8, <1>9, <2>1, ReadOne DEF f, Sent, Newest
<1> QED BY <1>4, <1>10

(* A client that does anything else.                                       *)
LEMMA ClientStep ==
    ASSUME DaemonInv, NEW c \in Clients,
           ReadEof(c) \/ Suspend(c) \/ Continue(c) \/ Die(c)
    PROVE  \A d \in Clients : Conn(d)'
<1>1. UNCHANGED <<daemon, queue, current, emitted, handler, reply, wire, got, request,
                  ended, shed>>
  BY DEF ReadEof, Suspend, Continue, Die, loopVars, connVars, histVars
<1>2. TypeOK /\ Conn(c)
  BY DEF DaemonInv, Conn
<1>3. \A d \in Clients \ {c} : Conn(d)'
  <2>1. \A d \in Clients \ {c} : client'[d] = client[d]
    BY <1>2, Domains, OtherValues DEF ReadEof, Suspend, Continue, Die
  <2>2. \A d \in Clients \ {c} : Alone(d)
    BY <1>1, <2>1 DEF Alone, Queued
  <2> QED BY <2>2, AloneKeeps DEF DaemonInv, Conn
<1>4. client[c] \in {"waiting", "suspended"}
  BY DEF ReadEof, Suspend, Continue, Die, Connected
<1>5. Numbered(c)'
  BY <1>1, <1>2 DEF Conn, Numbered
<1>6. CASE ReadEof(c)
  <2>1. client'[c] \in {"exit 0", "exit 1"} /\ handler[c] = "closed" /\ wire[c] = <<>>
    BY <1>2, <1>6, Domains, OtherValues DEF ReadEof
  <2>2. reply[c] = <<>>
    BY <1>2, <2>1 DEF Conn, Accepted
  <2>3. ~Told(c) /\ ~(Queued(c) /\ request[c] # "shutdown")
    BY <1>2, <1>4, <2>1, <2>2 DEF Told, Exited, Waiting, Conn, Accepted
  <2>4. Accepted(c)'
    BY <1>1, <1>2, <2>1, <2>3 DEF Conn, Accepted, Queued
  <2>5. current # c \/ c \in shed
    BY <1>2, <2>1 DEF Conn, Served
  <2>6. daemon = "running" /\ IsPrompt(c) => c \in shed
    <3>1. IsPrompt(c) => request[c] # "shutdown"
      BY DEF IsPrompt, Prompts
    <3> QED BY <1>2, <2>1, <2>3, <2>5, <3>1 DEF Conn, Served
  <2>7. Served(c)'
    BY <1>1, <1>2, <2>1, <2>6 DEF Conn, Served, IsPrompt
  <2>8. Conn(c)'
    BY <1>5, <2>4, <2>7 DEF Conn
  <2> QED BY <1>3, <2>8
<1>7. CASE Suspend(c) \/ Continue(c) \/ Die(c)
  <2>1. client'[c] \in {"waiting", "suspended", "dead"}
    BY <1>2, <1>7, Domains, OtherValues DEF Suspend, Continue, Die
  <2>2. ~Exited(c) /\ ~Exited(c)'
    BY <1>4, <2>1 DEF Exited
  <2>3. Fresh(c)' <=> Fresh(c)
    BY <1>1, <2>2 DEF Fresh
  <2>4. Accepted(c)'
    <3>1. client[c] # "new" /\ client'[c] # "new"
      BY <1>4, <2>1
    <3> QED BY <1>1, <1>2, <2>3, <3>1 DEF Conn, Accepted, Queued
  <2>5. Told(c) => Told(c)'
    BY <1>1, <1>4, <2>2 DEF Told, Waiting, Newest, Sent
  <2>6. Served(c)'
    BY <1>1, <1>2, <2>2, <2>5 DEF Conn, Served, IsPrompt, Queued, Sent, Waiting, Newest
  <2>7. Conn(c)'
    BY <1>5, <2>4, <2>6 DEF Conn
  <2> QED BY <1>3, <2>7
<1> QED BY <1>6, <1>7

LEMMA ConnectStep ==
    ASSUME DaemonInv, NEW c \in Clients, NEW r \in Requests, Connect(c, r)
    PROVE  \A d \in Clients : Conn(d)'
<1>1. UNCHANGED <<daemon, queue, current, emitted, reply, wire, got, ended, shed>>
  BY DEF Connect, loopVars, histVars
<1>2. TypeOK /\ Conn(c)
  BY DEF DaemonInv, Conn
<1>3. /\ client[c] = "new" /\ daemon = "running"
      /\ client' = [client EXCEPT ![c] = "waiting"]
      /\ request' = [request EXCEPT ![c] = r]
      /\ handler' = [handler EXCEPT ![c] = "enqueue"]
  BY DEF Connect
<1>4. \A d \in Clients \ {c} : Conn(d)'
  <2>1. \A d \in Clients \ {c} :
           client'[d] = client[d] /\ request'[d] = request[d] /\ handler'[d] = handler[d]
    BY <1>2, <1>3, Domains, OtherValues
  <2>2. \A d \in Clients \ {c} : Alone(d)
    BY <1>1, <2>1 DEF Alone, Queued
  <2> QED BY <2>2, AloneKeeps DEF DaemonInv, Conn
<1>5. client'[c] = "waiting" /\ request'[c] = r /\ handler'[c] = "enqueue"
  BY <1>2, <1>3, Domains, OtherValues
<1>6. handler[c] = "none" /\ Fresh(c) /\ ~Queued(c) /\ current # c
  BY <1>2, <1>3 DEF Conn, Accepted
<1>7. Fresh(c)' /\ ~Queued(c)'
  BY <1>1, <1>5, <1>6 DEF Fresh, Exited, Queued
<1>8. Numbered(c)' /\ Accepted(c)' /\ Served(c)'
  <2>1. Numbered(c)'
    BY <1>1, <1>2 DEF Conn, Numbered
  <2>2. Accepted(c)'
    BY <1>1, <1>5, <1>6, <1>7 DEF Accepted
  <2>3. Served(c)'
    BY <1>1, <1>5, <1>6 DEF Served
  <2> QED BY <2>1, <2>2, <2>3
<1> QED BY <1>4, <1>8 DEF Conn

-----------------------------------------------------------------------------
(* The handler of a connection.                                            *)
LEMMA EnqueueStep ==
    ASSUME DaemonInv, NEW c \in Clients, Enqueue(c) \/ EnqueueFails(c)
    PROVE  \A d \in Clients : Conn(d)'
<1>1. UNCHANGED <<daemon, current, emitted, client, request, reply, wire, got, ended, shed>>
  BY DEF Enqueue, EnqueueFails, loopVars, clientVars, histVars
<1>2. TypeOK /\ Conn(c) /\ LoopTypeOK /\ Distinct
  BY DEF DaemonInv, Conn, TypeOK, QueueInv
<1>3. handler[c] = "enqueue" /\ Fresh(c) /\ ~Queued(c) /\ current # c
  BY <1>2 DEF Enqueue, EnqueueFails, Conn, Accepted
<1>4. c \in Tasks
  BY DEF Tasks
<1>5. \/ /\ \A d \in Clients : Queued(d)' <=> Queued(d) \/ d = c
         /\ handler' = [handler EXCEPT ![c] =
                            IF request[c] = "shutdown" THEN "ack" ELSE "stream"]
      \/ /\ \A d \in Clients : Queued(d)' <=> Queued(d)
         /\ handler' = [handler EXCEPT ![c] =
                            IF request[c] = "shutdown" THEN "ack" ELSE "refuse"]
         /\ daemon = "returned"
  <2>1. CASE Enqueue(c)
    BY <1>2, <1>3, <1>4, <2>1, QueueGrows DEF Enqueue
  <2>2. CASE EnqueueFails(c)
    BY <2>2 DEF EnqueueFails, loopVars, Queued
  <2> QED BY <2>1, <2>2
<1>6. \A d \in Clients \ {c} : Conn(d)'
  <2>1. \A d \in Clients \ {c} : handler'[d] = handler[d]
    BY <1>2, <1>5, Domains, OtherValues
  <2>2. \A d \in Clients \ {c} : Alone(d)
    BY <1>1, <1>5, <2>1 DEF Alone
  <2> QED BY <2>2, AloneKeeps DEF DaemonInv, Conn
<1>7. \/ /\ Queued(c)'
         /\ handler'[c] = IF request[c] = "shutdown" THEN "ack" ELSE "stream"
      \/ /\ ~Queued(c)' /\ daemon = "returned"
         /\ handler'[c] = IF request[c] = "shutdown" THEN "ack" ELSE "refuse"
  BY <1>2, <1>3, <1>5, Domains, OtherValues
<1>8. Fresh(c)' /\ ended'[c] = "none"
  BY <1>1, <1>3 DEF Fresh, Exited
<1>9. client[c] # "new" /\ client'[c] # "new"
  BY <1>1, <1>2, <1>3 DEF Conn, Accepted
<1>10. Numbered(c)' /\ Accepted(c)' /\ Served(c)'
  <2>1. Numbered(c)'
    BY <1>1, <1>2 DEF Conn, Numbered
  <2>2. Accepted(c)'
    BY <1>1, <1>3, <1>7, <1>8, <1>9 DEF Accepted, Fresh
  <2>3. Served(c)'
    BY <1>1, <1>3, <1>7 DEF Served
  <2> QED BY <2>1, <2>2, <2>3
<1> QED BY <1>6, <1>10 DEF Conn

LEMMA AnswerStep ==
    ASSUME DaemonInv, NEW c \in Clients, Answer(c)
    PROVE  \A d \in Clients : Conn(d)'
<1>1. UNCHANGED <<daemon, queue, current, emitted, client, request, reply, got, ended, shed>>
  BY DEF Answer, loopVars, clientVars, histVars
<1>2. TypeOK /\ Conn(c)
  BY DEF DaemonInv, Conn
<1>3. handler[c] \in {"ack", "refuse"} /\ Fresh(c) /\ current # c
  BY <1>2 DEF Answer, Conn, Accepted
<1>4. PICK e \in Event : IsLast(e) /\ wire' = [wire EXCEPT ![c] = Append(wire[c], e)]
  <2>1. /\ Last("ack") \in Event /\ IsLast(Last("ack"))
        /\ Last("error") \in Event /\ IsLast(Last("error"))
    BY FramesAreEvents DEF LastEvents
  <2> QED BY <2>1 DEF Answer
<1>5. handler' = [handler EXCEPT ![c] = "closed"]
  BY DEF Answer
<1>6. \A d \in Clients \ {c} : Conn(d)'
  <2>1. \A d \in Clients \ {c} : handler'[d] = handler[d] /\ wire'[d] = wire[d]
    BY <1>2, <1>4, <1>5, Domains, OtherValues
  <2>2. \A d \in Clients \ {c} : Alone(d)
    BY <1>1, <2>1 DEF Alone, Queued
  <2> QED BY <2>2, AloneKeeps DEF DaemonInv, Conn
<1>7. handler'[c] = "closed" /\ wire'[c] = Append(<<>>, e)
  BY <1>2, <1>3, <1>4, <1>5, Domains, OtherValues DEF Fresh
<1>8. Numbered(c)'
  <2>1. got'[c] = <<>> /\ reply'[c] = <<>>
    BY <1>1, <1>3 DEF Fresh
  <2>2. Len(wire'[c]) = 1 /\ DOMAIN wire'[c] = {1} /\ wire'[c][1] = e
    BY <1>7
  <2> QED BY <1>4, <2>1, <2>2, OnlyLast DEF Numbered
<1>9. Accepted(c)'
  BY <1>1, <1>2, <1>3, <1>7 DEF Conn, Accepted, Fresh, Queued
<1>10. Served(c)'
  <2>1. ~(daemon = "running" /\ IsPrompt(c))
    BY <1>2, <1>3 DEF Conn, Accepted, IsPrompt, Prompts
  <2> QED BY <1>1, <1>3, <2>1 DEF Served, IsPrompt
<1> QED BY <1>6, <1>8, <1>9, <1>10 DEF Conn

LEMMA ForwardStep ==
    ASSUME DaemonInv, NEW c \in Clients, Forward(c)
    PROVE  \A d \in Clients : Conn(d)'
<1>1. UNCHANGED <<daemon, queue, current, emitted, client, request, handler, got, ended, shed>>
  BY DEF Forward, loopVars, clientVars, histVars
<1>2. TypeOK /\ Conn(c)
  BY DEF DaemonInv, Conn
<1>3. /\ handler[c] = "stream" /\ reply[c] # <<>>
      /\ wire' = [wire EXCEPT ![c] = Append(wire[c], Head(reply[c]))]
      /\ reply' = [reply EXCEPT ![c] = Tail(reply[c])]
  BY DEF Forward
<1>4. \A d \in Clients \ {c} : Conn(d)'
  <2>1. \A d \in Clients \ {c} : wire'[d] = wire[d] /\ reply'[d] = reply[d]
    BY <1>2, <1>3, Domains, OtherValues
  <2>2. \A d \in Clients \ {c} : Alone(d)
    BY <1>1, <2>1 DEF Alone, Queued
  <2> QED BY <2>2, AloneKeeps DEF DaemonInv, Conn
<1>5. /\ wire'[c] = Append(wire[c], Head(reply[c])) /\ reply'[c] = Tail(reply[c])
      /\ got'[c] = got[c]
  BY <1>1, <1>2, <1>3, Domains, OtherValues
<1>6. Numbered(c)' /\ wire'[c] # <<>> /\ Sent(c)' = Sent(c) /\ Newest(c)' = Newest(c)
  <2>1. got[c] \in Seq(Nat)
    BY Printed
  <2>2. wire[c] \in Seq(Event) /\ reply[c] \in Seq(Event)
    BY ConnTypes
  <2>3. InOrder(got[c], wire[c], reply[c])
    BY <1>2 DEF Conn, Numbered
  <2> QED BY <1>3, <1>5, <2>1, <2>2, <2>3, ForwardOne DEF Numbered, Sent, Newest
<1>7. ~Fresh(c) /\ ~Queued(c)
  BY <1>2, <1>3 DEF Conn, Accepted, Fresh
<1>8. Accepted(c)'
  BY <1>1, <1>2, <1>3, <1>7 DEF Conn, Accepted, Queued
<1>9. Waiting(c) /\ Waiting(c)' /\ (Exited(c)' <=> Exited(c))
  BY <1>1, <1>3, <1>6 DEF Waiting, Exited
<1>10. Told(c) => Told(c)'
  BY <1>1, <1>3, <1>6, <1>9 DEF Told
<1>11. Served(c)'
  BY <1>1, <1>2, <1>3, <1>6, <1>7, <1>9, <1>10 DEF Conn, Served, IsPrompt
<1> QED BY <1>4, <1>6, <1>8, <1>11 DEF Conn

LEMMA CloseStep ==
    ASSUME DaemonInv, NEW c \in Clients, DropConnection(c) \/ StreamEnds(c)
    PROVE  \A d \in Clients : Conn(d)'
<1>1. UNCHANGED <<daemon, queue, current, emitted, client, request, wire, got, ended>>
  BY DEF DropConnection, StreamEnds, loopVars, clientVars, histVars
<1>2. TypeOK /\ Conn(c)
  BY DEF DaemonInv, Conn
<1>3. handler[c] = "stream" /\ handler' = [handler EXCEPT ![c] = "closed"]
  BY DEF DropConnection, StreamEnds
<1>4. reply' = [reply EXCEPT ![c] = <<>>] \/ reply' = reply
  BY DEF DropConnection, StreamEnds
<1>5. shed' \in {shed, shed \cup {c}}
  BY DEF DropConnection, StreamEnds, histVars
<1>6. \A d \in Clients \ {c} : Conn(d)'
  <2>1. \A d \in Clients \ {c} : reply'[d] = reply[d] /\ handler'[d] = handler[d]
    BY <1>2, <1>3, <1>4, Domains, OtherValues
  <2>2. \A d \in Clients \ {c} : Alone(d)
    BY <1>1, <1>5, <2>1 DEF Alone, Queued
  <2> QED BY <2>2, AloneKeeps DEF DaemonInv, Conn
<1>7. handler'[c] = "closed" /\ reply'[c] = <<>>
  BY <1>2, <1>3, Domains, OtherValues DEF DropConnection, StreamEnds
<1>8. ~Queued(c)
  <2>1. CASE DropConnection(c)
    BY <1>2, <1>3, <2>1 DEF Conn, Accepted, Fresh, DropConnection
  <2>2. CASE StreamEnds(c)
    BY <2>2 DEF StreamEnds, HasSender
  <2> QED BY <2>1, <2>2
<1>9. Numbered(c)'
  BY <1>1, <1>2, <1>7, DropAll DEF Conn, Numbered
<1>10. Accepted(c)'
  BY <1>1, <1>2, <1>3, <1>7, <1>8 DEF Conn, Accepted, Queued
<1>11. Served(c)'
  <2>1. CASE DropConnection(c)
    <3>1. c \in shed'
      BY <2>1 DEF DropConnection
    <3> QED BY <1>1, <1>2, <1>7, <3>1 DEF Conn, Served, IsPrompt
  <2>2. CASE StreamEnds(c)
    <3>1. current # c /\ reply[c] = <<>> /\ shed' = shed
      BY <2>2 DEF StreamEnds, HasSender, histVars
    <3>2. Told(c)' <=> Told(c)
      BY <1>1, <1>7, <3>1 DEF Told, Waiting, Newest, Sent, Exited
    <3> QED BY <1>1, <1>2, <1>3, <1>8, <3>1, <3>2 DEF Conn, Served, IsPrompt
  <2> QED BY <2>1, <2>2
<1> QED BY <1>6, <1>9, <1>10, <1>11 DEF Conn

-----------------------------------------------------------------------------
(* The dispatch loop and the producers that no client waits behind.        *)
LEMMA OtherStep ==
    ASSUME DaemonInv,
           \/ SignalFires \/ SignalEnqueues \/ FileChanged \/ Approve \/ ConcludeTurn
           \/ UNCHANGED vars
    PROVE  \A d \in Clients : Conn(d)'
<1>1. UNCHANGED <<daemon, current, emitted, client, request, handler, reply, wire, got,
                  ended, shed>>
  BY DEF SignalFires, SignalEnqueues, FileChanged, Approve, ConcludeTurn, InTurn,
         loopVars, connVars, clientVars, histVars, vars
<1>2. LoopTypeOK /\ Distinct
  BY DEF DaemonInv, TypeOK, QueueInv
<1>3. \A d \in Clients : Queued(d)' <=> Queued(d)
  <2>1. CASE UNCHANGED queue
    BY <2>1 DEF Queued
  <2>2. CASE SignalEnqueues \/ FileChanged
    <3>1. {Signal, Watcher} \subseteq Tasks \ Clients
      BY DaemonConstants DEF Tasks
    <3> QED BY <1>2, <2>2, <3>1, QueueGrows DEF SignalEnqueues, FileChanged
  <2> QED BY <2>1, <2>2 DEF SignalFires, Approve, ConcludeTurn, InTurn, loopVars, vars
<1>4. \A d \in Clients : Alone(d)
  BY <1>1, <1>3 DEF Alone
<1> QED BY <1>4, AloneKeeps DEF DaemonInv, Conn

LEMMA StartTurnStep ==
    ASSUME DaemonInv, NEW t \in Tasks, StartTurn(t)
    PROVE  \A d \in Clients : Conn(d)'
<1>1. UNCHANGED <<daemon, client, request, handler, reply, wire, got, ended, shed>>
  BY DEF StartTurn, Take, clientVars, histVars
<1>2. TypeOK /\ LoopTypeOK /\ Distinct
  BY DEF DaemonInv, TypeOK, QueueInv
<1>3. current = NoTask /\ current' = t /\ emitted' = [emitted EXCEPT ![t] = 0]
  BY DEF StartTurn, Take
<1>4. Queued(t) /\ \A d \in Clients : Queued(d)' <=> Queued(d) /\ d # t
  BY <1>2, QueueShrinks DEF StartTurn
<1>5. \A d \in Clients : emitted'[d] = IF d = t THEN 0 ELSE emitted[d]
  BY <1>2, <1>3, Domains DEF Tasks
<1>6. NoTask \notin Clients
  BY DaemonConstants
<1>7. ASSUME NEW d \in Clients, d # t PROVE Conn(d)'
  <2>1. Alone(d)
    BY <1>1, <1>3, <1>4, <1>5, <1>6, <1>7 DEF Alone
  <2> QED BY <2>1, AloneKeeps DEF DaemonInv, Conn
<1>8. ASSUME t \in Clients PROVE Conn(t)'
  <2>1. IsPrompt(t) /\ request[t] # "shutdown"
    BY <1>8, DaemonConstants DEF StartTurn, StartsTurn, IsPrompt, Prompts
  <2>2. Conn(t)
    BY <1>8 DEF DaemonInv, Conn
  <2>3. Fresh(t) /\ handler[t] = "stream"
    BY <1>4, <2>1, <2>2 DEF Conn, Accepted
  <2>4. client[t] # "new"
    BY <2>2, <2>3 DEF Conn, Accepted
  <2>5. ~Queued(t)' /\ emitted'[t] = 0
    BY <1>4, <1>5, <1>8
  <2>6. Fresh(t)'
    BY <1>1, <2>3 DEF Fresh, Exited
  <2>7. Numbered(t)'
    BY <1>1, <2>2 DEF Conn, Numbered
  <2>8. Accepted(t)'
    BY <1>1, <2>1, <2>3, <2>4, <2>5 DEF Accepted
  <2>9. Sent(t)' = 0 /\ ~Waiting(t)'
    BY <2>6 DEF Fresh, Sent, Total, Waiting
  <2>10. Served(t)'
    BY <1>1, <1>3, <2>1, <2>3, <2>5, <2>6, <2>9 DEF Served, Fresh, IsPrompt
  <2> QED BY <2>7, <2>8, <2>10 DEF Conn
<1> QED BY <1>7, <1>8

LEMMA AnswerStatusStep ==
    ASSUME DaemonInv, NEW t \in Tasks, AnswerStatus(t)
    PROVE  \A d \in Clients : Conn(d)'
<1>1. UNCHANGED <<daemon, current, emitted, client, request, handler, wire, got, ended, shed>>
  BY DEF AnswerStatus, Take, clientVars, histVars
<1>2. TypeOK /\ LoopTypeOK /\ Distinct
  BY DEF DaemonInv, TypeOK, QueueInv
<1>3. t \in Clients /\ request[t] = "status" /\ Conn(t)
  BY DEF AnswerStatus, DaemonInv, Conn
<1>4. Queued(t) /\ \A d \in Clients : Queued(d)' <=> Queued(d) /\ d # t
  BY <1>2, QueueShrinks DEF AnswerStatus
<1>5. Fresh(t) /\ handler[t] = "stream" /\ current # t /\ client[t] # "new"
  BY <1>3, <1>4 DEF Conn, Accepted
<1> DEFINE w == <<Last("status")>>
<1>6. reply' = [reply EXCEPT ![t] = w]
  BY <1>5 DEF AnswerStatus
<1>7. Len(w) = 1 /\ DOMAIN w = {1} /\ IsLast(w[1])
  <2>1. IsLast(Last("status"))
    BY FramesAreEvents
  <2> QED BY <2>1
<1> HIDE DEF w
<1>8. reply'[t] = w /\ \A d \in Clients \ {t} : reply'[d] = reply[d]
  BY <1>2, <1>3, <1>6, Domains, OtherValues
<1>9. ASSUME NEW d \in Clients, d # t PROVE Conn(d)'
  <2>1. Alone(d)
    BY <1>1, <1>4, <1>8, <1>9 DEF Alone
  <2> QED BY <2>1, AloneKeeps DEF DaemonInv, Conn
<1>10. Numbered(t)'
  BY <1>1, <1>5, <1>7, <1>8, OnlyLast DEF Numbered, Fresh
<1>11. ~Queued(t)'
  BY <1>3, <1>4
<1>12. Accepted(t)'
  BY <1>1, <1>3, <1>5, <1>11 DEF Accepted
<1>13. Served(t)'
  BY <1>1, <1>3, <1>5 DEF Served, IsPrompt, Prompts
<1> QED BY <1>9, <1>10, <1>12, <1>13 DEF Conn

LEMMA LeaveLoopStep ==
    ASSUME DaemonInv, NEW t \in Tasks, LeaveLoop(t)
    PROVE  \A d \in Clients : Conn(d)'
<1>1. UNCHANGED <<current, emitted, client, request, handler, reply, wire, got, ended, shed>>
  BY DEF LeaveLoop, Take, clientVars, histVars
<1>2. LoopTypeOK /\ Distinct
  BY DEF DaemonInv, TypeOK, QueueInv
<1>3. daemon' = "stopping" /\ Queued(t)
      /\ \A d \in Clients : Queued(d)' <=> Queued(d) /\ d # t
  BY <1>2, QueueShrinks DEF LeaveLoop
<1>4. ASSUME NEW d \in Clients, d # t PROVE Conn(d)'
  <2>1. Alone(d)
    BY <1>1, <1>3, <1>4 DEF Alone
  <2> QED BY <2>1, AloneKeeps DEF DaemonInv, Conn
<1>5. ASSUME t \in Clients PROVE Conn(t)'
  <2>1. Conn(t)
    BY <1>5 DEF DaemonInv, Conn
  <2>2. request[t] = "shutdown" /\ current # t
    BY <1>3, <1>5, <2>1, DaemonConstants DEF LeaveLoop, IsShutdown, Conn, Accepted
  <2>3. Fresh(t)' <=> Fresh(t)
    BY <1>1 DEF Fresh, Exited
  <2>4. Accepted(t)'
    BY <1>1, <1>3, <2>1, <2>2, <2>3 DEF Conn, Accepted
  <2>5. Numbered(t)' /\ Served(t)'
    BY <1>1, <1>3, <2>1, <2>2 DEF Conn, Numbered, Served
  <2> QED BY <2>4, <2>5 DEF Conn
<1> QED BY <1>4, <1>5

(* An event of a prompt's turn.                                            *)
LEMMA TurnSends ==
    ASSUME DaemonInv, current \in Clients, handler[current] # "closed",
           NEW e \in Event, e = Progress(emitted[current] + 1) \/ IsLast(e),
           UNCHANGED <<wire, got>>, SendEvent(e)
    PROVE  /\ reply' = [reply EXCEPT ![current] = Append(reply[current], e)]
           /\ reply'[current] # <<>>
           /\ InOrder(got[current], wire[current], reply'[current])
           /\ Total(got[current], wire[current], reply'[current]) = emitted[current] + 1
           /\ Latest(wire[current], reply'[current]) = e
<1> DEFINE c == current
<1>1. TypeOK /\ Conn(c) /\ current # Watcher
  BY DaemonConstants DEF DaemonInv, Conn
<1>2. reply' = [reply EXCEPT ![c] = Append(reply[c], e)]
  BY <1>1 DEF SendEvent
<1>3. reply'[c] = Append(reply[c], e)
  BY <1>1, <1>2, Domains, OtherValues
<1>4. got[c] \in Seq(Nat) /\ wire[c] \in Seq(Event) /\ reply[c] \in Seq(Event)
  BY ConnTypes, Printed
<1>5. Sent(c) = emitted[c] /\ (Waiting(c) => ~IsLast(Newest(c)))
  BY <1>1 DEF Conn, Served
<1>6. InOrder(got[c], wire[c], reply[c])
  BY <1>1 DEF Conn, Numbered
<1> HIDE DEF c
<1>7. Total(got[c], wire[c], reply[c]) = emitted[c]
      /\ (wire[c] # <<>> \/ reply[c] # <<>> => ~IsLast(Latest(wire[c], reply[c])))
  BY <1>5 DEF Sent, Waiting, Newest
<1>8. e = Progress(Total(got[c], wire[c], reply[c]) + 1) \/ IsLast(e)
  BY <1>7 DEF c
<1>9. /\ InOrder(got[c], wire[c], Append(reply[c], e)) /\ Append(reply[c], e) # <<>>
      /\ Total(got[c], wire[c], Append(reply[c], e)) = emitted[c] + 1
      /\ Latest(wire[c], Append(reply[c], e)) = e
  BY <1>4, <1>6, <1>7, <1>8, SendOne
<1> QED BY <1>2, <1>3, <1>9 DEF c

LEMMA EmitEventStep ==
    ASSUME DaemonInv, EmitEvent
    PROVE  \A d \in Clients : Conn(d)'
<1>1. UNCHANGED <<daemon, queue, current, client, request, handler, wire, got, ended, shed>>
  BY DEF EmitEvent, InTurn, clientVars
<1>2. TypeOK /\ LoopTypeOK
  BY DEF DaemonInv, TypeOK
<1>3. current \in Clients \cup {Watcher} /\ current \in Tasks
  BY <1>2 DEF EmitEvent, InTurn, LoopTypeOK, Tasks
<1>4. emitted' = [emitted EXCEPT ![current] = emitted[current] + 1]
      /\ SendEvent(Progress(emitted[current] + 1))
  BY DEF EmitEvent
<1>5. \A d \in Clients : emitted'[d] = IF d = current THEN emitted[d] + 1 ELSE emitted[d]
  BY <1>2, <1>3, <1>4, Domains DEF Tasks
<1>6. \A d \in Clients \ {current} : reply'[d] = reply[d]
  BY <1>2, <1>3, <1>4, Domains, OtherValues DEF SendEvent
<1>7. ASSUME NEW d \in Clients, d # current PROVE Conn(d)'
  <2>1. Alone(d)
    BY <1>1, <1>5, <1>6, <1>7 DEF Alone, Queued
  <2> QED BY <2>1, AloneKeeps DEF DaemonInv, Conn
<1>8. ASSUME NEW c \in Clients, c = current, handler[c] = "closed" PROVE Conn(c)'
  <2>1. reply' = reply /\ Conn(c)
    BY <1>4, <1>8 DEF SendEvent, DaemonInv, Conn
  <2>2. c \in shed /\ current' = c
    BY <1>1, <1>8, <2>1 DEF Conn, Served
  <2>3. Numbered(c)' /\ Accepted(c)'
    BY <1>1, <2>1 DEF Conn, Numbered, Accepted, Fresh, Exited, Queued
  <2>4. Served(c)'
    BY <1>1, <1>8, <2>1, <2>2 DEF Conn, Served, IsPrompt
  <2> QED BY <2>3, <2>4 DEF Conn
<1>9. ASSUME NEW c \in Clients, c = current, handler[c] # "closed" PROVE Conn(c)'
  <2> DEFINE e == Progress(emitted[c] + 1)
  <2>1. e \in Event /\ ~IsLast(e)
    <3>1. emitted[c] \in 0 .. MaxEvents /\ emitted[c] < MaxEvents
      BY <1>9, ConnTypes DEF EmitEvent
    <3>2. emitted[c] + 1 \in 0 .. MaxEvents
      BY <3>1, DaemonConstants
    <3> QED BY <3>2, FramesAreEvents
  <2> HIDE DEF e
  <2>2. /\ reply'[c] # <<>> /\ InOrder(got[c], wire[c], reply'[c])
        /\ Total(got[c], wire[c], reply'[c]) = emitted[c] + 1
        /\ Latest(wire[c], reply'[c]) = e
    BY <1>1, <1>4, <1>9, <2>1, TurnSends DEF e
  <2>3. Conn(c)
    BY DEF DaemonInv, Conn
  <2>4. handler[c] = "stream" /\ c \notin shed /\ ~Exited(c) /\ IsPrompt(c) /\ ended[c] = "none"
    BY <1>9, <2>3 DEF Conn, Served
  <2>5. ~Queued(c)
    BY <1>9, <2>3 DEF Conn, Accepted
  <2>6. Numbered(c)' /\ Sent(c)' = emitted'[c] /\ Newest(c)' = e /\ current' = c
    BY <1>1, <1>5, <1>9, <2>2 DEF Numbered, Sent, Newest
  <2>7. Accepted(c)'
    BY <1>1, <2>3, <2>4, <2>5 DEF Conn, Accepted, Queued
  <2>8. Served(c)'
    BY <1>1, <2>1, <2>4, <2>6 DEF Served, Exited, IsPrompt
  <2> QED BY <2>6, <2>7, <2>8 DEF Conn
<1> QED BY <1>7, <1>8, <1>9

LEMMA EndTurnStep ==
    ASSUME DaemonInv, EndTurn
    PROVE  \A d \in Clients : Conn(d)'
<1>1. UNCHANGED <<daemon, queue, emitted, client, request, handler, wire, got, shed>>
  BY DEF EndTurn, InTurn, clientVars
<1>2. TypeOK /\ LoopTypeOK /\ QueueInv
  BY DEF DaemonInv, TypeOK
<1>3. current \in Clients \cup {Watcher} /\ current' = NoTask /\ NoTask \notin Clients
  BY <1>2, DaemonConstants DEF EndTurn, InTurn, LoopTypeOK
<1>4. outcome \in LastEvents
  BY <1>2 DEF EndTurn, InTurn, LoopTypeOK, QueueInv
<1>5. /\ SendEvent(Last(outcome))
      /\ \A d \in Clients : ended'[d] = IF d = current THEN outcome ELSE ended[d]
  BY DEF EndTurn
<1>6. \A d \in Clients \ {current} : reply'[d] = reply[d]
  BY <1>2, <1>3, <1>5, Domains, OtherValues DEF SendEvent
<1>7. ASSUME NEW d \in Clients, d # current PROVE Conn(d)'
  <2>1. Alone(d)
    BY <1>1, <1>3, <1>5, <1>6, <1>7 DEF Alone, Queued
  <2> QED BY <2>1, AloneKeeps DEF DaemonInv, Conn
<1>8. ASSUME NEW c \in Clients, c = current PROVE Conn(c)'
  <2>1. Conn(c)
    BY DEF DaemonInv, Conn
  <2>2. ~Queued(c) /\ IsPrompt(c) /\ ended'[c] = outcome /\ current' # c
    BY <1>3, <1>5, <1>8, <2>1 DEF Conn, Accepted, Served
  <2>3. outcome # "none" /\ Last(outcome) \in Event /\ IsLast(Last(outcome))
    BY <1>4, FramesAreEvents DEF LastEvents
  <2>4. CASE handler[c] = "closed"
    <3>1. reply' = reply /\ c \in shed
      BY <1>5, <1>8, <2>1, <2>4 DEF SendEvent, Conn, Served
    <3>2. Numbered(c)'
      BY <1>1, <2>1, <3>1 DEF Conn, Numbered
    <3>3. Accepted(c)'
      BY <1>1, <2>1, <2>2, <2>4, <3>1 DEF Conn, Accepted, Queued
    <3>4. Served(c)'
      BY <1>1, <2>2, <3>1 DEF Served
    <3> QED BY <3>2, <3>3, <3>4 DEF Conn
  <2>5. CASE handler[c] # "closed"
    <3>1. handler[c] = "stream" /\ c \notin shed /\ ~Exited(c)
      BY <1>8, <2>1, <2>5 DEF Conn, Served
    <3>2. /\ reply'[c] # <<>> /\ InOrder(got[c], wire[c], reply'[c])
          /\ Total(got[c], wire[c], reply'[c]) = emitted[c] + 1
          /\ Latest(wire[c], reply'[c]) = Last(outcome)
      BY <1>1, <1>5, <1>8, <2>3, <2>5, TurnSends
    <3>3. Numbered(c)'
      BY <1>1, <3>2 DEF Numbered
    <3>4. Accepted(c)'
      BY <1>1, <2>1, <2>2, <3>1 DEF Conn, Accepted, Queued
    <3>5. Told(c)'
      BY <1>1, <2>2, <2>3, <3>1, <3>2 DEF Told, Exited, Waiting, Newest, Sent
    <3>6. Served(c)'
      BY <2>2, <3>5 DEF Served
    <3> QED BY <3>3, <3>4, <3>6 DEF Conn
  <2> QED BY <2>4, <2>5
<1> QED BY <1>7, <1>8

LEMMA StopStep ==
    ASSUME DaemonInv, Return \/ Gone
    PROVE  \A d \in Clients : Conn(d)'
<1> SUFFICES ASSUME NEW c \in Clients PROVE Conn(c)'
  OBVIOUS
<1>1. UNCHANGED <<emitted, client, request, wire, got, ended, shed>> /\ queue' = <<>>
  BY DEF Return, Gone, connVars, clientVars, histVars
<1>2. daemon' # "running" /\ current' = NoTask /\ NoTask \notin Clients
  BY DaemonConstants DEF Return, Gone, DaemonInv, QueueInv
<1>3. Conn(c)
  BY DEF DaemonInv, Conn
<1>4. ~Queued(c)'
  BY <1>1 DEF Queued
<1>5. \/ handler'[c] = handler[c] /\ reply'[c] = reply[c]
      \/ handler'[c] = (IF handler[c] = "none" THEN "none" ELSE "closed") /\ reply'[c] = <<>>
  BY DEF Return, Gone, connVars
<1>6. Numbered(c)'
  BY <1>1, <1>3, <1>5, DropAll DEF Conn, Numbered
<1>7. Fresh(c) => Fresh(c)'
  BY <1>1, <1>5 DEF Fresh, Exited
<1>8. Accepted(c)'
  BY <1>1, <1>2, <1>3, <1>4, <1>5, <1>7 DEF Conn, Accepted
<1>9. Served(c)'
  BY <1>2 DEF Served
<1> QED BY <1>6, <1>8, <1>9 DEF Conn

-----------------------------------------------------------------------------
LEMMA DaemonInvStep == DaemonInv /\ [Next]_vars => DaemonInv'
<1> SUFFICES ASSUME DaemonInv, [Next]_vars PROVE DaemonInv'
  OBVIOUS
<1>1. TypeOK' /\ QueueInv'
  BY LoopTypeStep, ConnTypeStep, ClientTypeStep, QueueStep DEF TypeOK
<1>2. \A d \in Clients : Conn(d)'
  <2>1. ASSUME NEW c \in Clients, HandlerStep(c) \/ Enqueue(c)
        PROVE  \A d \in Clients : Conn(d)'
    BY <2>1, EnqueueStep, AnswerStep, ForwardStep, CloseStep DEF HandlerStep
  <2>2. ASSUME NEW c \in Clients,
               \/ ReadFrame(c) \/ ReadEof(c) \/ Suspend(c) \/ Continue(c) \/ Die(c)
               \/ \E r \in Requests : Connect(c, r)
        PROVE  \A d \in Clients : Conn(d)'
    BY <2>2, ReadFrameStep, ClientStep, ConnectStep
  <2>3. ASSUME DispatchStep PROVE \A d \in Clients : Conn(d)'
    BY <2>3, StartTurnStep, AnswerStatusStep, LeaveLoopStep, EmitEventStep, EndTurnStep,
       OtherStep, StopStep DEF DispatchStep, ProcessExits
  <2>4. CASE SignalFires \/ SignalEnqueues \/ FileChanged \/ Killed \/ UNCHANGED vars
    BY <2>4, OtherStep, StopStep DEF Killed
  <2> QED BY <2>1, <2>2, <2>3, <2>4 DEF Next, Finished
<1> QED BY <1>1, <1>2 DEF DaemonInv, Conn

(* The daemon's inductive invariant.                                       *)
THEOREM DaemonInvariant == Spec => []DaemonInv
<1>1. DaemonInv /\ [Next]_vars => DaemonInv'
  BY DaemonInvStep
<1> QED BY DaemonInvInit, <1>1, PTL DEF Spec

(* The types, and the bounds of the task channel, of the reply channels    *)
(* and of the frames that wait in a socket.                                *)
THEOREM DaemonTypeCorrect == Spec => []TypeOK
<1>1. DaemonInv => TypeOK
  BY DEF DaemonInv
<1> QED BY DaemonInvariant, <1>1, PTL

(* The exit code of anvil send says how the turn of its prompt ended, as   *)
(* long as its connection was not dropped and the daemon is up.            *)
THEOREM ExitCodes == Spec => []ExitCodeIsTrue
<1>1. DaemonInv => ExitCodeIsTrue
  <2> SUFFICES ASSUME DaemonInv, NEW c \in Clients, IsPrompt(c), c \notin shed,
                      daemon = "running", Exited(c)
               PROVE  /\ client[c] = "exit 0" => ended[c] = "complete"
                      /\ client[c] = "exit 1" => ended[c] \in {"error", "cancelled"}
    BY DEF ExitCodeIsTrue, Exited
  <2>1. Conn(c) /\ request[c] # "shutdown"
    BY DEF DaemonInv, Conn, IsPrompt, Prompts
  <2>2. ~Fresh(c) /\ current # c
    BY <2>1 DEF Conn, Served, Fresh
  <2>3. Told(c)
    BY <2>1, <2>2 DEF Conn, Accepted, Served
  <2>4. ended[c] \in LastEvents \cup {"none"}
    BY DEF DaemonInv, TypeOK, ClientTypeOK
  <2> QED BY <2>3, <2>4 DEF Told, LastEvents
<1> QED BY DaemonInvariant, <1>1, PTL

(* A client prints the events of its own turn from the first on without a  *)
(* gap, and all of them before it exits on a turn that completed.          *)
THEOREM Output == Spec => []OutputIsTurn
<1>1. DaemonInv => OutputIsTurn
  <2> SUFFICES ASSUME DaemonInv, NEW c \in Clients
               PROVE  /\ \A i \in DOMAIN got[c] : got[c][i] = i
                      /\ client[c] = "exit 0" /\ IsPrompt(c) /\ c \notin shed
                            /\ daemon = "running" => Len(got[c]) = emitted[c]
    BY DEF OutputIsTurn
  <2>1. Conn(c)
    BY DEF DaemonInv, Conn
  <2>2. ASSUME client[c] = "exit 0", IsPrompt(c), c \notin shed, daemon = "running"
        PROVE  Len(got[c]) = emitted[c]
    <3>1. Exited(c) /\ request[c] # "shutdown"
      BY <2>2 DEF Exited, IsPrompt, Prompts
    <3>2. ~Fresh(c) /\ current # c
      BY <2>1, <2>2, <3>1 DEF Conn, Served, Fresh
    <3>3. Told(c)
      BY <2>1, <2>2, <3>1, <3>2 DEF Conn, Accepted, Served
    <3> QED BY <3>1, <3>3 DEF Told
  <2> QED BY <2>1, <2>2 DEF Conn, Numbered, InOrder
<1> QED BY DaemonInvariant, <1>1, PTL

(* A stop request that was acknowledged is in the queue, or the dispatch   *)
(* loop has been left.                                                     *)
THEOREM Stops == Spec => []AcknowledgedIsStopping
<1>1. DaemonInv => AcknowledgedIsStopping
  <2> SUFFICES ASSUME DaemonInv, NEW c \in Clients, request[c] = "shutdown",
                      client[c] = "exit 0"
               PROVE  Queued(c) \/ daemon # "running"
    BY DEF AcknowledgedIsStopping
  <2>1. Accepted(c)
    BY DEF DaemonInv
  <2> QED BY <2>1 DEF Accepted, Fresh, Exited
<1> QED BY DaemonInvariant, <1>1, PTL
=============================================================================
