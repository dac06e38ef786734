--------------------------- MODULE Services_proof ----------------------------
(***************************************************************************)
(* Proofs about Mcp, for any servers and process ids and any number of     *)
(* calls, notifications and spawned processes.  Two things hold it         *)
(* together that no line of the manager says: who a live child belongs to, *)
(* a connection, the connection being made, or nobody; and that, while     *)
(* nothing has put a server out of step, what it was asked and has not     *)
(* answered, or has answered and nobody has read, is the one request       *)
(* waited for.                                                             *)
(***************************************************************************)
EXTENDS Services, FiniteSetTheorems, SequenceTheorems, TLAPS

-----------------------------------------------------------------------------
Busy(p) == op # NoOp /\ op.pid = p
Linked(p) == \E s \in Servers : conns[s] = p

(* A request of the operation is sent and its answer waited for.           *)
Expected(p) == Busy(p) /\ op.sent

(* A child that is held is not reaped behind the manager's back.           *)
Alive(p) == proc[p] \in {"server", "zombie"} /\ p \notin strays

Connections ==
    /\ \A s \in Servers : conns[s] # NoPid => Alive(conns[s]) /\ s \notin todo
    /\ \A s, t \in Servers : s # t /\ conns[s] # NoPid => conns[s] # conns[t]
    /\ op # NoOp /\ op.kind = "call" => conns[op.server] = op.pid
    /\ Connecting =>
         /\ Alive(op.pid) /\ ~Linked(op.pid)
         /\ conns[op.server] = NoPid /\ op.server \notin todo
    /\ dropped => op = NoOp /\ todo = {} /\ \A s \in Servers : conns[s] = NoPid

Registry ==
    /\ ~dropped => \A s \in Servers : conns[s] # NoPid => conns[s] \in child_pids
    /\ ~dropped /\ ~stale => \A p \in child_pids : Linked(p)
    /\ ~dropped => victims = {}

Owned ==
    ~dropped => \A p \in Pids : proc[p] = "server" =>
                   p \in strays \/ (Connecting /\ Busy(p)) \/ Linked(p)

(* What is between a request and the reading of its answer.                *)
Carries(p, id) ==
    \/ pipe[p] = <<>> /\ inbox[p] = <<id>>
    \/ pipe[p] = <<id>> /\ inbox[p] = <<>>

InStep ==
    \A p \in Pids : cause[p] = {} =>
       /\ Expected(p) => Carries(p, op.id)
       /\ (Linked(p) \/ Busy(p)) /\ ~Expected(p) /\ proc[p] = "server" =>
             pipe[p] = <<>> /\ inbox[p] = <<>>

McpInv ==
    /\ TypeOK /\ Connections /\ Registry /\ Owned /\ InStep
    /\ ResultsMatch /\ ToolsAreFound /\ KillsAreOwn /\ DropKillsAll

-----------------------------------------------------------------------------
(* A child is spawned for a server, whose old child, if any, is gone: what *)
(* connecting a new server and restarting one have in common.              *)
Replaces(kind, s, p) ==
    /\ op = NoOp /\ ~dropped /\ proc[p] = "free"
    /\ todo' \subseteq todo /\ s \notin todo'
    /\ conns' = [conns EXCEPT ![s] = NoPid]
    /\ child_pids' = child_pids \ {conns[s]}
    /\ proc' \in [Pids -> {"free", "server", "zombie", "other"}]
    /\ \A q \in Pids : proc'[q] = IF q = p THEN "server"
                                  ELSE IF q = conns[s] THEN "free" ELSE proc[q]
    /\ inbox' = [inbox EXCEPT ![p] = <<>>]
    /\ pipe' = [pipe EXCEPT ![p] = <<>>]
    /\ cause' = [cause EXCEPT ![p] = {}]
    /\ strays' = strays \ {p}
    /\ op' = [kind |-> kind, server |-> s, pid |-> p, id |-> 0, sent |-> FALSE]
    /\ spawns' \in Nat
    /\ UNCHANGED <<nextId, hasTools, dropped, calls, notes, results, victims, stale>>

Ops == [kind : {"new", "restart", "call"}, server : Servers, pid : Pids, id : Nat,
        sent : BOOLEAN]

(* An operation in progress is not NoOp.                                   *)
LEMMA InProgress ==
    ASSUME McpConstants, NEW k \in {"new", "restart", "call"}, NEW s \in Servers,
           NEW p \in Pids, NEW id \in Nat
    PROVE  /\ [kind |-> k, server |-> s, pid |-> p, id |-> id, sent |-> FALSE] \in Ops
           /\ [kind |-> k, server |-> s, pid |-> p, id |-> id, sent |-> FALSE] # NoOp
<1>1. FALSE \in BOOLEAN
  BY Zenon
<1>2. [kind |-> k, server |-> s, pid |-> p, id |-> id, sent |-> FALSE] \in Ops
  BY <1>1, Zenon DEF Ops
<1>3. NoOp \notin Ops
  BY Zenon DEF McpConstants, Ops
<1> QED BY <1>2, <1>3

(* What a reader takes: a line, and perhaps what follows it, which is      *)
(* noted.  Of a server in step there is nothing to follow.                 *)
LEMMA Reads ==
    ASSUME TypeOK, NEW p \in Pids, NEW line, ReadLine(p, line)
    PROVE  /\ pipe' \in [Pids -> Seq(Nat \cup {Note})] /\ line \in Nat \cup {Note}
           /\ \A q \in Pids : q # p => pipe'[q] = pipe[q] /\ cause'[q] = cause[q]
           /\ cause' \in [Pids -> SUBSET Causes] /\ cause[p] \subseteq cause'[p]
           /\ \A id : Carries(p, id) => line = id /\ pipe'[p] = <<>> /\ inbox[p] = <<>>
<1>1. /\ pipe \in [Pids -> Seq(Nat \cup {Note})] /\ cause \in [Pids -> SUBSET Causes]
      /\ pipe[p] \in Seq(Nat \cup {Note}) /\ pipe[p] # <<>> /\ line = Head(pipe[p])
  BY DEF TypeOK, ReadLine
<1>2. PICK n \in 1 .. Len(pipe[p]) :
         /\ pipe' = [pipe EXCEPT ![p] = SubSeq(@, n + 1, Len(@))]
         /\ cause' = [cause EXCEPT ![p] = IF n > 1 THEN @ \cup {"discarded"} ELSE @]
  BY DEF ReadLine
<1>3. SubSeq(pipe[p], n + 1, Len(pipe[p])) \in Seq(Nat \cup {Note}) /\ line \in Nat \cup {Note}
  <2>1. \A k \in n + 1 .. Len(pipe[p]) : pipe[p][k] \in Nat \cup {Note}
    BY <1>1
  <2> QED BY <1>1, <2>1
<1>4. pipe' \in [Pids -> Seq(Nat \cup {Note})]
  BY <1>1, <1>2, <1>3
<1>5. \A q \in Pids : q # p => pipe'[q] = pipe[q] /\ cause'[q] = cause[q]
  BY <1>1, <1>2
<1>6. cause' \in [Pids -> SUBSET Causes] /\ cause[p] \subseteq cause'[p]
  <2>1. "discarded" \in Causes
    BY DEF Causes
  <2> QED BY <1>1, <1>2, <2>1
<1>7. ASSUME NEW id, Carries(p, id)
      PROVE  line = id /\ pipe'[p] = <<>> /\ inbox[p] = <<>>
  <2>1. pipe[p] = <<id>> /\ inbox[p] = <<>>
    BY <1>1, <1>7 DEF Carries
  <2>2. Len(pipe[p]) = 1 /\ n = 1
    BY <1>2, <2>1
  <2>3. SubSeq(pipe[p], n + 1, Len(pipe[p])) = <<>>
    BY <1>1, <2>2
  <2> QED BY <1>1, <1>2, <2>1, <2>3
<1> QED BY <1>1, <1>3, <1>4, <1>5, <1>6, <1>7

-----------------------------------------------------------------------------
LEMMA McpInit == ASSUME McpConstants PROVE Init => McpInv
<1> SUFFICES ASSUME Init PROVE McpInv
  OBVIOUS
<1>1. TypeOK
  <2>1. dropped \in BOOLEAN /\ stale \in BOOLEAN
    BY Zenon DEF Init
  <2>2. hasTools \in [Servers -> BOOLEAN]
    BY Zenon DEF Init
  <2>3. inbox \in [Pids -> Seq(Nat)] /\ pipe \in [Pids -> Seq(Nat \cup {Note})]
    BY DEF Init
  <2>4. cause \in [Pids -> SUBSET Causes]
    BY DEF Init
  <2> QED BY <2>1, <2>2, <2>3, <2>4 DEF Init, TypeOK
<1>2. \A s \in Servers : conns[s] = NoPid
  BY DEF Init
<1>3. \A p \in Pids : ~Linked(p) /\ ~Busy(p) /\ proc[p] = "free"
  BY <1>2 DEF McpConstants, Init, Linked, Busy
<1>4. Connections /\ Registry /\ Owned /\ InStep
  BY <1>2, <1>3 DEF Init, Connections, Connecting, Registry, Owned, InStep, Expected
<1>5. ResultsMatch /\ ToolsAreFound /\ KillsAreOwn /\ DropKillsAll
  BY <1>2 DEF Init, ResultsMatch, ToolsAreFound, KillsAreOwn, DropKillsAll
<1> QED BY <1>1, <1>4, <1>5 DEF McpInv

LEMMA McpStep == ASSUME McpConstants PROVE McpInv /\ [Next]_vars => McpInv'
<1> SUFFICES ASSUME McpInv, [Next]_vars PROVE McpInv'
  OBVIOUS
<1>c. NoPid \notin Pids /\ Note \notin Nat /\ NoOp \notin Ops
  BY DEF McpConstants, Ops
<1>t. /\ TypeOK /\ Connections /\ Registry /\ Owned /\ InStep
      /\ ResultsMatch /\ ToolsAreFound /\ KillsAreOwn /\ DropKillsAll
  BY DEF McpInv
<1>o. op # NoOp => /\ op \in Ops /\ op.pid \in Pids /\ op.server \in Servers
                   /\ op.id \in Nat /\ op.kind \in {"new", "restart", "call"}
                   /\ op.sent \in BOOLEAN
  BY <1>t DEF TypeOK, Ops
<1> USE DEF procVars, bounds, histVars
(* A child is spawned.                                                     *)
<1>1. ASSUME NEW kind \in {"new", "restart"}, NEW s \in Servers, NEW p \in Pids,
             Replaces(kind, s, p)
      PROVE  McpInv'
  <2> USE DEF Replaces
  <2>1. op' \in Ops /\ op' # NoOp /\ op'.pid = p /\ op'.server = s /\ op'.kind = kind
        /\ op'.id = 0 /\ op'.sent = FALSE
    BY <1>1, InProgress
  <2>2. Connecting' /\ \A q \in Pids : Busy(q)' <=> q = p
    BY <1>1, <2>1 DEF Connecting, Busy
  <2>3. /\ conns' \in [Servers -> Pids \cup {NoPid}]
        /\ \A t \in Servers : conns'[t] = IF t = s THEN NoPid ELSE conns[t]
    BY <1>t, <1>1 DEF TypeOK
  <2>4. \A t \in Servers : conns[t] # NoPid => conns[t] \in Pids /\ conns[t] # p
    <3> SUFFICES ASSUME NEW t \in Servers, conns[t] # NoPid
                 PROVE  conns[t] \in Pids /\ conns[t] # p
      OBVIOUS
    <3>1. conns[t] \in Pids
      BY <1>t DEF TypeOK
    <3>2. proc[conns[t]] # "free"
      BY <1>t DEF Connections, Alive
    <3> QED BY <1>1, <3>1, <3>2
  <2>5. TypeOK'
    <3>1. inbox' \in [Pids -> Seq(Nat)] /\ pipe' \in [Pids -> Seq(Nat \cup {Note})]
      <4>1. <<>> \in Seq(Nat) /\ <<>> \in Seq(Nat \cup {Note})
        OBVIOUS
      <4>2. inbox \in [Pids -> Seq(Nat)] /\ pipe \in [Pids -> Seq(Nat \cup {Note})]
        BY <1>t DEF TypeOK
      <4> QED BY <1>1, <4>1, <4>2
    <3>2. cause' \in [Pids -> SUBSET Causes]
      BY <1>t, <1>1 DEF TypeOK
    <3> QED BY <1>t, <1>1, <2>1, <2>3, <3>1, <3>2 DEF TypeOK, Ops
  <2>6. ~Linked(p)'
    BY <1>c, <2>3, <2>4 DEF Linked
  <2>7. \A t \in Servers : t # s /\ conns[t] # NoPid => conns[t] # conns[s]
    BY <1>t DEF Connections
  <2>8. Connections'
    <3>1. ASSUME NEW t \in Servers, conns'[t] # NoPid PROVE Alive(conns[t])' /\ t \notin todo'
      <4>1. t # s /\ conns'[t] = conns[t] /\ conns[t] # NoPid
        BY <2>3, <3>1
      <4>2. Alive(conns[t]) /\ t \notin todo
        BY <1>t, <4>1 DEF Connections
      <4>3. proc'[conns[t]] = proc[conns[t]]
        BY <1>1, <2>4, <2>7, <4>1
      <4> QED BY <1>1, <4>1, <4>2, <4>3 DEF Alive
    <3>2. Alive(op.pid)'
      BY <1>1, <2>1 DEF Alive
    <3>3. op'.kind # "call" /\ conns'[op'.server] = NoPid /\ op'.server \notin todo'
      BY <1>1, <2>1, <2>3
    <3>4. ~Linked(op.pid)'
      BY <2>1, <2>6 DEF Linked
    <3>5. \A t, u \in Servers : t # u /\ conns'[t] # NoPid => conns'[t] # conns'[u]
      BY <1>t, <2>3 DEF Connections
    <3> QED BY <1>1, <3>1, <3>2, <3>3, <3>4, <3>5 DEF Connections
  <2>9. Registry'
    <3>1. \A t \in Servers : conns'[t] # NoPid => conns'[t] \in child_pids'
      BY <1>t, <1>1, <2>3, <2>7 DEF Registry
    <3>2. ~stale => \A q \in child_pids' : Linked(q)'
      <4> SUFFICES ASSUME ~stale, NEW q \in child_pids' PROVE Linked(q)'
        OBVIOUS
      <4>1. q \in child_pids /\ q # conns[s]
        BY <1>1
      <4>2. PICK t \in Servers : conns[t] = q
        BY <1>t, <1>1, <4>1 DEF Registry, Linked
      <4> QED BY <2>3, <4>1, <4>2 DEF Linked
    <3> QED BY <1>t, <1>1, <3>1, <3>2 DEF Registry
  <2>10. Owned'
    <3> SUFFICES ASSUME NEW q \in Pids, proc'[q] = "server", q # p
                 PROVE  q \in strays' \/ Linked(q)'
      BY <2>2 DEF Owned
    <3>1. q # conns[s] /\ proc[q] = "server"
      BY <1>1
    <3>2. q \in strays \/ Linked(q)
      BY <1>t, <1>1, <3>1 DEF Owned, Connecting
    <3> QED BY <1>1, <2>3, <3>1, <3>2 DEF Linked
  <2>11. InStep'
    <3>1. pipe'[p] = <<>> /\ inbox'[p] = <<>> /\ \A q \in Pids : ~Expected(q)'
      BY <1>t, <1>1, <2>1 DEF Expected, TypeOK
    <3>2. ASSUME NEW q \in Pids, q # p, cause'[q] = {}, Linked(q)', proc'[q] = "server"
          PROVE  pipe'[q] = <<>> /\ inbox'[q] = <<>>
      <4>1. Linked(q)
        BY <1>c, <2>3, <3>2 DEF Linked
      <4>2. cause[q] = {} /\ pipe'[q] = pipe[q] /\ inbox'[q] = inbox[q] /\ proc[q] = "server"
        BY <1>t, <1>1, <3>2 DEF TypeOK
      <4>3. ~Expected(q)
        BY <1>1 DEF Expected, Busy
      <4> QED BY <1>t, <4>1, <4>2, <4>3 DEF InStep
    <3> QED BY <2>2, <3>1, <3>2 DEF InStep
  <2>12. ResultsMatch' /\ KillsAreOwn' /\ DropKillsAll'
    BY <1>t, <1>1 DEF ResultsMatch, KillsAreOwn, DropKillsAll
  <2>13. ToolsAreFound'
    <3> SUFFICES ASSUME NEW t \in Servers, conns'[t] # NoPid, cause'[conns'[t]] = {}
                 PROVE  hasTools'[t]
      BY DEF ToolsAreFound
    <3>1. conns'[t] = conns[t] /\ conns[t] # p /\ conns[t] \in Pids
      BY <2>3, <2>4
    <3>2. cause'[conns[t]] = cause[conns[t]]
      BY <1>t, <1>1, <3>1 DEF TypeOK
    <3> QED BY <1>t, <1>1, <3>1, <3>2 DEF ToolsAreFound
  <2> QED BY <2>5, <2>8, <2>9, <2>10, <2>11, <2>12, <2>13 DEF McpInv
<1>2. ASSUME NEW s \in Servers, NEW p \in Pids, NewConnects(s, p) \/ Restart(s, p)
      PROVE  McpInv'
  <2>1. /\ conns \in [Servers -> Pids \cup {NoPid}]
        /\ proc \in [Pids -> {"free", "server", "zombie", "other"}]
        /\ child_pids \subseteq Pids /\ spawns \in Nat
    BY <1>t DEF TypeOK
  <2>2. CASE NewConnects(s, p)
    <3>1. conns[s] = NoPid
      BY <1>t, <2>2 DEF NewConnects, Connections
    <3>2. conns' = [conns EXCEPT ![s] = NoPid] /\ child_pids' = child_pids \ {conns[s]}
      BY <1>c, <2>1, <2>2, <3>1 DEF NewConnects
    <3>3. /\ proc' \in [Pids -> {"free", "server", "zombie", "other"}]
          /\ \A q \in Pids : proc'[q] = IF q = p THEN "server"
                                        ELSE IF q = conns[s] THEN "free" ELSE proc[q]
      BY <1>c, <2>1, <2>2, <3>1 DEF NewConnects, Spawn
    <3>4. /\ op = NoOp /\ ~dropped /\ proc[p] = "free"
          /\ todo' \subseteq todo /\ s \notin todo' /\ spawns' \in Nat
      BY <2>1, <2>2 DEF NewConnects, Spawn
    <3>5. /\ inbox' = [inbox EXCEPT ![p] = <<>>] /\ pipe' = [pipe EXCEPT ![p] = <<>>]
          /\ cause' = [cause EXCEPT ![p] = {}] /\ strays' = strays \ {p}
          /\ UNCHANGED <<nextId, hasTools, dropped, calls, notes, results, victims, stale>>
      BY <2>2 DEF NewConnects, Spawn
    <3>6. op' = [kind |-> "new", server |-> s, pid |-> p, id |-> 0, sent |-> FALSE]
      BY <2>2 DEF NewConnects, Spawn
    <3>7. "new" \in {"new", "restart"}
      OBVIOUS
    <3> QED BY <1>1, <3>2, <3>3, <3>4, <3>5, <3>6, <3>7 DEF Replaces
  <2>3. CASE Restart(s, p)
    <3>1. conns[s] \in Pids /\ p # conns[s]
      BY <2>1, <2>3 DEF Restart
    <3>2. /\ proc' \in [Pids -> {"free", "server", "zombie", "other"}]
          /\ \A q \in Pids : proc'[q] = IF q = p THEN "server"
                                        ELSE IF q = conns[s] THEN "free" ELSE proc[q]
      BY <2>1, <2>3, <3>1 DEF Restart
    <3>3. conns' = [conns EXCEPT ![s] = NoPid] /\ child_pids' = child_pids \ {conns[s]}
      BY <2>3 DEF Restart
    <3>4. /\ op = NoOp /\ ~dropped /\ proc[p] = "free"
          /\ todo' \subseteq todo /\ s \notin todo' /\ spawns' \in Nat
      BY <2>1, <2>3 DEF Restart, Idle
    <3>5. /\ inbox' = [inbox EXCEPT ![p] = <<>>] /\ pipe' = [pipe EXCEPT ![p] = <<>>]
          /\ cause' = [cause EXCEPT ![p] = {}] /\ strays' = strays \ {p}
          /\ UNCHANGED <<nextId, hasTools, dropped, calls, notes, results, victims, stale>>
      BY <2>3 DEF Restart
    <3>6. op' = [kind |-> "restart", server |-> s, pid |-> p, id |-> 0, sent |-> FALSE]
      BY <2>3 DEF Restart
    <3>7. "restart" \in {"new", "restart"}
      OBVIOUS
    <3> QED BY <1>1, <3>2, <3>3, <3>4, <3>5, <3>6, <3>7 DEF Replaces
  <2> QED BY <1>2, <2>2, <2>3
(* Connections are closed and their children waited for.                   *)
<1>3. ASSUME NEW S \in SUBSET Servers, op = NoOp, ~dropped,
             conns' = [t \in Servers |-> IF t \in S THEN NoPid ELSE conns[t]],
             proc' = [q \in Pids |-> IF \E t \in S : conns[t] = q THEN "free" ELSE proc[q]],
             child_pids' \subseteq child_pids, stale' \in BOOLEAN, stale => stale',
             \A t \in Servers \ S : conns[t] # NoPid /\ conns[t] \in child_pids
                                      => conns[t] \in child_pids',
             ~stale' => \A t \in S : conns[t] \notin child_pids',
             UNCHANGED <<op, todo, nextId, hasTools, dropped, inbox, pipe, bounds, results,
                         cause, strays, victims>>
      PROVE  McpInv'
  <2>1. \A t \in Servers : conns'[t] = IF t \in S THEN NoPid ELSE conns[t]
    BY <1>3
  <2>2. \A q \in Pids : proc'[q] = IF \E t \in S : conns[t] = q THEN "free" ELSE proc[q]
    BY <1>3
  <2>3. \A q \in Pids : ~Busy(q) /\ ~Busy(q)'
    BY <1>3 DEF Busy
  <2>4. ~Connecting /\ ~Connecting'
    BY <1>3 DEF Connecting
  <2>5. \A t \in Servers : conns[t] \in Pids \cup {NoPid}
    BY <1>t DEF TypeOK
  <2>6. TypeOK'
    <3>1. conns' \in [Servers -> Pids \cup {NoPid}]
      BY <1>3, <2>5
    <3>2. proc' \in [Pids -> {"free", "server", "zombie", "other"}]
      BY <1>t, <1>3 DEF TypeOK
    <3>3. child_pids' \subseteq Pids
      BY <1>t, <1>3 DEF TypeOK
    <3> QED BY <1>t, <1>3, <3>1, <3>2, <3>3 DEF TypeOK
  <2>7. Connections'
    <3>1. ASSUME NEW t \in Servers, conns'[t] # NoPid PROVE Alive(conns[t])' /\ t \notin todo'
      <4>1. t \notin S /\ conns'[t] = conns[t] /\ conns[t] \in Pids
        BY <2>1, <2>5, <3>1
      <4>2. Alive(conns[t]) /\ t \notin todo
        BY <1>t, <3>1, <4>1 DEF Connections
      <4>3. ~ \E u \in S : conns[u] = conns[t]
        BY <1>t, <3>1, <4>1 DEF Connections
      <4>4. proc'[conns[t]] = proc[conns[t]]
        BY <2>2, <4>1, <4>3
      <4> QED BY <1>3, <4>1, <4>2, <4>4 DEF Alive
    <3>2. \A t, u \in Servers : t # u /\ conns'[t] # NoPid => conns'[t] # conns'[u]
      BY <1>t, <2>1 DEF Connections
    <3> QED BY <1>3, <2>4, <3>1, <3>2 DEF Connections
  <2>8. Registry'
    <3>1. \A t \in Servers : conns'[t] # NoPid => conns'[t] \in child_pids'
      BY <1>t, <1>3, <2>1 DEF Registry
    <3>2. ASSUME ~stale', NEW q \in child_pids' PROVE Linked(q)'
      <4>1. q \in child_pids /\ ~stale
        BY <1>3, <3>2
      <4>2. PICK t \in Servers : conns[t] = q
        BY <1>t, <1>3, <4>1 DEF Registry, Linked
      <4>3. t \notin S
        BY <1>3, <3>2, <4>2
      <4> QED BY <2>1, <4>2, <4>3 DEF Linked
    <3> QED BY <1>t, <1>3, <3>1, <3>2 DEF Registry
  <2>9. Owned'
    <3> SUFFICES ASSUME NEW q \in Pids, proc'[q] = "server" PROVE q \in strays' \/ Linked(q)'
      BY DEF Owned
    <3>1. proc[q] = "server" /\ ~ \E t \in S : conns[t] = q
      BY <2>2
    <3>2. q \in strays \/ Linked(q)
      BY <1>t, <1>3, <2>4, <3>1 DEF Owned
    <3> QED BY <1>3, <2>1, <3>1, <3>2 DEF Linked
  <2>10. InStep'
    <3> SUFFICES ASSUME NEW q \in Pids, cause'[q] = {}, Linked(q)', proc'[q] = "server"
                 PROVE  pipe'[q] = <<>> /\ inbox'[q] = <<>>
      BY <2>3 DEF InStep, Expected
    <3>1. Linked(q)
      BY <1>c, <2>1 DEF Linked
    <3>2. proc[q] = "server"
      BY <2>2
    <3> QED BY <1>t, <1>3, <2>3, <3>1, <3>2 DEF InStep, Expected
  <2>11. ResultsMatch' /\ KillsAreOwn' /\ DropKillsAll'
    BY <1>t, <1>3 DEF ResultsMatch, KillsAreOwn, DropKillsAll
  <2>12. ToolsAreFound'
    BY <1>t, <1>3, <2>1 DEF ToolsAreFound
  <2> QED BY <2>6, <2>7, <2>8, <2>9, <2>10, <2>11, <2>12 DEF McpInv
<1>4. ASSUME NEW s \in Servers, RestartSkips(s) PROVE McpInv'
  <2>1. conns[s] \in Pids
    BY <1>t, <1>4 DEF RestartSkips, TypeOK
  <2>2. conns' = [t \in Servers |-> IF t \in {s} THEN NoPid ELSE conns[t]]
    BY <1>t, <1>4 DEF RestartSkips, TypeOK
  <2>3. proc' = [q \in Pids |-> IF \E t \in {s} : conns[t] = q THEN "free" ELSE proc[q]]
    BY <1>t, <1>4, <2>1 DEF RestartSkips, TypeOK
  <2>4. \A t \in Servers : t # s /\ conns[t] # NoPid => conns[t] # conns[s]
    BY <1>t DEF Connections
  <2>5. {s} \in SUBSET Servers /\ stale' \in BOOLEAN /\ (stale => stale')
    <3>1. stale \in BOOLEAN /\ stale' = stale
      BY <1>t, <1>4 DEF RestartSkips, TypeOK
    <3> QED BY <3>1, Zenon
  <2>6. /\ child_pids' \subseteq child_pids /\ conns[s] \notin child_pids'
        /\ \A t \in Servers \ {s} : conns[t] # NoPid /\ conns[t] \in child_pids
                                      => conns[t] \in child_pids'
    BY <1>4, <2>4 DEF RestartSkips
  <2>7. ~stale' => \A t \in {s} : conns[t] \notin child_pids'
    BY <2>6
  <2>8. op = NoOp /\ ~dropped
    BY <1>4 DEF RestartSkips, Idle
  <2>9. UNCHANGED <<op, todo, nextId, hasTools, dropped, inbox, pipe, bounds, results,
                    cause, strays, victims>>
    BY <1>4 DEF RestartSkips
  <2> QED BY <1>3, <2>2, <2>3, <2>5, <2>6, <2>7, <2>8, <2>9
<1>5. CASE Shutdown
  <2>1. conns' = [t \in Servers |-> IF t \in Servers THEN NoPid ELSE conns[t]]
    BY <1>5 DEF Shutdown
  <2>2. stale' = TRUE /\ child_pids' = child_pids
    BY <1>5 DEF Shutdown
  <2>3. Servers \in SUBSET Servers /\ stale' \in BOOLEAN
    BY <2>2
  <2> QED BY <1>3, <1>5, <2>1, <2>2, <2>3 DEF Shutdown, Idle
(* Nobody gains or loses a child.                                          *)
<1>6. ASSUME UNCHANGED <<conns, hasTools, child_pids, dropped, results, strays, victims,
                         stale>>,
             todo' \subseteq todo,
             \/ op' = op
             \/ /\ op # NoOp /\ op' # NoOp
                /\ op'.pid = op.pid /\ op'.server = op.server /\ op'.kind = op.kind,
             \A q \in Pids : Alive(q) => proc'[q] \in {"server", "zombie"},
             \A q \in Pids : proc'[q] = "server" => proc[q] = "server",
             \A q \in Pids : cause[q] \subseteq cause'[q],
             TypeOK', InStep'
      PROVE  McpInv'
  <2>1. \A q : (Linked(q)' <=> Linked(q)) /\ (Busy(q)' <=> Busy(q))
    BY <1>6 DEF Linked, Busy
  <2>2. Connecting' <=> Connecting
    BY <1>6 DEF Connecting
  <2>3. \A s \in Servers : conns[s] # NoPid => conns[s] \in Pids
    BY <1>t DEF TypeOK
  <2>4. Connections'
    <3>1. \A s \in Servers : conns'[s] # NoPid => Alive(conns[s])' /\ s \notin todo'
      BY <1>t, <1>6, <2>3 DEF Connections, Alive
    <3>2. op' # NoOp /\ op'.kind = "call" => conns'[op'.server] = op'.pid
      BY <1>t, <1>6 DEF Connections
    <3>3. ASSUME Connecting'
          PROVE  /\ Alive(op.pid)' /\ ~Linked(op.pid)'
                 /\ conns'[op'.server] = NoPid /\ op'.server \notin todo'
      <4>1. /\ Connecting /\ op' # NoOp /\ op # NoOp /\ op'.pid = op.pid
            /\ op'.server = op.server
        BY <1>6, <2>2, <3>3 DEF Connecting
      <4>2. /\ Alive(op.pid) /\ ~Linked(op.pid) /\ conns[op.server] = NoPid
            /\ op.server \notin todo
        BY <1>t, <4>1 DEF Connections
      <4>3. Alive(op.pid)' /\ ~Linked(op.pid)'
        BY <1>o, <1>6, <4>1, <4>2 DEF Alive, Linked
      <4> QED BY <1>6, <4>1, <4>2, <4>3
    <3>4. dropped' => op' = NoOp /\ todo' = {} /\ \A s \in Servers : conns'[s] = NoPid
      BY <1>t, <1>6 DEF Connections
    <3>5. \A s, t \in Servers : s # t /\ conns'[s] # NoPid => conns'[s] # conns'[t]
      BY <1>t, <1>6 DEF Connections
    <3> QED BY <3>1, <3>2, <3>3, <3>4, <3>5 DEF Connections
  <2>5. Registry' /\ Owned'
    BY <1>t, <1>6, <2>1, <2>2 DEF Registry, Owned
  <2>6. ResultsMatch' /\ KillsAreOwn' /\ DropKillsAll'
    BY <1>t, <1>6 DEF ResultsMatch, KillsAreOwn, DropKillsAll
  <2>7. ToolsAreFound'
    BY <1>t, <1>6, <2>3 DEF ToolsAreFound
  <2> QED BY <1>6, <2>4, <2>5, <2>6, <2>7 DEF McpInv
<1>7. CASE UNCHANGED vars
  <2>1. TypeOK'
    BY <1>t, <1>7 DEF vars, TypeOK
  <2>2. InStep'
    BY <1>t, <1>7 DEF vars, InStep, Expected, Busy, Linked, Carries
  <2> QED BY <1>6, <1>7, <2>1, <2>2 DEF vars, Alive
<1>8. ASSUME NEW s \in Servers, NewSkips(s) PROVE McpInv'
  <2>1. TypeOK'
    BY <1>t, <1>8 DEF NewSkips, TypeOK
  <2>2. InStep'
    BY <1>t, <1>8 DEF NewSkips, InStep, Expected, Busy, Linked, Carries
  <2> QED BY <1>6, <1>8, <2>1, <2>2 DEF NewSkips, Alive
<1>9. CASE Initialized
  <2>1. /\ op # NoOp /\ op.kind # "call" /\ op.id = 0 /\ op.pid \in Pids
        /\ op \in Ops /\ op.sent /\ op' = [op EXCEPT !.id = 1, !.sent = FALSE]
    BY <1>o, <1>9 DEF Initialized, Connecting
  <2>2. /\ op' \in Ops /\ op' # NoOp /\ op'.pid = op.pid /\ op'.server = op.server
        /\ op'.kind = op.kind /\ op'.sent = FALSE
    <3>1. FALSE \in BOOLEAN /\ 1 \in Nat
      OBVIOUS
    <3>2. op' \in Ops
      BY <2>1, <3>1, Zenon DEF Ops
    <3>3. op' # NoOp
      BY <1>c, <3>2
    <3>4. /\ op'.pid = op.pid /\ op'.server = op.server /\ op'.kind = op.kind
          /\ op'.sent = FALSE
      BY <2>1, Zenon DEF Ops
    <3> QED BY <3>2, <3>3, <3>4
  <2>3. /\ pipe' \in [Pids -> Seq(Nat \cup {Note})] /\ cause' \in [Pids -> SUBSET Causes]
        /\ \A q \in Pids : q # op.pid => pipe'[q] = pipe[q] /\ cause'[q] = cause[q]
        /\ cause[op.pid] \subseteq cause'[op.pid]
        /\ \A id : Carries(op.pid, id) => pipe'[op.pid] = <<>> /\ inbox[op.pid] = <<>>
    BY <1>t, <1>9, <2>1, Reads DEF Initialized
  <2>4. inbox' = inbox /\ proc' = proc
    BY <1>9 DEF Initialized
  <2>5. TypeOK'
    BY <1>t, <1>9, <2>2, <2>3 DEF Initialized, TypeOK, Ops
  <2>6. InStep'
    <3>1. \A q : /\ Linked(q)' <=> Linked(q)
                /\ (Busy(q)' <=> q = op.pid) /\ (Expected(q) <=> q = op.pid)
                /\ ~Expected(q)'
      BY <1>9, <2>1, <2>2 DEF Initialized, Linked, Busy, Expected
    <3>2. ASSUME cause'[op.pid] = {} PROVE pipe'[op.pid] = <<>> /\ inbox[op.pid] = <<>>
      <4>1. Carries(op.pid, op.id)
        BY <1>t, <2>1, <2>3, <3>1, <3>2 DEF InStep
      <4> QED BY <2>3, <4>1
    <3>3. ASSUME NEW q \in Pids, q # op.pid, cause'[q] = {}, Linked(q), proc[q] = "server"
          PROVE  pipe'[q] = <<>> /\ inbox[q] = <<>>
      BY <1>t, <2>3, <3>1, <3>3 DEF InStep
    <3> QED BY <2>4, <3>1, <3>2, <3>3 DEF InStep
  <2>7. /\ UNCHANGED <<conns, hasTools, child_pids, dropped, results, strays, victims, stale,
                       todo, proc>>
    BY <1>9 DEF Initialized
  <2>8. \A q \in Pids : cause[q] \subseteq cause'[q]
    BY <2>3
  <2>9. \A q \in Pids : Alive(q) => proc'[q] \in {"server", "zombie"}
    BY <2>7 DEF Alive
  <2> QED BY <1>6, <2>1, <2>2, <2>5, <2>6, <2>7, <2>8, <2>9
<1>10. ASSUME NEW line \in Lines, Connected(line) PROVE McpInv'
  <2>1. /\ op # NoOp /\ op.kind # "call" /\ op.id = 1 /\ op.sent /\ op.pid \in Pids
        /\ op.server \in Servers /\ Connecting /\ op' = NoOp
        /\ UNCHANGED <<todo, dropped, proc, inbox, bounds, results, strays, victims, stale>>
    BY <1>o, <1>10 DEF Connected, Connecting
  <2>2. /\ Alive(op.pid) /\ ~Linked(op.pid) /\ conns[op.server] = NoPid
        /\ op.server \notin todo
    BY <1>t, <2>1 DEF Connections
  <2>3. /\ pipe' \in [Pids -> Seq(Nat \cup {Note})] /\ cause' \in [Pids -> SUBSET Causes]
        /\ \A q \in Pids : q # op.pid => pipe'[q] = pipe[q] /\ cause'[q] = cause[q]
        /\ cause[op.pid] \subseteq cause'[op.pid]
        /\ \A id : Carries(op.pid, id) =>
                      line = id /\ pipe'[op.pid] = <<>> /\ inbox[op.pid] = <<>>
    BY <1>t, <1>10, <2>1, Reads DEF Connected
  <2>4. /\ conns' \in [Servers -> Pids \cup {NoPid}] /\ hasTools' \in [Servers -> BOOLEAN]
        /\ nextId' \in [Servers -> Nat]
        /\ \A s \in Servers : conns'[s] = IF s = op.server THEN op.pid ELSE conns[s]
        /\ \A s \in Servers : hasTools'[s] = IF s = op.server THEN line = 1 ELSE hasTools[s]
        /\ child_pids' = child_pids \cup {op.pid}
    <3>1. hasTools \in [Servers -> BOOLEAN]
      BY <1>t DEF TypeOK
    <3>2. hasTools' = [hasTools EXCEPT ![op.server] = line = 1]
      BY <1>10 DEF Connected
    <3>3. (line = 1) \in BOOLEAN
      BY Zenon
    <3>4. hasTools' \in [Servers -> BOOLEAN]
      BY <2>1, <3>1, <3>2, <3>3, Zenon
    <3>5. \A s \in Servers : hasTools'[s] = IF s = op.server THEN line = 1 ELSE hasTools[s]
      BY <2>1, <3>1, <3>2
    <3>6. /\ conns' \in [Servers -> Pids \cup {NoPid}] /\ nextId' \in [Servers -> Nat]
          /\ \A s \in Servers : conns'[s] = IF s = op.server THEN op.pid ELSE conns[s]
      BY <1>t, <1>10, <2>1 DEF Connected, TypeOK
    <3> QED BY <1>10, <3>4, <3>5, <3>6 DEF Connected
  <2>5. TypeOK'
    <3>1. child_pids' \subseteq Pids
      BY <1>t, <2>1, <2>4 DEF TypeOK
    <3> QED BY <1>t, <2>1, <2>3, <2>4, <3>1 DEF TypeOK
  <2>6. \A q \in Pids : Linked(q)' <=> (Linked(q) \/ q = op.pid)
    BY <1>c, <2>1, <2>2, <2>4 DEF Linked
  <2>7. ~Connecting' /\ \A q : ~Busy(q)'
    BY <2>1 DEF Connecting, Busy
  <2>8. Connections'
    <3>1. ASSUME NEW s \in Servers, conns'[s] # NoPid PROVE Alive(conns[s])' /\ s \notin todo'
      <4>1. CASE s = op.server
        BY <2>1, <2>2, <2>4, <4>1 DEF Alive
      <4>2. CASE s # op.server
        <5>1. conns'[s] = conns[s] /\ Alive(conns[s]) /\ s \notin todo
          BY <1>t, <2>4, <3>1, <4>2 DEF Connections
        <5> QED BY <2>1, <5>1 DEF Alive
      <4> QED BY <4>1, <4>2
    <3>2. \A s, t \in Servers : s # t /\ conns'[s] # NoPid => conns'[s] # conns'[t]
      BY <1>t, <2>1, <2>2, <2>4 DEF Connections, Linked
    <3>3. ~dropped'
      BY <1>t, <2>1 DEF Connections
    <3> QED BY <2>1, <2>7, <3>1, <3>2, <3>3 DEF Connections
  <2>9. Registry'
    <3>1. \A s \in Servers : conns'[s] # NoPid => conns[s] = conns'[s] \/ conns'[s] = op.pid
      BY <2>4
    <3>2. ~dropped => \A s \in Servers : conns'[s] # NoPid => conns'[s] \in child_pids'
      BY <1>t, <2>4, <3>1 DEF Registry
    <3>3. ~dropped /\ ~stale => \A q \in child_pids' : Linked(q)'
      BY <1>t, <2>1, <2>4, <2>6 DEF Registry, TypeOK
    <3> QED BY <1>t, <2>1, <3>2, <3>3 DEF Registry
  <2>10. Owned'
    BY <1>t, <2>1, <2>6 DEF Owned, Busy
  <2>11. ASSUME cause'[op.pid] = {}
         PROVE  line = 1 /\ pipe'[op.pid] = <<>> /\ inbox[op.pid] = <<>>
    <3>1. cause[op.pid] = {} /\ Expected(op.pid)
      BY <2>1, <2>3, <2>11 DEF Expected, Busy
    <3>2. Carries(op.pid, 1)
      BY <1>t, <2>1, <3>1 DEF InStep
    <3> QED BY <2>3, <3>2
  <2>12. InStep'
    <3> SUFFICES ASSUME NEW q \in Pids, cause'[q] = {}, Linked(q)', proc'[q] = "server"
                 PROVE  pipe'[q] = <<>> /\ inbox'[q] = <<>>
      BY <2>7 DEF InStep, Expected
    <3>1. CASE q = op.pid
      BY <2>1, <2>11, <3>1
    <3>2. CASE q # op.pid
      <4>1. Linked(q) /\ ~Busy(q)
        BY <2>6, <3>2 DEF Busy
      <4> QED BY <1>t, <2>1, <2>3, <3>2, <4>1 DEF InStep, Expected
    <3> QED BY <3>1, <3>2
  <2>13. ResultsMatch' /\ KillsAreOwn' /\ DropKillsAll'
    BY <1>t, <2>1 DEF ResultsMatch, KillsAreOwn, DropKillsAll
  <2>14. ToolsAreFound'
    <3> SUFFICES ASSUME NEW s \in Servers, conns'[s] # NoPid, cause'[conns'[s]] = {}
                 PROVE  hasTools'[s]
      BY DEF ToolsAreFound
    <3>1. CASE s = op.server
      BY <2>4, <2>11, <3>1
    <3>2. CASE s # op.server
      <4>1. conns'[s] = conns[s] /\ conns[s] # op.pid /\ conns[s] \in Pids
        BY <1>t, <2>2, <2>4, <3>2 DEF Linked, TypeOK
      <4> QED BY <1>t, <2>3, <2>4, <3>2, <4>1 DEF ToolsAreFound
    <3> QED BY <3>1, <3>2
  <2> QED BY <2>5, <2>8, <2>9, <2>10, <2>12, <2>13, <2>14 DEF McpInv
(* An operation ends, and leaves the connections as they are.              *)
<1>11. ASSUME op # NoOp, op' = NoOp,
              strays' = IF Connecting THEN strays \cup {op.pid} ELSE strays,
              pipe' \in [Pids -> Seq(Nat \cup {Note})], cause' \in [Pids -> SUBSET Causes],
              \A q \in Pids : q # op.pid => pipe'[q] = pipe[q] /\ cause'[q] = cause[q],
              cause[op.pid] \subseteq cause'[op.pid],
              ~Connecting /\ cause'[op.pid] = {} /\ proc[op.pid] = "server" =>
                 pipe'[op.pid] = <<>> /\ inbox[op.pid] = <<>>,
              results' \subseteq Nat \X (Nat \cup {Note}) \X SUBSET Causes, ResultsMatch',
              UNCHANGED <<todo, conns, nextId, hasTools, child_pids, dropped, proc, inbox,
                          bounds, victims, stale>>
       PROVE  McpInv'
  <2>1. op.pid \in Pids
    BY <1>o, <1>11
  <2>2. ~Connecting' /\ \A q : ~Busy(q)' /\ (Linked(q)' <=> Linked(q))
    BY <1>11 DEF Connecting, Busy, Linked
  <2>3. strays \subseteq strays' /\ (Connecting => op.pid \in strays')
        /\ \A q \in strays' : q \in strays \/ (Connecting /\ q = op.pid)
    BY <1>11
  <2>4. TypeOK'
    <3>1. strays' \subseteq Pids
      BY <1>t, <2>1, <2>3 DEF TypeOK
    <3> QED BY <1>t, <1>11, <3>1 DEF TypeOK
  <2>5. Connections'
    <3>1. ASSUME NEW s \in Servers, conns'[s] # NoPid PROVE Alive(conns[s])' /\ s \notin todo'
      <4>1. conns'[s] = conns[s] /\ Alive(conns[s]) /\ s \notin todo
        BY <1>t, <1>11, <3>1 DEF Connections
      <4>2. Connecting => conns[s] # op.pid
        BY <1>t DEF Connections, Linked
      <4> QED BY <1>11, <2>3, <4>1, <4>2 DEF Alive
    <3>2. \A s, t \in Servers : s # t /\ conns'[s] # NoPid => conns'[s] # conns'[t]
      BY <1>t, <1>11 DEF Connections
    <3>3. ~dropped'
      BY <1>t, <1>11 DEF Connections
    <3> QED BY <1>11, <2>2, <3>1, <3>2, <3>3 DEF Connections
  <2>6. Registry'
    BY <1>t, <1>11, <2>2 DEF Registry
  <2>7. Owned'
    BY <1>t, <1>11, <2>2, <2>3 DEF Owned, Busy
  <2>8. InStep'
    <3> SUFFICES ASSUME NEW q \in Pids, cause'[q] = {}, Linked(q), proc[q] = "server"
                 PROVE  pipe'[q] = <<>> /\ inbox[q] = <<>>
      BY <1>11, <2>2 DEF InStep, Expected
    <3>1. CASE q = op.pid
      <4>1. ~Connecting
        BY <1>t, <3>1 DEF Connections
      <4> QED BY <1>11, <3>1, <4>1
    <3>2. CASE q # op.pid
      BY <1>t, <1>11, <3>2 DEF InStep, Expected, Busy
    <3> QED BY <3>1, <3>2
  <2>9. KillsAreOwn' /\ DropKillsAll'
    BY <1>t, <1>11, <2>3 DEF KillsAreOwn, DropKillsAll
  <2>10. ToolsAreFound'
    <3>1. \A s \in Servers : conns[s] # NoPid => conns[s] \in Pids
      BY <1>t DEF TypeOK
    <3>2. \A q \in Pids : cause'[q] = {} => cause[q] = {}
      BY <1>11
    <3> QED BY <1>t, <1>11, <3>1, <3>2 DEF ToolsAreFound
  <2> QED BY <1>11, <2>4, <2>5, <2>6, <2>7, <2>8, <2>9, <2>10 DEF McpInv
<1>12. CASE ConnectFails \/ Timeout \/ EndOfOutput
  <2>1. op # NoOp /\ op' = NoOp /\ op.pid \in Pids
    BY <1>o, <1>12 DEF ConnectFails, Connecting, Timeout, EndOfOutput
  <2>2. strays' = IF Connecting THEN strays \cup {op.pid} ELSE strays
    BY <1>12 DEF ConnectFails, Timeout, EndOfOutput, Connecting
  <2>3. /\ pipe \in [Pids -> Seq(Nat \cup {Note})] /\ cause \in [Pids -> SUBSET Causes]
        /\ results \subseteq Nat \X (Nat \cup {Note}) \X SUBSET Causes
    BY <1>t DEF TypeOK
  <2>4. UNCHANGED <<todo, conns, nextId, hasTools, child_pids, dropped, proc, inbox, pipe,
                    bounds, results, victims, stale>>
    BY <1>12 DEF ConnectFails, Timeout, EndOfOutput
  <2>5. /\ cause' \in [Pids -> SUBSET Causes] /\ cause[op.pid] \subseteq cause'[op.pid]
        /\ \A q \in Pids : q # op.pid => cause'[q] = cause[q]
        /\ Timeout => cause'[op.pid] # {}
    <3>1. CASE ConnectFails \/ EndOfOutput
      <4>1. cause' = cause /\ (Timeout => proc[op.pid] = "server" /\ op.kind = "call")
        BY <3>1 DEF ConnectFails, EndOfOutput, Timeout
      <4>2. ~Timeout
        BY <3>1, <4>1 DEF ConnectFails, EndOfOutput, Timeout, Connecting
      <4> QED BY <2>3, <4>1, <4>2
    <3>2. CASE Timeout
      <4>1. cause' = [cause EXCEPT ![op.pid] = @ \cup {"timeout"}]
        BY <3>2 DEF Timeout
      <4>2. "timeout" \in Causes
        BY DEF Causes
      <4> QED BY <2>1, <2>3, <4>1, <4>2
    <3> QED BY <1>12, <3>1, <3>2
  <2>6. ~Connecting /\ cause'[op.pid] = {} => proc[op.pid] # "server"
    BY <1>12, <2>5 DEF ConnectFails, EndOfOutput
  <2>7. ResultsMatch'
    BY <1>t, <2>4 DEF ResultsMatch
  <2> QED BY <1>11, <2>1, <2>2, <2>3, <2>4, <2>5, <2>6, <2>7
<1>13. ASSUME NEW line \in Lines, Answered(line) PROVE McpInv'
  <2>1. /\ op # NoOp /\ op.kind = "call" /\ op.sent /\ op' = NoOp /\ op.pid \in Pids
        /\ op.id \in Nat
        /\ ~Connecting /\ results' = results \cup {<<op.id, line, cause[op.pid]>>}
        /\ strays' = strays
    BY <1>o, <1>13 DEF Answered, Connecting
  <2>2. /\ pipe' \in [Pids -> Seq(Nat \cup {Note})] /\ cause' \in [Pids -> SUBSET Causes]
        /\ line \in Nat \cup {Note}
        /\ \A q \in Pids : q # op.pid => pipe'[q] = pipe[q] /\ cause'[q] = cause[q]
        /\ cause[op.pid] \subseteq cause'[op.pid]
        /\ \A id : Carries(op.pid, id) =>
                      line = id /\ pipe'[op.pid] = <<>> /\ inbox[op.pid] = <<>>
    BY <1>t, <1>13, <2>1, Reads DEF Answered
  <2>3. cause[op.pid] = {} => line = op.id /\ pipe'[op.pid] = <<>> /\ inbox[op.pid] = <<>>
    BY <1>t, <2>1, <2>2 DEF InStep, Expected, Busy
  <2>4. results' \subseteq Nat \X (Nat \cup {Note}) \X SUBSET Causes
    <3>1. cause[op.pid] \in SUBSET Causes
      BY <1>t, <2>1 DEF TypeOK
    <3> QED BY <1>t, <2>1, <2>2, <3>1 DEF TypeOK
  <2>5. ResultsMatch'
    BY <1>t, <2>1, <2>3 DEF ResultsMatch
  <2>6. cause'[op.pid] = {} => pipe'[op.pid] = <<>> /\ inbox[op.pid] = <<>>
    BY <2>2, <2>3
  <2>7. UNCHANGED <<todo, conns, nextId, hasTools, child_pids, dropped, proc, inbox,
                    bounds, victims, stale>>
    BY <1>13 DEF Answered
  <2> QED BY <1>11, <2>1, <2>2, <2>4, <2>5, <2>6, <2>7
<1>14. ASSUME NEW s \in Servers, CallTool(s) PROVE McpInv'
  <2>1. /\ op = NoOp /\ todo = {} /\ ~dropped /\ conns[s] \in Pids /\ conns[s] # NoPid
        /\ UNCHANGED <<todo, conns, hasTools, child_pids, dropped, proc, inbox, pipe, notes,
                       spawns, histVars>>
    BY <1>t, <1>14 DEF CallTool, Idle, TypeOK
  <2>2. nextId' \in [Servers -> Nat] /\ nextId[s] \in Nat /\ calls' \in Nat
    BY <1>t, <1>14 DEF CallTool, TypeOK
  <2>3. /\ op' \in Ops /\ op' # NoOp /\ op'.kind = "call" /\ op'.server = s
        /\ op'.pid = conns[s] /\ op'.sent = FALSE
    <3>1. op' = [kind |-> "call", server |-> s, pid |-> conns[s], id |-> nextId[s],
                 sent |-> FALSE]
      BY <1>14 DEF CallTool
    <3> QED BY <2>1, <2>2, <3>1, InProgress
  <2>4. TypeOK'
    BY <1>t, <2>1, <2>2, <2>3 DEF TypeOK, Ops
  <2>5. \A q : ~Busy(q) /\ (Busy(q)' <=> q = conns[s]) /\ (Linked(q)' <=> Linked(q))
    BY <2>1, <2>3 DEF Busy, Linked
  <2>6. ~Connecting /\ ~Connecting'
    BY <2>1, <2>3 DEF Connecting
  <2>7. InStep'
    <3>1. \A q \in Pids : ~Expected(q) /\ ~Expected(q)'
      BY <2>1, <2>3 DEF Expected, Busy
    <3>2. Linked(conns[s])
      BY DEF Linked
    <3> QED BY <1>t, <2>1, <2>5, <3>1, <3>2 DEF InStep
  <2>8. Connections'
    BY <1>t, <2>1, <2>3, <2>6 DEF Connections, Alive
  <2>9. Registry' /\ Owned'
    BY <1>t, <2>1, <2>5, <2>6 DEF Registry, Owned
  <2>10. ResultsMatch' /\ KillsAreOwn' /\ DropKillsAll' /\ ToolsAreFound'
    BY <1>t, <2>1 DEF ResultsMatch, KillsAreOwn, DropKillsAll, ToolsAreFound
  <2> QED BY <2>4, <2>7, <2>8, <2>9, <2>10 DEF McpInv
<1>15. CASE Drop
  <2>1. /\ ~dropped /\ todo = {} /\ dropped' = TRUE /\ op' = NoOp
        /\ strays' = IF Connecting THEN strays \cup {op.pid} ELSE strays
        /\ \A s \in Servers : conns'[s] = NoPid
        /\ victims' = {p \in child_pids : proc[p] = "other"}
        /\ UNCHANGED <<todo, nextId, hasTools, child_pids, inbox, pipe, bounds, results, cause,
                       stale>>
    BY <1>15 DEF Drop
  <2>2. Connecting => op.pid \in Pids
    BY <1>o DEF Connecting
  <2>3. \A p \in Pids : proc'[p] = "server" => proc[p] = "server" /\ p \notin child_pids
    BY <1>15 DEF Drop
  <2>4. TypeOK'
    <3>1. conns' \in [Servers -> Pids \cup {NoPid}]
      BY <1>15 DEF Drop
    <3>2. proc' \in [Pids -> {"free", "server", "zombie", "other"}]
      BY <1>t, <1>15 DEF Drop, TypeOK
    <3>3. strays' \subseteq Pids /\ victims' \subseteq Pids
      BY <1>t, <2>1, <2>2 DEF TypeOK
    <3>4. dropped' \in BOOLEAN
      BY <2>1, Zenon
    <3> QED BY <1>t, <2>1, <3>1, <3>2, <3>3, <3>4 DEF TypeOK
  <2>5. \A q \in Pids : ~Linked(q)' /\ ~Busy(q)'
    BY <1>c, <2>1 DEF Linked, Busy
  <2>6. Connections' /\ Registry' /\ Owned' /\ InStep'
    BY <2>1, <2>5 DEF Connections, Connecting, Registry, Owned, InStep, Expected
  <2>7. KillsAreOwn'
    <3> SUFFICES ASSUME NEW p \in child_pids, proc[p] = "other", ~stale PROVE FALSE
      BY <2>1 DEF KillsAreOwn
    <3>1. PICK s \in Servers : conns[s] = p
      BY <1>t, <2>1 DEF Registry, Linked
    <3>2. p # NoPid
      BY <1>c, <1>t DEF TypeOK
    <3> QED BY <1>t, <3>1, <3>2 DEF Connections, Alive
  <2>8. DropKillsAll'
    <3> SUFFICES ASSUME NEW p \in Pids, proc'[p] = "server" PROVE p \in strays'
      BY DEF DropKillsAll
    <3>1. proc[p] = "server" /\ p \notin child_pids /\ p # NoPid
      BY <1>c, <2>3
    <3>2. ~Linked(p)
      BY <1>t, <2>1, <3>1 DEF Registry, Linked
    <3> QED BY <1>t, <2>1, <3>1, <3>2 DEF Owned, Busy
  <2>9. ResultsMatch' /\ ToolsAreFound'
    BY <1>t, <2>1 DEF ResultsMatch, ToolsAreFound
  <2> QED BY <2>4, <2>6, <2>7, <2>8, <2>9 DEF McpInv
<1>16. ASSUME NEW p \in Pids, Serve(p) PROVE McpInv'
  <2>1. /\ inbox[p] \in Seq(Nat) /\ inbox[p] # <<>> /\ pipe[p] \in Seq(Nat \cup {Note})
        /\ inbox \in [Pids -> Seq(Nat)] /\ pipe \in [Pids -> Seq(Nat \cup {Note})]
        /\ pipe' = [pipe EXCEPT ![p] = Append(pipe[p], Head(inbox[p]))]
        /\ inbox' = [inbox EXCEPT ![p] = Tail(inbox[p])]
        /\ UNCHANGED <<op, todo, conns, nextId, hasTools, child_pids, dropped, proc, bounds,
                       histVars>>
        /\ proc[p] = "server"
    BY <1>t, <1>16 DEF Serve, TypeOK
  <2>2. Head(inbox[p]) \in Nat /\ Tail(inbox[p]) \in Seq(Nat)
    BY <2>1
  <2>3. TypeOK'
    <3>1. Append(pipe[p], Head(inbox[p])) \in Seq(Nat \cup {Note})
      BY <2>1, <2>2
    <3>2. inbox' \in [Pids -> Seq(Nat)] /\ pipe' \in [Pids -> Seq(Nat \cup {Note})]
      BY <2>1, <2>2, <3>1
    <3> QED BY <1>t, <2>1, <3>2 DEF TypeOK
  <2>4. InStep'
    <3>1. \A q : /\ Linked(q)' <=> Linked(q)
                /\ (Busy(q)' <=> Busy(q)) /\ (Expected(q)' <=> Expected(q))
      BY <2>1 DEF Linked, Busy, Expected
    <3>2. ASSUME cause[p] = {}
          PROVE  /\ Expected(p) => pipe'[p] = <<op.id>> /\ inbox'[p] = <<>>
                 /\ (Linked(p) \/ Busy(p)) /\ ~Expected(p) => FALSE
      <4>1. (Linked(p) \/ Busy(p)) /\ ~Expected(p) => inbox[p] = <<>>
        BY <1>t, <2>1, <3>2 DEF InStep
      <4>2. Expected(p) => pipe[p] = <<>> /\ inbox[p] = <<op.id>>
        BY <1>t, <2>1, <3>2 DEF InStep, Carries
      <4>3. ASSUME pipe[p] = <<>>, inbox[p] = <<op.id>>
            PROVE  pipe'[p] = <<op.id>> /\ inbox'[p] = <<>>
        <5>1. Head(inbox[p]) = op.id /\ Tail(inbox[p]) = <<>>
          BY <4>3
        <5>2. Append(pipe[p], op.id) = <<op.id>>
          BY <4>3
        <5> QED BY <2>1, <5>1, <5>2
      <4> QED BY <2>1, <4>1, <4>2, <4>3
    <3>3. ASSUME NEW q \in Pids, q # p PROVE pipe'[q] = pipe[q] /\ inbox'[q] = inbox[q]
      BY <2>1, <3>3
    <3> SUFFICES ASSUME NEW q \in Pids, cause[q] = {}
                 PROVE  /\ Expected(q) => Carries(q, op.id)'
                        /\ (Linked(q) \/ Busy(q)) /\ ~Expected(q) /\ proc[q] = "server" =>
                              pipe'[q] = <<>> /\ inbox'[q] = <<>>
      BY <2>1, <3>1 DEF InStep
    <3>4. CASE q = p
      BY <2>1, <3>2, <3>4 DEF Carries
    <3>5. CASE q # p
      BY <1>t, <2>1, <3>3, <3>5 DEF InStep, Carries
    <3> QED BY <3>4, <3>5
  <2> QED BY <1>6, <2>1, <2>3, <2>4 DEF Alive
<1>17. ASSUME NEW p \in Pids, Notify(p) PROVE McpInv'
  <2>1. /\ pipe' = [pipe EXCEPT ![p] = Append(pipe[p], Note)]
        /\ cause' = [cause EXCEPT ![p] = cause[p] \cup {"notification"}]
        /\ UNCHANGED <<op, todo, conns, nextId, hasTools, child_pids, dropped, proc, inbox,
                       calls, spawns, results, strays, victims, stale>>
        /\ notes' = notes + 1
    BY <1>17 DEF Notify
  <2>2. /\ pipe \in [Pids -> Seq(Nat \cup {Note})] /\ cause \in [Pids -> SUBSET Causes]
        /\ notes \in Nat
    BY <1>t DEF TypeOK
  <2>3. cause' \in [Pids -> SUBSET Causes] /\ \A q \in Pids : cause[q] \subseteq cause'[q]
    <3>1. "notification" \in Causes
      BY DEF Causes
    <3> QED BY <2>1, <2>2, <3>1
  <2>4. TypeOK'
    <3>1. pipe' \in [Pids -> Seq(Nat \cup {Note})]
      BY <2>1, <2>2
    <3>2. notes' \in Nat
      BY <2>1, <2>2
    <3> QED BY <1>t, <2>1, <2>3, <3>1, <3>2 DEF TypeOK
  <2>5. InStep'
    <3>1. \A q : /\ Linked(q)' <=> Linked(q)
                /\ (Busy(q)' <=> Busy(q)) /\ (Expected(q)' <=> Expected(q))
      BY <2>1 DEF Linked, Busy, Expected
    <3>2. \A q \in Pids : cause'[q] = {} => q # p /\ cause[q] = {} /\ pipe'[q] = pipe[q]
      BY <2>1, <2>2
    <3> QED BY <1>t, <2>1, <3>1, <3>2 DEF InStep, Carries
  <2> QED BY <1>6, <2>1, <2>3, <2>4, <2>5 DEF Alive
(* A process changes its state by itself, or its id its owner.             *)
<1>18. ASSUME NEW p \in Pids, NEW to \in {"free", "zombie", "other"},
              proc' = [proc EXCEPT ![p] = to], Alive(p) => to = "zombie",
              UNCHANGED <<op, todo, conns, nextId, hasTools, child_pids, dropped, inbox, pipe,
                          bounds, histVars>>
       PROVE  McpInv'
  <2>1. \A q \in Pids : proc'[q] = IF q = p THEN to ELSE proc[q]
    BY <1>t, <1>18 DEF TypeOK
  <2>2. TypeOK'
    BY <1>t, <1>18 DEF TypeOK
  <2>3. InStep'
    <3>1. \A q : /\ Linked(q)' <=> Linked(q)
                /\ (Busy(q)' <=> Busy(q)) /\ (Expected(q)' <=> Expected(q))
      BY <1>18 DEF Linked, Busy, Expected
    <3> QED BY <1>t, <1>18, <2>1, <3>1 DEF InStep, Carries
  <2>4. \A q \in Pids : Alive(q) => proc'[q] \in {"server", "zombie"}
    BY <1>18, <2>1 DEF Alive
  <2> QED BY <1>6, <1>18, <2>1, <2>2, <2>3, <2>4
<1>19. ASSUME NEW p \in Pids, ServerDies(p) \/ Reap(p) \/ IdGoesToOther(p) PROVE McpInv'
  <2>1. PICK to \in {"free", "zombie", "other"} :
           proc' = [proc EXCEPT ![p] = to] /\ (Alive(p) => to = "zombie")
    BY <1>19 DEF ServerDies, Reap, IdGoesToOther, Alive
  <2>2. UNCHANGED <<op, todo, conns, nextId, hasTools, child_pids, dropped, inbox, pipe,
                    bounds, histVars>>
    BY <1>19 DEF ServerDies, Reap, IdGoesToOther
  <2> QED BY <1>18, <2>1, <2>2
<1>20. CASE Over
  BY <1>7, <1>20 DEF Over
(* A request is written: nothing is between its server and its reader.     *)
<1>21. CASE Write
  <2>1. /\ op \in Ops /\ op # NoOp /\ op.pid \in Pids /\ op.id \in Nat
        /\ op.sent = FALSE /\ proc[op.pid] = "server"
        /\ op' = [op EXCEPT !.sent = TRUE]
        /\ inbox' = [inbox EXCEPT ![op.pid] = Append(inbox[op.pid], op.id)]
        /\ UNCHANGED <<todo, conns, nextId, hasTools, child_pids, dropped, proc, pipe, bounds,
                       histVars>>
    BY <1>o, <1>21 DEF Write, Writing
  <2>2. /\ op' \in Ops /\ op' # NoOp /\ op'.pid = op.pid /\ op'.server = op.server
        /\ op'.kind = op.kind /\ op'.id = op.id /\ op'.sent = TRUE
    BY <1>c, <2>1 DEF Ops
  <2>3. inbox \in [Pids -> Seq(Nat)] /\ inbox' \in [Pids -> Seq(Nat)]
    BY <1>t, <2>1 DEF TypeOK
  <2>4. TypeOK'
    BY <1>t, <2>1, <2>2, <2>3 DEF TypeOK, Ops
  <2>5. InStep'
    <3>1. \A q : /\ Linked(q)' <=> Linked(q)
                /\ (Busy(q)' <=> Busy(q)) /\ (Busy(q) <=> q = op.pid)
                /\ ~Expected(q) /\ (Expected(q)' <=> q = op.pid)
      BY <2>1, <2>2 DEF Linked, Busy, Expected
    <3>2. ASSUME cause[op.pid] = {} PROVE pipe[op.pid] = <<>> /\ inbox'[op.pid] = <<op.id>>
      <4>1. pipe[op.pid] = <<>> /\ inbox[op.pid] = <<>>
        BY <1>t, <2>1, <3>1, <3>2 DEF InStep
      <4> QED BY <2>1, <2>3, <4>1
    <3>3. \A q \in Pids : q # op.pid => inbox'[q] = inbox[q]
      BY <2>1, <2>3
    <3> QED BY <1>t, <2>1, <2>2, <3>1, <3>2, <3>3 DEF InStep, Carries
  <2> QED BY <1>6, <2>1, <2>2, <2>4, <2>5 DEF Alive
<1> QED BY <1>2, <1>4, <1>5, <1>7, <1>8, <1>9, <1>10, <1>12, <1>13, <1>14, <1>15, <1>16,
           <1>17, <1>19, <1>20, <1>21 DEF Next

-----------------------------------------------------------------------------
(* The inductive invariant of the manager: whose every live child is, and  *)
(* what is on its way between it and a request.                            *)
THEOREM McpInvariant == ASSUME McpConstants PROVE Spec => []McpInv
<1>1. Init => McpInv
  BY McpInit
<1>2. McpInv /\ [Next]_vars => McpInv'
  BY McpStep
<1> QED BY <1>1, <1>2, PTL DEF Spec

(* The manager's state, its servers and their pipes keep their types.      *)
THEOREM McpTypeCorrect == ASSUME McpConstants PROVE Spec => []TypeOK
<1>1. McpInv => TypeOK
  BY DEF McpInv
<1> QED BY <1>1, McpInvariant, PTL

(* Though request ids are compared nowhere, a call gets its own answer and *)
(* a connection its server's tools, unless a request timed out, the server *)
(* said something unasked or a reader dropped what it had read             *)
(* (manager.rs: send_request).                                             *)
THEOREM LinesAreAnswers ==
    ASSUME McpConstants PROVE Spec => []AnswersMatch
<1>1. McpInv => AnswersMatch
  BY DEF McpInv, AnswersMatch
<1> QED BY <1>1, McpInvariant, PTL

(* Drop kills every child but those whose connection failed, and nobody    *)
(* else's process, unless /mcp shutdown left ids of reaped children in the *)
(* registry; before that the registry is the set of the connected          *)
(* children, over restarts and failed connections (manager.rs: child_pids, *)
(* restart, Drop for McpManager).                                          *)
THEOREM CleanupReachesItsOwn ==
    ASSUME McpConstants PROVE Spec => []CleanupIsExact
<1>1. ASSUME McpInv PROVE RegistryIsConnections
  <2>1. /\ \A s \in Servers : conns[s] \in Pids \cup {NoPid}
        /\ child_pids \subseteq Pids /\ NoPid \notin Pids
    BY <1>1 DEF McpConstants, McpInv, TypeOK
  <2> QED BY <1>1, <2>1 DEF McpInv, Connections, Registry, Linked, RegistryIsConnections
<1>2. McpInv => CleanupIsExact
  BY <1>1 DEF McpInv, CleanupIsExact
<1> QED BY <1>2, McpInvariant, PTL

-----------------------------------------------------------------------------
(* The theorems about the other parts, for the instances of Services.      *)
RThms == INSTANCE RalphLoop_proof
       WITH pc <- ralphPc, late <- ralphLate, token <- ralphToken, good <- ralphGood,
            outcome <- ralphOutcome, MaxTokens <- RalphTokens, Capacity <- EventCap,
            MaxEvents <- RalphEvents, PerTurn <- RalphPerTurn

HThms == INSTANCE Harness_proof WITH token <- stopped

DThms == INSTANCE Daemon_proof WITH Capacity <- TaskCap, MaxEvents <- MaxTurnEvents

(* The instances of Services and those its theorems are about are the same *)
(* specifications.                                                         *)
LEMMA SameRalphInit == R!Init => RThms!Init
  BY DEF ralphVars, R!Init, RThms!Init

LEMMA SameRalphNext == [R!Next]_ralphVars => [RThms!Next]_(RThms!vars)
  BY DEF ralphVars, R!Next, R!Begin, R!turnVars, R!hist, R!LoopStep, R!LimitReached,
         R!Reached, R!Limits, R!Leave, R!check_limits, R!StartTurn, R!Awaited,
         R!Receive, R!ReceiveCancelled, R!TurnFailed, R!TurnCancelled, R!TurnDone,
         R!VerifyPassed, R!VerifyFailed, R!TurnStep, R!Spend, R!Work, R!Emit,
         R!ReturnCancelled, R!Return, R!TimePasses, R!Running, R!CtrlC, R!Over,
         R!vars, RThms!Next, RThms!Begin, RThms!turnVars, RThms!hist,
         RThms!LoopStep, RThms!LimitReached, RThms!Reached, RThms!Limits,
         RThms!Leave, RThms!check_limits, RThms!StartTurn, RThms!Awaited,
         RThms!Receive, RThms!ReceiveCancelled, RThms!TurnFailed,
         RThms!TurnCancelled, RThms!TurnDone, RThms!VerifyPassed,
         RThms!VerifyFailed, RThms!TurnStep, RThms!Spend, RThms!Work, RThms!Emit,
         RThms!ReturnCancelled, RThms!Return, RThms!TimePasses, RThms!Running,
         RThms!CtrlC, RThms!Over, RThms!vars

LEMMA SameHarnessInit == H!Init => HThms!Init
  BY DEF harnessVars, H!Init, H!NewState, H!NoState, H!NoDoc, HThms!Init, HThms!NewState,
         HThms!NoState, HThms!NoDoc

LEMMA SameHarnessNext == [H!Next]_harnessVars => [HThms!Next]_(HThms!vars)
  BY DEF harnessVars, H!Next, H!Start, H!Begin, H!NoState, H!NoDoc, H!loopVars, H!Resume,
         H!Step, H!PlanCancelled, H!Return, H!docVars, H!histVars, H!Plan,
         H!PlannerTurn, H!BeginTurn, H!Planned, H!Save, H!NewState, H!SprintsDone,
         H!Sprints, H!Finish, H!SprintCancelled, H!OutOfBudget, H!BeginSprint,
         H!AttemptsUsedUp, H!AttemptCancelled, H!BeginAttempt, H!GeneratorNext,
         H!GeneratorGoesOn, H!GeneratorTurn, H!Generated, H!HandOff,
         H!EvaluationCancelled, H!Evaluate, H!EvaluatorTurn, H!Verdicts,
         H!Evaluated, H!Passes, H!Fail, H!Active, H!Hang, H!TurnPlaces, H!CtrlC,
         H!TimePasses, H!CancelCommand, H!Crash, H!NoMoreRuns, H!vars, H!Min,
         HThms!Next, HThms!Start, HThms!Begin, HThms!NoState, HThms!NoDoc,
         HThms!loopVars, HThms!Resume, HThms!Step, HThms!PlanCancelled,
         HThms!Return, HThms!docVars, HThms!histVars, HThms!Plan,
         HThms!PlannerTurn, HThms!BeginTurn, HThms!Planned, HThms!Save,
         HThms!NewState, HThms!SprintsDone, HThms!Sprints, HThms!Finish,
         HThms!SprintCancelled, HThms!OutOfBudget, HThms!BeginSprint,
         HThms!AttemptsUsedUp, HThms!AttemptCancelled, HThms!BeginAttempt,
         HThms!GeneratorNext, HThms!GeneratorGoesOn, HThms!GeneratorTurn,
         HThms!Generated, HThms!HandOff, HThms!EvaluationCancelled, HThms!Evaluate,
         HThms!EvaluatorTurn, HThms!Verdicts, HThms!Evaluated, HThms!Passes,
         HThms!Fail, HThms!Active, HThms!Hang, HThms!TurnPlaces, HThms!CtrlC,
         HThms!TimePasses, HThms!CancelCommand, HThms!Crash, HThms!NoMoreRuns,
         HThms!vars, HThms!Min

LEMMA SameDaemonInit == D!Init => DThms!Init
  BY DEF daemonVars, D!Init, D!Tasks, DThms!Init, DThms!Tasks

LEMMA SameDaemonNext == [D!Next]_daemonVars => [DThms!Next]_(DThms!vars)
  BY DEF daemonVars, D!Next, D!Connect, D!loopVars, D!histVars, D!ReadFrame, D!ReadEof,
         D!connVars, D!Suspend, D!Continue, D!Die, D!Connected, D!Enqueue,
         D!clientVars, D!HandlerStep, D!Answer, D!Last, D!Forward,
         D!DropConnection, D!StreamEnds, D!HasSender, D!Queued, D!EnqueueFails,
         D!SignalFires, D!SignalEnqueues, D!FileChanged, D!DispatchStep, D!Tasks,
         D!StartTurn, D!Take, D!StartsTurn, D!IsPrompt, D!Prompts, D!AnswerStatus,
         D!LeaveLoop, D!IsShutdown, D!EmitEvent, D!InTurn, D!SendEvent, D!Progress,
         D!Approve, D!AutoApproved, D!ConcludeTurn, D!LastEvents, D!EndTurn,
         D!Return, D!ProcessExits, D!Gone, D!Killed, D!Finished, D!vars,
         DThms!Next, DThms!Connect, DThms!loopVars, DThms!histVars,
         DThms!ReadFrame, DThms!ReadEof, DThms!connVars, DThms!Suspend,
         DThms!Continue, DThms!Die, DThms!Connected, DThms!Enqueue,
         DThms!clientVars, DThms!HandlerStep, DThms!Answer, DThms!Last,
         DThms!Forward, DThms!DropConnection, DThms!StreamEnds, DThms!HasSender,
         DThms!Queued, DThms!EnqueueFails, DThms!SignalFires, DThms!SignalEnqueues,
         DThms!FileChanged, DThms!DispatchStep, DThms!Tasks, DThms!StartTurn,
         DThms!Take, DThms!StartsTurn, DThms!IsPrompt, DThms!Prompts,
         DThms!AnswerStatus, DThms!LeaveLoop, DThms!IsShutdown, DThms!EmitEvent,
         DThms!InTurn, DThms!SendEvent, DThms!Progress, DThms!Approve,
         DThms!AutoApproved, DThms!ConcludeTurn, DThms!LastEvents, DThms!EndTurn,
         DThms!Return, DThms!ProcessExits, DThms!Gone, DThms!Killed,
         DThms!Finished, DThms!vars

LEMMA ServicesImplementRalph == ServicesSpec => RThms!Spec
<1>1. ServicesInit => RThms!Init
  BY SameRalphInit DEF ServicesInit
<1>2. [ServicesNext]_servicesVars => [R!Next]_ralphVars
  BY DEF ServicesNext, ManagerStep, DaemonStep, RalphStep, HarnessStep, ClientStep,
         servicesVars, ralphVars
<1> QED BY <1>1, <1>2, SameRalphNext, PTL DEF ServicesSpec, RThms!Spec

LEMMA ServicesImplementHarness == ServicesSpec => HThms!Spec
<1>1. ServicesInit => HThms!Init
  BY SameHarnessInit DEF ServicesInit
<1>2. [ServicesNext]_servicesVars => [H!Next]_harnessVars
  BY DEF ServicesNext, ManagerStep, DaemonStep, RalphStep, HarnessStep, ClientStep,
         servicesVars, harnessVars
<1> QED BY <1>1, <1>2, SameHarnessNext, PTL DEF ServicesSpec, HThms!Spec

LEMMA ServicesImplementDaemon == ServicesSpec => DThms!Spec
<1>1. ServicesInit => DThms!Init
  BY SameDaemonInit DEF ServicesInit
<1>2. [ServicesNext]_servicesVars => [D!Next]_daemonVars
  BY DEF ServicesNext, ManagerStep, DaemonStep, RalphStep, HarnessStep, ClientStep,
         servicesVars, daemonVars
<1> QED BY <1>1, <1>2, SameDaemonNext, PTL DEF ServicesSpec, DThms!Spec

LEMMA PartsConstants ==
    ASSUME ServicesConstants PROVE RThms!RalphConstants /\ HThms!HarnessConstants
  BY DEF ServicesConstants, R!RalphConstants, RThms!RalphConstants,
         H!HarnessConstants, HThms!HarnessConstants

(* The verify-fix loop and the harness overstep no limit by more than what *)
(* one turn costs, and begin one turn at most after Ctrl+C, whatever the   *)
(* other services do (autonomous.rs: check_limits; harness.rs: the head of *)
(* the sprint loop).                                                       *)
THEOREM ServicesAreBounded ==
    ASSUME ServicesConstants PROVE ServicesSpec => []LimitsBound
<1>1. RThms!Spec => []RThms!LimitsBound
  BY PartsConstants, RThms!LoopIsBounded
<1>2. HThms!Spec => [](HThms!BudgetBound /\ HThms!OneLateTurn)
  BY PartsConstants, HThms!HarnessIsBounded
<1>3. RThms!LimitsBound /\ HThms!BudgetBound /\ HThms!OneLateTurn => LimitsBound
  BY DEF LimitsBound, R!LimitsBound, RThms!LimitsBound, H!BudgetBound,
         H!OneLateTurn, H!Max, HThms!BudgetBound, HThms!OneLateTurn, HThms!Max
<1> QED BY <1>1, <1>2, <1>3, ServicesImplementRalph, ServicesImplementHarness, PTL

(* The verify-fix loop reports what happened: no success without a command *)
(* that succeeded after the last turn, no limit that was not reached, no   *)
(* cancellation out of nothing (ralph.rs: run_ralph_loop; main.rs:         *)
(* cmd_run_autonomous).                                                    *)
THEOREM ServicesReportLoops ==
    ASSUME ServicesConstants PROVE ServicesSpec => []OutcomeIsTrue
<1>1. RThms!Spec => []RThms!OutcomeIsTrue
  BY PartsConstants, RThms!LoopReports
<1>2. RThms!OutcomeIsTrue => OutcomeIsTrue
  BY DEF OutcomeIsTrue, R!OutcomeIsTrue, R!Limits, R!Reached, RThms!OutcomeIsTrue,
         RThms!Limits, RThms!Reached
<1> QED BY <1>1, <1>2, ServicesImplementRalph, PTL

(* state.toml tells the truth about the run that wrote it, and every       *)
(* normal end of a run is recorded there (harness.rs: run_harness).        *)
THEOREM ServicesRecordRuns ==
    ASSUME ServicesConstants PROVE ServicesSpec => []StatusIsTrue
<1>1. HThms!Spec => [](HThms!StatusIsTrue /\ HThms!EndIsRecorded)
  BY PartsConstants, HThms!StateFileIsTrue
<1>2. HThms!StatusIsTrue /\ HThms!EndIsRecorded => StatusIsTrue
  BY DEF StatusIsTrue, H!StatusIsTrue, H!EndIsRecorded, H!NoState, H!Min,
         HThms!StatusIsTrue, HThms!EndIsRecorded, HThms!NoState, HThms!Min
<1> QED BY <1>1, <1>2, ServicesImplementHarness, PTL

(* A generator works from the documents of the attempt before its own, and *)
(* from no older ones (harness.rs: handoff.md, eval.md).                   *)
THEOREM ServicesFeedBack ==
    ASSUME ServicesConstants PROVE ServicesSpec => []FeedbackIsCurrent
<1>1. HThms!Spec => []HThms!FeedbackIsCurrent
  BY PartsConstants, HThms!DocumentsAreCurrent
<1>2. HThms!FeedbackIsCurrent => FeedbackIsCurrent
  BY DEF FeedbackIsCurrent, H!FeedbackIsCurrent, H!NoDoc, HThms!FeedbackIsCurrent,
         HThms!NoDoc
<1> QED BY <1>1, <1>2, ServicesImplementHarness, PTL

-----------------------------------------------------------------------------
(* The model client.  The chunks read and not yet received, in the channel *)
(* or about to be sent, are the model's own, in order, before the events   *)
(* that end the stream; what the agent has gathered is a beginning of the  *)
(* answer.                                                                 *)
Pieces == {c.part : c \in {d \in C!Chunks : d.kind \in {"text", "call"}}}
CallNames == {c.name : c \in {d \in C!Chunks : d.kind = "call"}} \cup {NoName}
Calls == [name : CallNames, args : Seq(Pieces)]
Ends == {C!Event("done"), C!Event("error")}

(* The sequence t holds the pieces of r at places, in order.               *)
IsListed(t, r, places) ==
    /\ Len(t) = Cardinality(places)
    /\ \A k \in places : t[C!Rank(k, places)] = r[k].part
    /\ \A j \in 1 .. Cardinality(places) : \E k \in places : C!Rank(k, places) = j

IsLastName(name, r, places) ==
    IF places = {} THEN name = NoName
    ELSE \E k \in places : name = r[k].name /\ \A l \in places : l <= k

(* acc has put together the calls of the first n chunks of r.              *)
IsGathered(acc, r, n) ==
    /\ \A i1 \in 1 .. Len(acc) :
         /\ IsListed(acc[i1].args, r, C!CallPlaces(r, n, i1))
         /\ IsLastName(acc[i1].name, r, C!NamePlaces(r, n, i1))
    /\ \A i1 \in C!Indices(r, n) : i1 <= Len(acc)
    /\ Len(acc) \in C!Indices(r, n) \cup {0}

Received(n) ==
    IsListed(content_buf, said, C!TextPlaces(said, n)) /\ IsGathered(tool_acc, said, n)

ReadSoFar == Len(said) - Len(unread)
Readable == \A k \in 1 .. ReadSoFar : said[k].kind # "bad"
OnItsWay == events \o pending

ClientTypes ==
    /\ phase \in {"idle", "posting", "sleeping", "fallback", "stream", "chat"}
    /\ tries \in 0 .. MaxRetries /\ requests \in 0 .. MaxRequests
    /\ cancel \in BOOLEAN /\ was_cancelled \in BOOLEAN
    /\ cut \in BOOLEAN /\ heard \in BOOLEAN
    /\ reader \in {"off", "reading", "ended"}
    /\ Len(events) <= ChunkCap /\ usage \in Nat
    /\ answer.outcome \in {"none", "error", "cancelled", "complete", "calls"}

ClientSequences ==
    /\ said \in Seq(C!Chunks) /\ unread \in Seq(C!Chunks)
    /\ events \in Seq(C!Chunks \cup Ends) /\ pending \in Seq(C!Chunks \cup Ends)
    /\ content_buf \in Seq(Pieces)
    /\ tool_acc \in Seq(Calls)

Reader ==
    /\ reader = "reading" => phase = "stream"
    /\ phase = "stream" => reader # "off"
    /\ reader = "reading" => events \in Seq(C!Chunks) /\ pending \in Seq(C!Chunks)
    /\ phase \in {"posting", "sleeping", "fallback", "stream"} => answer = C!NoAnswer
    /\ phase \in {"posting", "sleeping", "fallback"} =>
         /\ reader = "off" /\ events = <<>> /\ pending = <<>>
         /\ content_buf = <<>> /\ tool_acc = <<>> /\ ~cut
    /\ phase = "stream" \/ reader = "ended" =>
         /\ Len(unread) <= Len(said)
         /\ \A k \in 1 .. Len(unread) : unread[k] = said[ReadSoFar + k]
    /\ reader = "ended" /\ ~cut => unread = <<>>
    /\ (phase = "stream" \/ reader = "ended") /\ ~cut => Readable

Flow ==
    phase = "stream" /\ Readable =>
      \E n \in 0 .. ReadSoFar :
        /\ Received(n)
        /\ ReadSoFar - n <= Len(OnItsWay)
        /\ \A k \in 1 .. ReadSoFar - n : OnItsWay[k] = said[n + k]
        /\ \A k \in ReadSoFar - n + 1 .. Len(OnItsWay) : OnItsWay[k] \in Ends
        /\ reader = "reading" => Len(OnItsWay) = ReadSoFar - n

Result ==
    answer.outcome \in {"complete", "calls", "cancelled"} =>
      /\ phase \in {"idle", "chat"} /\ reader = "ended"
      /\ answer.text = content_buf /\ answer.calls = C!finish(tool_acc)
      /\ Readable => Received(ReadSoFar)

ClientInv ==
    /\ ClientTypes /\ ClientSequences /\ Reader /\ Flow /\ Result
    /\ C!CancelledIsNotActedOn

LEMMA SameCardinality == ASSUME NEW S PROVE C!Cardinality(S) = Cardinality(S)
  BY DEF C!Cardinality, Cardinality

LEMMA RankIs ==
    ASSUME NEW k, NEW places
    PROVE  C!Rank(k, places) = Cardinality({l \in places : l <= k})
  BY SameCardinality DEF C!Rank

LEMMA PlacesAreFinite ==
    ASSUME NEW n \in Nat, NEW places, places \subseteq 1 .. n
    PROVE  IsFiniteSet(places) /\ Cardinality(places) \in Nat
<1>1. IsFiniteSet(1 .. n)
  BY FS_Interval
<1> QED BY <1>1, FS_Subset, FS_CardinalityType

(* A piece that comes after all others is the last of the list.            *)
LEMMA ListedGrows ==
    ASSUME NEW P, NEW t \in Seq(P), NEW r, NEW n \in Nat, NEW places,
           places \subseteq 1 .. n, IsListed(t, r, places), r[n + 1].part \in P
    PROVE  IsListed(Append(t, r[n + 1].part), r, places \cup {n + 1})
<1> DEFINE grown == places \cup {n + 1}
           u == Append(t, r[n + 1].part)
<1>1. IsFiniteSet(places) /\ Cardinality(places) \in Nat
  BY PlacesAreFinite
<1>2. Cardinality(grown) = Cardinality(places) + 1
  <2>1. n + 1 \notin places
    OBVIOUS
  <2> QED BY <1>1, <2>1, FS_AddElement
<1>3. \A k \in places : C!Rank(k, grown) = C!Rank(k, places)
  <2> SUFFICES ASSUME NEW k \in places PROVE C!Rank(k, grown) = C!Rank(k, places)
    OBVIOUS
  <2>1. {l \in grown : l <= k} = {l \in places : l <= k}
    OBVIOUS
  <2> QED BY <2>1, RankIs
<1>4. C!Rank(n + 1, grown) = Cardinality(grown)
  <2>1. \A l \in grown : l <= n + 1
    OBVIOUS
  <2>2. {l \in grown : l <= n + 1} = grown
    BY <2>1
  <2> QED BY <2>2, RankIs
<1>5. Len(t) = Cardinality(places) /\ Len(u) = Cardinality(places) + 1
      /\ u[Cardinality(places) + 1] = r[n + 1].part
      /\ \A j \in 1 .. Cardinality(places) : u[j] = t[j]
  BY AppendProperties DEF IsListed
<1>6. \A k \in grown : u[C!Rank(k, grown)] = r[k].part
  <2> SUFFICES ASSUME NEW k \in grown PROVE u[C!Rank(k, grown)] = r[k].part
    OBVIOUS
  <2>1. CASE k = n + 1
    BY <2>1, <1>2, <1>4, <1>5
  <2>2. CASE k \in places
    <3>1. C!Rank(k, grown) = C!Rank(k, places) /\ t[C!Rank(k, places)] = r[k].part
      BY <2>2, <1>3 DEF IsListed
    <3>2. C!Rank(k, places) \in 1 .. Cardinality(places)
      <4> DEFINE below == {l \in places : l <= k}
      <4>1. below \subseteq places /\ k \in below /\ IsFiniteSet(below)
        BY <2>2, <1>1, FS_Subset
      <4>2. Cardinality(below) <= Cardinality(places) /\ Cardinality(below) \in Nat
        BY <4>1, <1>1, FS_Subset, FS_CardinalityType
      <4>3. Cardinality(below) # 0
        BY <4>1, FS_EmptySet
      <4> QED BY <4>2, <4>3, <1>1, RankIs
    <3> QED BY <3>1, <3>2, <1>5
  <2> QED BY <2>1, <2>2
<1>7. \A j \in 1 .. Cardinality(grown) : \E k \in grown : C!Rank(k, grown) = j
  <2> SUFFICES ASSUME NEW j \in 1 .. Cardinality(grown)
               PROVE  \E k \in grown : C!Rank(k, grown) = j
    OBVIOUS
  <2>1. CASE j = Cardinality(grown)
    BY <2>1, <1>4
  <2>2. CASE j \in 1 .. Cardinality(places)
    BY <2>2, <1>3 DEF IsListed
  <2>3. j = Cardinality(grown) \/ j \in 1 .. Cardinality(places)
    BY <1>1, <1>2
  <2> QED BY <2>1, <2>2, <2>3
<1> QED BY <1>2, <1>5, <1>6, <1>7 DEF IsListed

(* What is listed is the reference's list.                                 *)
LEMMA ListedIs ==
    ASSUME NEW P, NEW t \in Seq(P), NEW r, NEW places, IsListed(t, r, places)
    PROVE  t = C!Listed(r, places)
<1>1. Len(t) = Cardinality(places) /\ C!Cardinality(places) = Cardinality(places)
  BY SameCardinality DEF IsListed
<1>2. ASSUME NEW j \in 1 .. Cardinality(places)
      PROVE  t[j] = r[CHOOSE k \in places : C!Rank(k, places) = j].part
  BY <1>2 DEF IsListed
<1>3. t = [j \in 1 .. Cardinality(places) |-> t[j]]
  BY <1>1
<1> QED BY <1>1, <1>2, <1>3 DEF C!Listed

LEMMA RanksDiffer ==
    ASSUME NEW n \in Nat, NEW places, places \subseteq 1 .. n,
           NEW k \in places, NEW l \in places, C!Rank(k, places) = C!Rank(l, places)
    PROVE  k = l
<1> DEFINE upto(x) == {m \in places : m <= x}
<1>1. ASSUME NEW a \in places, NEW b \in places, a < b
      PROVE  C!Rank(a, places) # C!Rank(b, places)
  <2>1. IsFiniteSet(upto(b))
    BY PlacesAreFinite, FS_Subset
  <2>2. upto(a) \subseteq upto(b) /\ b \in upto(b) /\ b \notin upto(a)
    <3>1. \A m \in places : m \in Nat
      OBVIOUS
    <3>2. \A m \in places : m <= a => m <= b
      BY <3>1, <1>1
    <3>3. a <= a /\ b <= b /\ ~(b <= a)
      BY <3>1, <1>1
    <3> QED BY <3>2, <3>3
  <2>3. Cardinality(upto(b)) # Cardinality(upto(a))
    BY <2>1, <2>2, FS_Subset
  <2> QED BY <2>3, RankIs
<1>2. k \in Nat /\ l \in Nat
  OBVIOUS
<1> QED BY <1>1, <1>2

(* The pieces of the first n chunks are a beginning of all of them.        *)
LEMMA BeginningIsPrefix ==
    ASSUME NEW P, NEW r, NEW n \in Nat, NEW m \in Nat, n <= m, NEW t \in Seq(P),
           IsListed(t, r, C!TextPlaces(r, n))
    PROVE  C!IsPrefix(t, C!Listed(r, C!TextPlaces(r, m)))
<1> DEFINE some == C!TextPlaces(r, n)
           all == C!TextPlaces(r, m)
           whole == C!Listed(r, all)
<1>1. /\ some \subseteq 1 .. n /\ all \subseteq 1 .. m /\ some \subseteq all
      /\ \A k \in all : k <= n => k \in some
  BY DEF C!TextPlaces
<1>2. Cardinality(some) \in Nat /\ Cardinality(all) \in Nat
      /\ Cardinality(some) <= Cardinality(all)
  BY <1>1, PlacesAreFinite, FS_Subset
<1>3. \A k \in some : C!Rank(k, some) = C!Rank(k, all)
  <2> SUFFICES ASSUME NEW k \in some PROVE C!Rank(k, some) = C!Rank(k, all)
    OBVIOUS
  <2>1. {l \in some : l <= k} = {l \in all : l <= k}
    BY <1>1
  <2> QED BY <2>1, RankIs
<1>4. whole = [j \in 1 .. Cardinality(all) |->
                 r[CHOOSE k \in all : C!Rank(k, all) = j].part]
  BY SameCardinality DEF C!Listed
<1>5. \A j \in 1 .. Cardinality(some) : t[j] = whole[j]
  <2> SUFFICES ASSUME NEW j \in 1 .. Cardinality(some) PROVE t[j] = whole[j]
    OBVIOUS
  <2>1. PICK k \in some : C!Rank(k, some) = j /\ t[j] = r[k].part
    BY DEF IsListed
  <2> DEFINE first == CHOOSE l \in all : C!Rank(l, all) = j
  <2>2. k \in all /\ C!Rank(k, all) = j
    BY <2>1, <1>1, <1>3
  <2>3. first \in all /\ C!Rank(first, all) = j
    BY <2>2
  <2>4. first = k
    <3> HIDE DEF first, all
    <3> QED BY <2>2, <2>3, <1>1, RanksDiffer
  <2>5. j \in 1 .. Cardinality(all)
    BY <1>2
  <2>6. whole[j] = r[first].part
    <3> HIDE DEF all
    <3> QED BY <2>5, <1>4
  <2> QED BY <2>1, <2>4, <2>6
<1>6. Len(t) = Cardinality(some) /\ Len(whole) = Cardinality(all)
  BY <1>2, <1>4 DEF IsListed
<1>7. SubSeq(t, 1, Len(t)) = [j \in 1 .. Len(t) |-> t[j]]
      /\ SubSeq(whole, 1, Len(t)) = [j \in 1 .. Len(t) |-> whole[j]]
  <2> HIDE DEF whole, some, all
  <2>1. Len(t) \in Nat
    BY <1>2, <1>6
  <2> QED BY <2>1
<1> QED BY <1>2, <1>5, <1>6, <1>7 DEF C!IsPrefix

(* One chunk more: the places of its kind are one more, the others remain. *)
LEMMA PlacesGrow ==
    ASSUME NEW r, NEW n \in Nat
    PROVE  /\ C!TextPlaces(r, n + 1) =
                IF r[n + 1].kind = "text" THEN C!TextPlaces(r, n) \cup {n + 1}
                                          ELSE C!TextPlaces(r, n)
           /\ \A k : C!CallPlaces(r, n + 1, k) =
                IF r[n + 1].kind = "call" /\ r[n + 1].index = k
                  THEN C!CallPlaces(r, n, k) \cup {n + 1} ELSE C!CallPlaces(r, n, k)
           /\ C!Indices(r, n + 1) =
                IF r[n + 1].kind = "call" THEN C!Indices(r, n) \cup {r[n + 1].index}
                                          ELSE C!Indices(r, n)
<1>1. 1 .. n + 1 = (1 .. n) \cup {n + 1} /\ n + 1 \notin 1 .. n
  OBVIOUS
<1>2. C!TextPlaces(r, n + 1) =
        IF r[n + 1].kind = "text" THEN C!TextPlaces(r, n) \cup {n + 1}
                                  ELSE C!TextPlaces(r, n)
  BY <1>1 DEF C!TextPlaces
<1>3. ASSUME NEW k
      PROVE  C!CallPlaces(r, n + 1, k) =
               IF r[n + 1].kind = "call" /\ r[n + 1].index = k
                 THEN C!CallPlaces(r, n, k) \cup {n + 1} ELSE C!CallPlaces(r, n, k)
  BY <1>1 DEF C!CallPlaces
<1>4. C!Indices(r, n + 1) =
        IF r[n + 1].kind = "call" THEN C!Indices(r, n) \cup {r[n + 1].index}
                                  ELSE C!Indices(r, n)
  BY <1>1 DEF C!Indices
<1> QED BY <1>2, <1>3, <1>4

LEMMA NamePlacesGrow ==
    ASSUME NEW r, NEW n \in Nat, NEW k
    PROVE  C!NamePlaces(r, n + 1, k) =
             IF r[n + 1].kind = "call" /\ r[n + 1].index = k /\ r[n + 1].name # NoName
               THEN C!NamePlaces(r, n, k) \cup {n + 1} ELSE C!NamePlaces(r, n, k)
  BY PlacesGrow DEF C!NamePlaces

LEMMA PlacesAreWithin ==
    ASSUME NEW r, NEW n \in Nat
    PROVE  /\ C!TextPlaces(r, n) \subseteq 1 .. n
           /\ \A k : C!CallPlaces(r, n, k) \subseteq 1 .. n
           /\ \A k : C!NamePlaces(r, n, k) \subseteq 1 .. n
  BY DEF C!TextPlaces, C!CallPlaces, C!NamePlaces

(* A chunk that is no piece of a call leaves the calls as they are.        *)
LEMMA GatheredStays ==
    ASSUME NEW acc, NEW r, NEW n \in Nat, r[n + 1].kind # "call",
           IsGathered(acc, r, n)
    PROVE  IsGathered(acc, r, n + 1)
<1>1. \A k : /\ C!CallPlaces(r, n + 1, k) = C!CallPlaces(r, n, k)
             /\ C!NamePlaces(r, n + 1, k) = C!NamePlaces(r, n, k)
  BY PlacesGrow, NamePlacesGrow
<1>2. C!Indices(r, n + 1) = C!Indices(r, n)
  BY PlacesGrow
<1> QED BY <1>1, <1>2, Zenon DEF IsGathered

(* push_delta puts a piece where it belongs: ToolCallAccumulator.          *)
IsPiece(d) ==
    d.index \in Nat \ {0} /\ d.name \in CallNames /\ d.part \in Pieces

Before(acc, k) == IF k <= Len(acc) THEN acc[k] ELSE C!Partial
After(acc, d, k) ==
    IF k = d.index
      THEN [name |-> IF d.name = NoName THEN Before(acc, k).name ELSE d.name,
            args |-> Append(Before(acc, k).args, d.part)]
      ELSE Before(acc, k)

LEMMA PushIs ==
    ASSUME NEW acc \in Seq(Calls), NEW d, IsPiece(d)
    PROVE  /\ C!push_delta(acc, d) \in Seq(Calls)
           /\ Len(C!push_delta(acc, d)) =
                IF d.index > Len(acc) THEN d.index ELSE Len(acc)
           /\ \A k \in 1 .. Len(C!push_delta(acc, d)) :
                /\ C!push_delta(acc, d)[k] = After(acc, d, k)
                /\ Before(acc, k) \in Calls
<1> DEFINE size == IF d.index > Len(acc) THEN d.index ELSE Len(acc)
           padded == [k \in 1 .. size |-> IF k <= Len(acc) THEN acc[k] ELSE C!Partial]
           old == padded[d.index]
           new == [name |-> IF d.name = NoName THEN old.name ELSE d.name,
                   args |-> Append(old.args, d.part)]
           out == [padded EXCEPT ![d.index] = new]
<1>1. C!push_delta(acc, d) = out
  BY DEF C!push_delta
<1>2. size \in Nat /\ d.index \in 1 .. size /\ Len(acc) \in Nat /\ Len(acc) <= size
  BY DEF IsPiece
<1>3. C!Partial \in Calls
  BY DEF C!Partial, Calls, CallNames
<1>4. \A k \in 1 .. Len(acc) : acc[k] \in Calls
  OBVIOUS
<1>5. \A k \in 1 .. size : padded[k] \in Calls /\ padded[k] = Before(acc, k)
  BY <1>2, <1>3, <1>4 DEF Before
<1>6. new \in Calls /\ new = After(acc, d, d.index)
  <2>1. old \in Calls /\ old = Before(acc, d.index)
    BY <1>2, <1>5
  <2>2. Append(old.args, d.part) \in Seq(Pieces)
    BY <2>1 DEF Calls, IsPiece
  <2> HIDE DEF old
  <2> QED BY <2>1, <2>2 DEF Calls, IsPiece, After
<1>7. /\ out \in Seq(Calls) /\ Len(out) = size
      /\ \A k \in 1 .. size : out[k] = IF k = d.index THEN new ELSE padded[k]
  <2> HIDE DEF new, size
  <2>1. padded \in [1 .. size -> Calls]
    BY <1>5, <1>2
  <2>2. out \in [1 .. size -> Calls]
    BY <1>6, <2>1
  <2>3. \A k \in 1 .. size : out[k] = IF k = d.index THEN new ELSE padded[k]
    OBVIOUS
  <2>4. out \in Seq(Calls) /\ Len(out) = size
    <3> HIDE DEF out
    <3> QED BY <2>2, <1>2
  <2> QED BY <2>3, <2>4
<1>8. \A k \in 1 .. size : out[k] = After(acc, d, k) /\ Before(acc, k) \in Calls
  <2> HIDE DEF out, new, padded, size
  <2> QED BY <1>5, <1>6, <1>7 DEF After
<1>9. Len(out) = (IF d.index > Len(acc) THEN d.index ELSE Len(acc))
  <2> HIDE DEF out
  <2> QED BY <1>7
<1> HIDE DEF out, size
<1> QED BY <1>1, <1>7, <1>8, <1>9

LEMMA PushGathers ==
    ASSUME NEW acc \in Seq(Calls), NEW r, NEW n \in Nat, NEW d, d = r[n + 1],
           d.kind = "call", IsPiece(d), IsGathered(acc, r, n),
           C!Indices(r, n) \subseteq Nat
    PROVE  IsGathered(C!push_delta(acc, d), r, n + 1)
<1> DEFINE out == C!push_delta(acc, d)
<1>1. /\ out \in Seq(Calls) /\ Len(acc) \in Nat /\ d.index \in Nat \ {0}
      /\ Len(out) = IF d.index > Len(acc) THEN d.index ELSE Len(acc)
      /\ \A k \in 1 .. Len(out) : out[k] = After(acc, d, k) /\ Before(acc, k) \in Calls
  BY PushIs DEF IsPiece
<1> HIDE DEF out
(* Before: the places beyond the list are those of no piece.               *)
<1>2. ASSUME NEW k \in 1 .. Len(out)
      PROVE  /\ IsListed(Before(acc, k).args, r, C!CallPlaces(r, n, k))
             /\ IsLastName(Before(acc, k).name, r, C!NamePlaces(r, n, k))
  <2>1. CASE k <= Len(acc)
    BY <1>1, <2>1 DEF IsGathered, Before
  <2>2. CASE ~(k <= Len(acc))
    <3>1. k \notin C!Indices(r, n)
      BY <2>2 DEF IsGathered
    <3>2. C!CallPlaces(r, n, k) = {} /\ C!NamePlaces(r, n, k) = {}
      BY <3>1 DEF C!Indices, C!CallPlaces, C!NamePlaces
    <3>3. Before(acc, k).name = NoName /\ Before(acc, k).args = <<>>
      BY <2>2 DEF Before, C!Partial
    <3>4. IsListed(<<>>, r, {})
      BY FS_EmptySet DEF IsListed
    <3> QED BY <3>2, <3>3, <3>4 DEF IsLastName
  <2> QED BY <2>1, <2>2
<1>3. ASSUME NEW k \in 1 .. Len(out)
      PROVE  /\ IsListed(out[k].args, r, C!CallPlaces(r, n + 1, k))
             /\ IsLastName(out[k].name, r, C!NamePlaces(r, n + 1, k))
  <2>1. CASE k # d.index
    <3>1. /\ C!CallPlaces(r, n + 1, k) = C!CallPlaces(r, n, k)
          /\ C!NamePlaces(r, n + 1, k) = C!NamePlaces(r, n, k)
      BY <2>1, PlacesGrow, NamePlacesGrow
    <3> QED BY <1>1, <1>2, <2>1, <3>1 DEF After
  <2>2. CASE k = d.index
    <3> DEFINE old == Before(acc, k)
               places == C!CallPlaces(r, n, k)
    <3>1. /\ out[k].args = Append(old.args, d.part)
          /\ out[k].name = IF d.name = NoName THEN old.name ELSE d.name
          /\ old \in Calls
      <4>1. out[k] = After(acc, d, k) /\ old \in Calls
        BY <1>1
      <4>2. After(acc, d, k) =
              [name |-> IF d.name = NoName THEN old.name ELSE d.name,
               args |-> Append(old.args, d.part)]
        BY <2>2, Zenon DEF After
      <4> HIDE DEF old
      <4> QED BY <4>1, <4>2
    <3>2. C!CallPlaces(r, n + 1, k) = places \cup {n + 1}
      BY <2>2, PlacesGrow
    <3>3. IsListed(old.args, r, places) /\ old.args \in Seq(Pieces)
      BY <1>2, <3>1 DEF Calls
    <3>4. IsListed(out[k].args, r, C!CallPlaces(r, n + 1, k))
      <4>1. places \subseteq 1 .. n /\ r[n + 1].part \in Pieces
        BY PlacesAreWithin DEF IsPiece
      <4> HIDE DEF places, old
      <4>2. IsListed(Append(old.args, r[n + 1].part), r, places \cup {n + 1})
        BY <3>3, <4>1, ListedGrows
      <4> QED BY <3>1, <3>2, <4>2
    <3>5. IsLastName(old.name, r, C!NamePlaces(r, n, k))
      BY <1>2
    <3> HIDE DEF old
    <3>6. IsLastName(out[k].name, r, C!NamePlaces(r, n + 1, k))
      <4>1. CASE d.name = NoName
        <5>1. C!NamePlaces(r, n + 1, k) = C!NamePlaces(r, n, k)
          BY <4>1, NamePlacesGrow
        <5> QED BY <4>1, <5>1, <3>1, <3>5
      <4>2. CASE d.name # NoName
        <5>1. C!NamePlaces(r, n + 1, k) = C!NamePlaces(r, n, k) \cup {n + 1}
          BY <2>2, <4>2, NamePlacesGrow
        <5>2. C!NamePlaces(r, n, k) \subseteq 1 .. n
          BY PlacesAreWithin
        <5>3. \A l \in C!NamePlaces(r, n, k) \cup {n + 1} : l <= n + 1
          BY <5>2
        <5>4. out[k].name = r[n + 1].name
          BY <4>2, <3>1
        <5> QED BY <5>1, <5>3, <5>4 DEF IsLastName
      <4> QED BY <4>1, <4>2
    <3> QED BY <3>4, <3>6
  <2> QED BY <2>1, <2>2
<1>4. C!Indices(r, n + 1) = C!Indices(r, n) \cup {d.index}
  BY PlacesGrow
<1>5. (\A k \in C!Indices(r, n + 1) : k <= Len(out))
      /\ Len(out) \in C!Indices(r, n + 1) \cup {0}
  <2>1. /\ \A k \in C!Indices(r, n) : k <= Len(acc)
        /\ Len(acc) \in C!Indices(r, n) \cup {0}
    BY DEF IsGathered
  <2>2. CASE d.index > Len(acc)
    <3>1. \A k \in C!Indices(r, n) : k <= d.index
      BY <2>1, <2>2, <1>1
    <3> QED BY <2>2, <3>1, <1>1, <1>4
  <2>3. CASE ~(d.index > Len(acc))
    BY <2>1, <2>3, <1>1, <1>4
  <2> QED BY <2>2, <2>3
<1> QED BY <1>3, <1>5 DEF IsGathered, out

LEMMA MaxIs ==
    ASSUME NEW places \in SUBSET Nat, NEW m \in places, \A k \in places : k <= m
    PROVE  C!Max(places) = m
<1> DEFINE best == CHOOSE k \in places : \A l \in places : k >= l
<1>1. \A l \in places : m >= l
  OBVIOUS
<1>2. best \in places /\ \A l \in places : best >= l
  BY <1>1
<1>3. best = m
  <2>1. best \in Nat /\ m \in Nat /\ best <= m /\ best >= m
    BY <1>2
  <2> HIDE DEF best
  <2> QED BY <2>1
<1> QED BY <1>3 DEF C!Max

(* What has been gathered from the whole answer are the reference's calls. *)
LEMMA GatheredIs ==
    ASSUME NEW acc \in Seq(Calls), NEW r, Len(r) \in Nat, IsGathered(acc, r, Len(r)),
           C!Indices(r, Len(r)) \subseteq Nat
    PROVE  C!finish(acc) = C!CallsOf(r)
<1> DEFINE last == C!Max(C!Indices(r, Len(r)) \cup {0})
           whole == [k \in 1 .. last |-> C!CallAt(r, k)]
<1>1. last = Len(acc)
  <2> DEFINE places == C!Indices(r, Len(r)) \cup {0}
  <2>1. places \in SUBSET Nat /\ Len(acc) \in places /\ \A k \in places : k <= Len(acc)
    BY DEF IsGathered
  <2> HIDE DEF places
  <2>2. C!Max(places) = Len(acc)
    BY <2>1, MaxIs
  <2> QED BY <2>2 DEF places
<1>2. ASSUME NEW k \in 1 .. Len(acc) PROVE acc[k] = C!CallAt(r, k)
  <2> DEFINE named == C!NamePlaces(r, Len(r), k)
  <2>1. acc[k] \in Calls
    OBVIOUS
  <2>2. acc[k].args = C!Listed(r, C!CallPlaces(r, Len(r), k))
    BY <2>1, ListedIs DEF IsGathered, Calls
  <2>3. acc[k].name = IF named = {} THEN NoName ELSE r[C!Max(named)].name
    <3>1. IsLastName(acc[k].name, r, named)
      BY DEF IsGathered
    <3>2. CASE named = {}
      BY <3>1, <3>2 DEF IsLastName
    <3>3. CASE named # {}
      <4>1. PICK p \in named : acc[k].name = r[p].name /\ \A l \in named : l <= p
        BY <3>1, <3>3 DEF IsLastName
      <4>2. named \in SUBSET Nat
        <5>1. named \subseteq 1 .. Len(r)
          BY PlacesAreWithin
        <5> QED BY <5>1
      <4> HIDE DEF named
      <4>3. C!Max(named) = p
        BY <4>1, <4>2, MaxIs
      <4> QED BY <3>3, <4>1, <4>3
    <3> QED BY <3>2, <3>3
  <2>4. acc[k] = [name |-> acc[k].name, args |-> acc[k].args]
    BY <2>1 DEF Calls
  <2> QED BY <2>2, <2>3, <2>4 DEF C!CallAt
<1>3. acc = whole
  <2>1. acc = [k \in 1 .. Len(acc) |-> acc[k]]
    OBVIOUS
  <2> HIDE DEF last
  <2> QED BY <1>1, <1>2, <2>1
<1>4. C!CallsOf(r) = C!finish(whole)
  BY DEF C!CallsOf
<1> QED BY <1>3, <1>4

LEMMA ChunkIs ==
    ASSUME C!LlmConstants, NEW c \in C!Chunks
    PROVE  /\ c.kind \in {"text", "call", "usage", "bad"}
           /\ c.kind \in {"text", "call"} => c.part \in Pieces
           /\ c.kind = "call" => IsPiece(c)
<1>1. c.kind \in {"text", "call", "usage", "bad"} /\ (c.kind = "call" => c.index \in Nat \ {0})
  BY DEF C!LlmConstants
<1> QED BY <1>1 DEF Pieces, CallNames, IsPiece

LEMMA EndIs ==
    ASSUME NEW e \in Ends
    PROVE  e.kind \in {"done", "error"}
  BY DEF Ends, C!Event

LEMMA KindsHold ==
    ASSUME C!LlmConstants, NEW s \in Seq(C!Chunks \cup Ends), NEW k \in DOMAIN s
    PROVE  s[k].kind \in C!Kinds
<1>1. s[k] \in C!Chunks \cup Ends
  OBVIOUS
<1> QED BY <1>1, ChunkIs, EndIs DEF C!Kinds

LEMMA ClientTypeOK ==
    ASSUME C!LlmConstants, ClientTypes, ClientSequences PROVE C!TypeOK
<1>1. \A s \in {unread, pending, events, said} : \A k \in DOMAIN s : s[k].kind \in C!Kinds
  <2>1. said \in Seq(C!Chunks \cup Ends) /\ unread \in Seq(C!Chunks \cup Ends)
    BY SeqMonotonic DEF ClientSequences
  <2> QED BY <2>1, KindsHold DEF ClientSequences
<1> QED BY <1>1 DEF ClientTypes, C!TypeOK

LEMMA ClientNumbers ==
    ASSUME C!LlmConstants
    PROVE  ChunkCap \in Nat \ {0} /\ MaxRetries \in Nat /\ MaxRequests \in Nat
  BY DEF C!LlmConstants

LEMMA EmptyIsSeq == ASSUME NEW S PROVE <<>> \in Seq(S) /\ Len(<<>>) = 0
  OBVIOUS

LEMMA EmptyFits == ASSUME C!LlmConstants PROVE Len(<<>>) <= ChunkCap
<1>1. Len(<<>>) = 0
  OBVIOUS
<1> QED BY <1>1, ClientNumbers

LEMMA NoAnswerIs == C!NoAnswer.outcome = "none"
  BY DEF C!NoAnswer

LEMMA ClientInit == ASSUME C!LlmConstants PROVE C!Init => ClientInv
<1> SUFFICES ASSUME C!Init PROVE ClientInv
  OBVIOUS
<1>1. ClientTypes
  <2>1. tries \in 0 .. MaxRetries /\ requests \in 0 .. MaxRequests
    BY ClientNumbers DEF C!Init
  <2>2. Len(events) <= ChunkCap
    BY EmptyFits DEF C!Init
  <2>3. answer.outcome = "none"
    BY NoAnswerIs DEF C!Init
  <2> QED BY <2>1, <2>2, <2>3 DEF C!Init, ClientTypes
<1>3. ClientSequences
  BY EmptyIsSeq DEF C!Init, ClientSequences
<1>2. Reader /\ Flow /\ Result /\ C!CancelledIsNotActedOn
  BY DEF C!Init, C!NoAnswer, Reader, Flow, Result, C!CancelledIsNotActedOn
<1> QED BY <1>1, <1>2, <1>3 DEF ClientInv

(* The request and its retries: no answer is there yet.                    *)
LEMMA PostingStep ==
    ASSUME C!LlmConstants, ClientInv,
           \/ C!chat_stream \/ C!PostIsTransient \/ C!SleepEnds \/ C!PostIsRefused
           \/ C!ToolChoiceRefused
    PROVE  ClientInv'
<1>1. /\ ClientTypes /\ ClientSequences /\ Reader /\ Flow /\ Result
      /\ C!CancelledIsNotActedOn
  BY DEF ClientInv
<1>2. CASE C!chat_stream
  <2>1. ClientTypes'
    <3>1. tries' \in 0 .. MaxRetries /\ requests' \in 0 .. MaxRequests
      BY <1>1, <1>2, ClientNumbers DEF C!chat_stream, ClientTypes
    <3>2. Len(events') <= ChunkCap
      BY <1>2, EmptyFits DEF C!chat_stream
    <3>3. answer'.outcome = "none"
      BY <1>2, NoAnswerIs DEF C!chat_stream
    <3> QED BY <1>1, <1>2, <3>1, <3>2, <3>3 DEF C!chat_stream, ClientTypes
  <2>3. ClientSequences'
    BY <1>1, <1>2, EmptyIsSeq DEF C!chat_stream, ClientSequences
  <2>2. Reader' /\ Flow' /\ Result' /\ C!CancelledIsNotActedOn'
    BY <1>1, <1>2 DEF C!chat_stream, C!NoAnswer, Reader, Flow, Result,
                      C!CancelledIsNotActedOn
  <2> QED BY <2>1, <2>2, <2>3 DEF ClientInv
<1>3. CASE C!PostIsTransient \/ C!SleepEnds \/ C!PostIsRefused \/ C!ToolChoiceRefused
  <2>1. UNCHANGED <<C!reading, content_buf, tool_acc, usage, said, cut, heard,
                    was_cancelled, cancel, requests>>
    BY <1>3 DEF C!PostIsTransient, C!SleepEnds, C!PostIsRefused, C!ToolChoiceRefused,
                C!Fails, C!reading, C!agent, C!hist
  <2>2. /\ phase \in {"posting", "sleeping", "fallback"}
        /\ \/ phase' \in {"posting", "sleeping", "fallback"} /\ answer' = answer
           \/ phase' = "idle" /\ answer'.outcome = "error"
        /\ tries' \in 0 .. MaxRetries
    BY <1>1, <1>3 DEF C!PostIsTransient, C!SleepEnds, C!PostIsRefused,
                C!ToolChoiceRefused, C!Fails, C!agent, ClientTypes, C!LlmConstants, C!NoAnswer
  <2>3. ClientTypes' /\ ClientSequences'
    BY <1>1, <2>1, <2>2 DEF C!reading, ClientTypes, ClientSequences
  <2>4. Reader' /\ Flow' /\ Result' /\ C!CancelledIsNotActedOn'
    BY <1>1, <2>1, <2>2 DEF C!reading, Reader, Flow, Result, C!CancelledIsNotActedOn
  <2> QED BY <2>3, <2>4 DEF ClientInv
<1> QED BY <1>2, <1>3

LEMMA HeadAndTail ==
    ASSUME NEW M, NEW s \in Seq(M), s # <<>>
    PROVE  s = <<Head(s)>> \o Tail(s)
<1> DEFINE u == <<Head(s)>> \o Tail(s)
<1>1. Head(s) \in M /\ Tail(s) \in Seq(M) /\ Len(Tail(s)) = Len(s) - 1
      /\ Len(s) \in Nat \ {0} /\ Head(s) = s[1]
      /\ \A k \in 1 .. Len(Tail(s)) : Tail(s)[k] = s[k + 1]
  BY HeadTailProperties, EmptySeq
<1>2. <<Head(s)>> \in Seq(M) /\ Len(<<Head(s)>>) = 1 /\ <<Head(s)>>[1] = Head(s)
  BY <1>1
<1>3. /\ u \in Seq(M) /\ Len(u) = Len(s)
      /\ \A k \in 1 .. Len(s) : u[k] = IF k <= 1 THEN <<Head(s)>>[k] ELSE Tail(s)[k - 1]
  BY <1>1, <1>2, ConcatProperties
<1>4. \A k \in 1 .. Len(s) : u[k] = s[k]
  <2> SUFFICES ASSUME NEW k \in 1 .. Len(s) PROVE u[k] = s[k]
    OBVIOUS
  <2> HIDE DEF u
  <2>1. CASE k = 1
    BY <2>1, <1>1, <1>2, <1>3
  <2>2. CASE k # 1
    <3>1. k - 1 \in 1 .. Len(Tail(s)) /\ (k - 1) + 1 = k
      BY <2>2, <1>1
    <3>2. Tail(s)[k - 1] = s[(k - 1) + 1]
      BY <1>1, <3>1
    <3> QED BY <2>2, <1>3, <3>1, <3>2
  <2> QED BY <2>1, <2>2
<1> HIDE DEF u
<1>5. s = u
  BY <1>3, <1>4, SeqEqual
<1> QED BY <1>5 DEF u

(* Before a chunk is received nothing has been gathered.                   *)
LEMMA NothingReceived ==
    ASSUME NEW r
    PROVE  IsListed(<<>>, r, C!TextPlaces(r, 0)) /\ IsGathered(<<>>, r, 0)
<1>1. /\ C!TextPlaces(r, 0) = {} /\ C!Indices(r, 0) = {}
  BY DEF C!TextPlaces, C!Indices
<1>2. Len(<<>>) = 0 /\ Cardinality({}) = 0
  BY FS_EmptySet
<1>3. IsListed(<<>>, r, {})
  BY <1>2 DEF IsListed
<1>4. IsGathered(<<>>, r, 0)
  <2>1. \A k \in 1 .. Len(<<>>) : FALSE
    BY <1>2
  <2> QED BY <1>1, <1>2, <2>1 DEF IsGathered
<1> QED BY <1>1, <1>3, <1>4

LEMMA AnswerBegins ==
    ASSUME C!LlmConstants, ClientInv, NEW r \in Replies, C!PostSucceeds(r)
    PROVE  ClientInv'
<1>1. /\ ClientTypes /\ ClientSequences /\ Reader /\ Flow /\ Result
      /\ C!CancelledIsNotActedOn
  BY DEF ClientInv
<1>2. r \in Seq(C!Chunks)
  BY DEF C!LlmConstants
<1>3. UNCHANGED <<tries, cancel, requests, pending, events, content_buf, tool_acc,
                  was_cancelled, usage, answer, cut, heard>>
      /\ said' = r /\ unread' = r /\ phase' = "stream" /\ reader' = "reading"
      /\ phase \in {"posting", "fallback"}
  BY DEF C!PostSucceeds, C!agent
<1>4. ClientTypes' /\ ClientSequences'
  BY <1>1, <1>2, <1>3 DEF ClientTypes, ClientSequences
<1>5. ReadSoFar' = 0 /\ Len(r) \in Nat
  BY <1>2, <1>3 DEF ReadSoFar
<1>6. Reader'
  <2>1. events' = <<>> /\ pending' = <<>>
    BY <1>1, <1>3 DEF Reader
  <2> QED BY <1>1, <1>3, <1>5, <2>1, EmptyIsSeq DEF Reader, Readable
<1>7. Flow'
  <2>1. content_buf' = <<>> /\ tool_acc' = <<>> /\ events' = <<>> /\ pending' = <<>>
    BY <1>1, <1>3 DEF Reader
  <2>2. Received(0)'
    BY <2>1, <1>3, NothingReceived DEF Received
  <2>3. Len(OnItsWay') = 0
    BY <2>1 DEF OnItsWay
  <2> QED BY <1>5, <2>2, <2>3 DEF Flow
<1>8. Result' /\ C!CancelledIsNotActedOn'
  BY <1>1, <1>3, NoAnswerIs DEF Reader, Result, C!CancelledIsNotActedOn
<1> QED BY <1>4, <1>6, <1>7, <1>8 DEF ClientInv

(* Steps that leave the answer and what has been gathered of it alone.     *)
LEMMA AsideStep ==
    ASSUME C!LlmConstants, ClientInv, C!Cancel \/ C!chat \/ C!ChatReturns \/ C!Over
    PROVE  ClientInv'
<1>1. /\ ClientTypes /\ ClientSequences /\ Reader /\ Flow /\ Result
      /\ C!CancelledIsNotActedOn
  BY DEF ClientInv
<1>2. /\ UNCHANGED <<unread, reader, pending, events, content_buf, tool_acc,
                     was_cancelled, answer, said, cut, heard, tries>>
      /\ cancel' \in BOOLEAN /\ usage' \in Nat /\ requests' \in 0 .. MaxRequests
      /\ phase' = phase \/ {phase, phase'} \subseteq {"idle", "chat"}
  <2>1. CASE C!Cancel
    BY <1>1, <2>1 DEF C!Cancel, C!reading, C!agent, C!hist, ClientTypes
  <2>2. CASE C!chat
    <3>1. requests' \in 0 .. MaxRequests
      BY <1>1, <2>2, ClientNumbers DEF C!chat, ClientTypes
    <3> QED BY <1>1, <2>2, <3>1 DEF C!chat, C!reading, C!agent, C!hist, ClientTypes
  <2>3. CASE C!ChatReturns
    BY <1>1, <2>3 DEF C!ChatReturns, C!reading, C!hist, ClientTypes
  <2>4. CASE C!Over
    BY <1>1, <2>4 DEF C!Over, C!vars, C!reading, C!agent, C!hist, ClientTypes
  <2> QED BY <2>1, <2>2, <2>3, <2>4
<1>3. ClientTypes' /\ ClientSequences'
  BY <1>1, <1>2 DEF ClientTypes, ClientSequences
<1>4. Reader'
  BY <1>1, <1>2 DEF Reader, Readable, ReadSoFar
<1>5. Flow' /\ Result' /\ C!CancelledIsNotActedOn'
  BY <1>1, <1>2 DEF Flow, Result, Received, Readable, ReadSoFar, OnItsWay,
                    C!CancelledIsNotActedOn
<1> QED BY <1>3, <1>4, <1>5 DEF ClientInv

(* The reading task sends an event: it is on its way as before.            *)
LEMMA SendStep ==
    ASSUME C!LlmConstants, ClientInv, C!SendEvent
    PROVE  ClientInv'
<1> DEFINE M == C!Chunks \cup Ends
<1>1. /\ ClientTypes /\ ClientSequences /\ Reader /\ Flow /\ Result
      /\ C!CancelledIsNotActedOn
  BY DEF ClientInv
<1>2. /\ UNCHANGED <<phase, tries, cancel, requests, unread, reader, content_buf,
                     tool_acc, was_cancelled, usage, answer, said, cut, heard>>
      /\ pending # <<>> /\ pending' = Tail(pending)
      /\ phase = "stream" => Len(events) < ChunkCap
                             /\ events' = Append(events, Head(pending))
      /\ phase # "stream" => events' = events
  BY DEF C!SendEvent, C!agent, C!hist
<1>3. /\ events \in Seq(M) /\ pending \in Seq(M)
      /\ Head(pending) \in M /\ Tail(pending) \in Seq(M)
  BY <1>1, <1>2, HeadTailProperties DEF ClientSequences
<1>4. events' \in Seq(M) /\ Len(events') <= ChunkCap
  <2>1. CASE phase = "stream"
    <3>1. Append(events, Head(pending)) \in Seq(M)
          /\ Len(Append(events, Head(pending))) = Len(events) + 1
      BY <1>3, AppendProperties
    <3> QED BY <2>1, <3>1, <1>2, <1>3, ClientNumbers
  <2>2. CASE phase # "stream"
    BY <2>2, <1>1, <1>2, <1>3 DEF ClientTypes
  <2> QED BY <2>1, <2>2
<1>5. ClientTypes' /\ ClientSequences'
  BY <1>1, <1>2, <1>3, <1>4 DEF ClientTypes, ClientSequences
<1>6. Reader'
  <2>1. ASSUME reader = "reading"
        PROVE  events' \in Seq(C!Chunks) /\ pending' \in Seq(C!Chunks)
    <3>1. events \in Seq(C!Chunks) /\ pending \in Seq(C!Chunks) /\ phase = "stream"
      BY <1>1, <2>1 DEF Reader
    <3>2. Head(pending) \in C!Chunks /\ Tail(pending) \in Seq(C!Chunks)
      BY <1>2, <3>1, HeadTailProperties
    <3>3. Append(events, Head(pending)) \in Seq(C!Chunks)
      BY <3>1, <3>2, AppendProperties
    <3> QED BY <1>2, <3>1, <3>2, <3>3
  <2>2. Readable' <=> Readable
    BY <1>2 DEF Readable, ReadSoFar
  <2> QED BY <1>1, <1>2, <2>1, <2>2 DEF Reader, ReadSoFar
<1>7. phase = "stream" => OnItsWay' = OnItsWay
  <2> SUFFICES ASSUME phase = "stream" PROVE OnItsWay' = OnItsWay
    OBVIOUS
  <2>1. pending = <<Head(pending)>> \o Tail(pending)
    BY <1>2, <1>3, HeadAndTail
  <2>2. events' = events \o <<Head(pending)>>
    BY <1>2, <1>3, AppendIsConcat
  <2>3. <<Head(pending)>> \in Seq(M)
    BY <1>3
  <2>4. (events \o <<Head(pending)>>) \o Tail(pending)
          = events \o (<<Head(pending)>> \o Tail(pending))
    BY <1>3, <2>3, ConcatAssociative
  <2> QED BY <1>2, <2>1, <2>2, <2>4 DEF OnItsWay
<1>8. Flow'
  BY <1>1, <1>2, <1>7 DEF Flow, Received, Readable, ReadSoFar
<1>9. Result' /\ C!CancelledIsNotActedOn'
  BY <1>1, <1>2 DEF Result, Received, Readable, ReadSoFar, C!CancelledIsNotActedOn
<1> QED BY <1>5, <1>6, <1>8, <1>9 DEF ClientInv

(* A line is read: its chunk is on its way, unless it cannot be parsed.    *)
LEMMA ReadStep ==
    ASSUME C!LlmConstants, ClientInv, C!ReadChunk
    PROVE  ClientInv'
<1> DEFINE c == Head(unread)
           m == ReadSoFar
<1>1. /\ ClientTypes /\ ClientSequences /\ Reader /\ Flow /\ Result
      /\ C!CancelledIsNotActedOn
  BY DEF ClientInv
<1>2. /\ UNCHANGED <<phase, tries, cancel, requests, reader, events, content_buf,
                     tool_acc, was_cancelled, usage, answer, said, heard>>
      /\ reader = "reading" /\ pending = <<>> /\ unread # <<>>
      /\ pending' = (IF c.kind = "bad" THEN <<>> ELSE <<c>>)
      /\ unread' = Tail(unread)
      /\ cut' = (cut \/ c.kind = "bad")
  BY DEF C!ReadChunk, C!EventsOf, C!agent
<1>3. phase = "stream" /\ events \in Seq(C!Chunks)
  BY <1>1, <1>2 DEF Reader
<1>4. /\ c \in C!Chunks /\ c = unread[1] /\ unread' \in Seq(C!Chunks)
      /\ Len(unread') = Len(unread) - 1 /\ Len(unread) \in Nat \ {0}
      /\ \A k \in 1 .. Len(unread') : unread'[k] = unread[k + 1]
  BY <1>1, <1>2, HeadTailProperties, EmptySeq DEF ClientSequences
<1>5. /\ Len(said) \in Nat /\ Len(unread) <= Len(said)
      /\ m \in Nat /\ m = Len(said) - Len(unread) /\ ReadSoFar' = m + 1
      /\ \A k \in 1 .. Len(unread) : unread[k] = said[m + k]
  <2>1. /\ Len(said) \in Nat /\ Len(unread) <= Len(said)
        /\ \A k \in 1 .. Len(unread) : unread[k] = said[m + k]
    BY <1>1, <1>3 DEF Reader, ClientSequences
  <2> QED BY <1>2, <1>4, <2>1 DEF ReadSoFar
<1>6. said[m + 1] = c
  BY <1>4, <1>5
<1> HIDE DEF c, m
<1>7. pending' \in Seq(C!Chunks) /\ pending' \in Seq(C!Chunks \cup Ends)
  <2>1. CASE c.kind = "bad"
    BY <2>1, <1>2, EmptyIsSeq
  <2>2. CASE c.kind # "bad"
    <3>1. pending' = <<c>>
      BY <2>2, <1>2
    <3>2. <<c>> \in Seq(C!Chunks)
      BY <1>4
    <3> QED BY <3>1, <3>2, SeqMonotonic
  <2> QED BY <2>1, <2>2
<1>8. ClientTypes' /\ ClientSequences'
  BY <1>1, <1>2, <1>4, <1>7 DEF ClientTypes, ClientSequences
<1>9. Readable' <=> Readable /\ c.kind # "bad"
  <2>1. Readable' <=> \A k \in 1 .. m + 1 : said[k].kind # "bad"
    BY <1>2, <1>5 DEF Readable
  <2>2. Readable <=> \A k \in 1 .. m : said[k].kind # "bad"
    BY DEF Readable, m
  <2>3. 1 .. m + 1 = (1 .. m) \cup {m + 1}
    BY <1>5
  <2> QED BY <1>6, <2>1, <2>2, <2>3
<1>10. Reader'
  <2>1. \A k \in 1 .. Len(unread') : unread'[k] = said'[ReadSoFar' + k]
    <3> SUFFICES ASSUME NEW k \in 1 .. Len(unread')
                 PROVE  unread'[k] = said[(m + 1) + k]
      BY <1>2, <1>5
    <3>1. k + 1 \in 1 .. Len(unread) /\ (m + 1) + k = m + (k + 1)
      <4>1. Len(unread') = Len(unread) - 1 /\ Len(unread) \in Nat /\ m \in Nat
        BY <1>4, <1>5
      <4> QED BY <4>1
    <3>2. unread'[k] = unread[k + 1] /\ unread[k + 1] = said[m + (k + 1)]
      BY <1>4, <1>5, <3>1
    <3> QED BY <3>1, <3>2
  <2>2. Len(unread') <= Len(said')
    BY <1>2, <1>4, <1>5
  <2>3. ~cut' => Readable'
    BY <1>1, <1>2, <1>3, <1>9 DEF Reader
  <2>4. phase' = "stream" /\ reader' = "reading" /\ events' = events
    BY <1>2, <1>3
  <2>5. answer' = C!NoAnswer
    BY <1>1, <1>2, <1>3 DEF Reader
  <2> QED BY <1>3, <1>7, <2>1, <2>2, <2>3, <2>4, <2>5 DEF Reader
<1>11. Flow'
  <2> SUFFICES ASSUME Readable', Readable, c.kind # "bad"
               PROVE  \E n \in 0 .. m + 1 :
                        /\ Received(n)'
                        /\ m + 1 - n <= Len(OnItsWay')
                        /\ \A k \in 1 .. m + 1 - n : OnItsWay'[k] = said[n + k]
                        /\ \A k \in m + 1 - n + 1 .. Len(OnItsWay') : OnItsWay'[k] \in Ends
                        /\ reader = "reading" => Len(OnItsWay') = m + 1 - n
    BY <1>2, <1>5, <1>9 DEF Flow
  <2>1. PICK n \in 0 .. m :
          /\ Received(n)
          /\ \A k \in 1 .. m - n : OnItsWay[k] = said[n + k]
          /\ Len(OnItsWay) = m - n
    BY <1>1, <1>2, <1>3 DEF Flow, m
  <2>2. OnItsWay = events /\ OnItsWay' = Append(events, c)
    BY <1>2, <1>3, <1>4, ConcatEmptySeq, AppendIsConcat DEF OnItsWay
  <2>3. /\ Len(OnItsWay') = m - n + 1 /\ OnItsWay'[m - n + 1] = c
        /\ \A k \in 1 .. m - n : OnItsWay'[k] = OnItsWay[k]
    BY <1>3, <1>4, <2>1, <2>2, AppendProperties
  <2>4. Received(n)'
    BY <1>2, <2>1 DEF Received
  <2>5. ASSUME NEW k \in 1 .. m + 1 - n PROVE OnItsWay'[k] = said[n + k]
    <3>1. CASE k \in 1 .. m - n
      BY <2>1, <2>3, <3>1
    <3>2. CASE k = m - n + 1
      <4>1. n + k = m + 1
        BY <1>5, <3>2
      <4> QED BY <1>6, <2>3, <3>2, <4>1
    <3> QED BY <1>5, <3>1, <3>2
  <2>6. n \in 0 .. m + 1 /\ Len(OnItsWay') = m + 1 - n
    BY <1>5, <2>3
  <2>7. m + 1 - n <= Len(OnItsWay')
        /\ \A k \in m + 1 - n + 1 .. Len(OnItsWay') : OnItsWay'[k] \in Ends
    BY <1>5, <2>6
  <2> QED BY <2>4, <2>5, <2>6, <2>7
<1>12. Result' /\ C!CancelledIsNotActedOn'
  BY <1>1, <1>2, <1>3 DEF Result, C!CancelledIsNotActedOn
<1> QED BY <1>8, <1>10, <1>11, <1>12 DEF ClientInv

(* The reading task ends, and with it the stream.                          *)
LEMMA EndStep ==
    ASSUME C!LlmConstants, ClientInv,
           C!ReadEnd \/ C!BodyCloses \/ C!BodyBreaks \/ C!ReaderCancelled
    PROVE  ClientInv'
<1> DEFINE M == C!Chunks \cup Ends
           done == C!Event("done")
           fail == C!Event("error")
<1>1. /\ ClientTypes /\ ClientSequences /\ Reader /\ Flow /\ Result
      /\ C!CancelledIsNotActedOn
  BY DEF ClientInv
<1>2. /\ UNCHANGED <<phase, tries, cancel, requests, unread, events, content_buf,
                     tool_acc, was_cancelled, usage, answer, said, heard>>
      /\ reader = "reading" /\ pending = <<>> /\ reader' = "ended"
      /\ pending' = <<done>> \/ pending' = <<fail, done>>
      /\ cut' \in BOOLEAN /\ (~cut' => ~cut /\ unread = <<>>)
  BY <1>1 DEF C!ReadEnd, C!BodyCloses, C!BodyBreaks, C!ReaderCancelled, C!EndWith,
              C!agent, ClientTypes
<1>3. phase = "stream" /\ events \in Seq(M)
  BY <1>1, <1>2 DEF Reader, ClientSequences
<1>4. /\ pending' \in Seq(M) /\ Len(pending') \in Nat
      /\ \A k \in 1 .. Len(pending') : pending'[k] \in Ends
  <2>1. done \in Ends /\ fail \in Ends
    BY DEF Ends
  <2> HIDE DEF done, fail
  <2>2. CASE pending' = <<done>>
    BY <2>1, <2>2
  <2>3. CASE pending' = <<fail, done>>
    <3>1. /\ <<fail, done>> \in Seq(M) /\ Len(<<fail, done>>) = 2
          /\ <<fail, done>>[1] = fail /\ <<fail, done>>[2] = done
      BY <2>1
    <3>2. \A k \in 1 .. 2 : k = 1 \/ k = 2
      OBVIOUS
    <3> QED BY <2>1, <2>3, <3>1, <3>2
  <2> QED BY <1>2, <2>2, <2>3
<1>5. ClientTypes' /\ ClientSequences'
  BY <1>1, <1>2, <1>4 DEF ClientTypes, ClientSequences
<1>6. UNCHANGED <<ReadSoFar, Readable>>
  BY <1>2 DEF ReadSoFar, Readable
<1>7. Reader'
  BY <1>1, <1>2, <1>3, <1>6 DEF Reader
<1>8. Flow'
  <2> SUFFICES ASSUME Readable
               PROVE  \E n \in 0 .. ReadSoFar :
                        /\ Received(n)'
                        /\ ReadSoFar - n <= Len(OnItsWay')
                        /\ \A k \in 1 .. ReadSoFar - n : OnItsWay'[k] = said[n + k]
                        /\ \A k \in ReadSoFar - n + 1 .. Len(OnItsWay') :
                             OnItsWay'[k] \in Ends
    BY <1>2, <1>6 DEF Flow
  <2>1. PICK n \in 0 .. ReadSoFar :
          /\ Received(n)
          /\ \A k \in 1 .. ReadSoFar - n : OnItsWay[k] = said[n + k]
          /\ Len(OnItsWay) = ReadSoFar - n
    BY <1>1, <1>2, <1>3 DEF Flow
  <2>2. OnItsWay = events /\ OnItsWay' = events \o pending'
    BY <1>2, <1>3, ConcatEmptySeq DEF OnItsWay
  <2>3. ReadSoFar \in Int /\ Len(events) = ReadSoFar - n
    BY <1>1, <2>1, <2>2 DEF ReadSoFar, ClientSequences
  <2>4. /\ Len(OnItsWay') = Len(events) + Len(pending')
        /\ \A k \in 1 .. Len(events) + Len(pending') :
             OnItsWay'[k] = IF k <= Len(events) THEN events[k]
                                                ELSE pending'[k - Len(events)]
    BY <1>3, <1>4, <2>2, ConcatProperties
  <2>5. Received(n)'
    BY <1>2, <2>1 DEF Received
  <2>6. \A k \in 1 .. ReadSoFar - n : OnItsWay'[k] = said[n + k]
    BY <1>4, <2>1, <2>2, <2>3, <2>4
  <2>7. ASSUME NEW k \in ReadSoFar - n + 1 .. Len(OnItsWay') PROVE OnItsWay'[k] \in Ends
    <3>1. k - Len(events) \in 1 .. Len(pending') /\ ~(k <= Len(events))
          /\ k \in 1 .. Len(events) + Len(pending')
      BY <1>4, <2>1, <2>3, <2>4
    <3> QED BY <1>4, <2>4, <3>1
  <2>8. ReadSoFar - n <= Len(OnItsWay')
    BY <1>4, <2>3, <2>4
  <2> QED BY <2>5, <2>6, <2>7, <2>8
<1>9. Result' /\ C!CancelledIsNotActedOn'
  BY <1>1, <1>2, <1>3 DEF Result, C!CancelledIsNotActedOn
<1> QED BY <1>5, <1>7, <1>8, <1>9 DEF ClientInv

(* The agent receives a chunk and puts it where it belongs.                *)
LEMMA ReceiveStep ==
    ASSUME C!LlmConstants, ClientInv, C!Receive
    PROVE  ClientInv'
<1> DEFINE M == C!Chunks \cup Ends
           d == Head(events)
           m == ReadSoFar
<1>1. /\ ClientTypes /\ ClientSequences /\ Reader /\ Flow /\ Result
      /\ C!CancelledIsNotActedOn
  BY DEF ClientInv
<1>2. /\ UNCHANGED <<phase, tries, cancel, requests, unread, reader, pending,
                     was_cancelled, answer, said, cut, heard>>
      /\ phase = "stream" /\ events # <<>> /\ d.kind \in {"text", "call", "usage"}
      /\ events' = Tail(events)
      /\ d.kind = "text" => /\ content_buf' = Append(content_buf, d.part)
                            /\ UNCHANGED <<tool_acc, usage>>
      /\ d.kind = "call" => /\ tool_acc' = C!push_delta(tool_acc, d)
                            /\ UNCHANGED <<content_buf, usage>>
      /\ d.kind = "usage" => usage' = usage + 1 /\ UNCHANGED <<content_buf, tool_acc>>
  BY DEF C!Receive, C!hist
<1>3. /\ events \in Seq(M) /\ pending \in Seq(M) /\ d \in M /\ d = events[1]
      /\ events' \in Seq(M) /\ Len(events') = Len(events) - 1
      /\ Len(events) \in Nat \ {0} /\ Len(pending) \in Nat
      /\ \A k \in 1 .. Len(events') : events'[k] = events[k + 1]
  BY <1>1, <1>2, HeadTailProperties, EmptySeq DEF ClientSequences
<1>4. d \in C!Chunks
  BY <1>2, <1>3, EndIs
<1> HIDE DEF d
<1>5. /\ content_buf' \in Seq(Pieces) /\ tool_acc' \in Seq(Calls) /\ usage' \in Nat
  <2>1. CASE d.kind = "text"
    <3>1. d.part \in Pieces
      BY <2>1, <1>4, ChunkIs
    <3>2. content_buf' \in Seq(Pieces)
      BY <2>1, <1>1, <1>2, <3>1, AppendProperties DEF ClientSequences
    <3> QED BY <2>1, <1>1, <1>2, <3>2 DEF ClientTypes, ClientSequences
  <2>2. CASE d.kind = "call"
    BY <2>2, <1>1, <1>2, <1>4, ChunkIs, PushIs DEF ClientTypes, ClientSequences
  <2>3. CASE d.kind = "usage"
    BY <2>3, <1>1, <1>2 DEF ClientTypes, ClientSequences
  <2> QED BY <1>2, <2>1, <2>2, <2>3
<1>6. ClientTypes' /\ ClientSequences'
  <2>1. Len(events') <= ChunkCap
    BY <1>1, <1>3, ClientNumbers DEF ClientTypes
  <2> QED BY <1>1, <1>2, <1>3, <1>5, <2>1 DEF ClientTypes, ClientSequences
<1>7. UNCHANGED <<ReadSoFar, Readable>>
  BY <1>2 DEF ReadSoFar, Readable
<1>8. Reader'
  <2>1. ASSUME reader = "reading" PROVE events' \in Seq(C!Chunks)
    <3>1. events \in Seq(C!Chunks)
      BY <1>1, <2>1 DEF Reader
    <3> QED BY <1>2, <3>1, HeadTailProperties
  <2> QED BY <1>1, <1>2, <1>7, <2>1 DEF Reader
<1>9. Flow'
  <2> SUFFICES ASSUME Readable
               PROVE  \E n \in 0 .. m :
                        /\ Received(n)'
                        /\ m - n <= Len(OnItsWay')
                        /\ \A k \in 1 .. m - n : OnItsWay'[k] = said[n + k]
                        /\ \A k \in m - n + 1 .. Len(OnItsWay') : OnItsWay'[k] \in Ends
                        /\ reader = "reading" => Len(OnItsWay') = m - n
    BY <1>2, <1>7 DEF Flow
  <2>1. PICK n \in 0 .. m :
          /\ Received(n)
          /\ m - n <= Len(OnItsWay)
          /\ \A k \in 1 .. m - n : OnItsWay[k] = said[n + k]
          /\ \A k \in m - n + 1 .. Len(OnItsWay) : OnItsWay[k] \in Ends
          /\ reader = "reading" => Len(OnItsWay) = m - n
    BY <1>1, <1>2 DEF Flow
  <2>2. /\ Len(OnItsWay) = Len(events) + Len(pending)
        /\ \A k \in 1 .. Len(events) + Len(pending) :
             OnItsWay[k] = IF k <= Len(events) THEN events[k] ELSE pending[k - Len(events)]
    BY <1>3, ConcatProperties DEF OnItsWay
  <2>3. /\ Len(OnItsWay') = Len(events') + Len(pending)
        /\ \A k \in 1 .. Len(events') + Len(pending) :
             OnItsWay'[k] = IF k <= Len(events') THEN events'[k]
                                                 ELSE pending[k - Len(events')]
    BY <1>2, <1>3, ConcatProperties DEF OnItsWay
  <2>4. m \in Int
    BY <1>1 DEF ReadSoFar, ClientSequences
  <2> HIDE DEF m
  <2>5. Len(OnItsWay') = Len(OnItsWay) - 1 /\ Len(OnItsWay) \in Nat \ {0}
    BY <1>3, <2>2, <2>3
  <2>6. ASSUME NEW k \in 1 .. Len(OnItsWay') PROVE OnItsWay'[k] = OnItsWay[k + 1]
    <3>1. k + 1 \in 1 .. Len(events) + Len(pending) /\ k \in 1 .. Len(events') + Len(pending)
      BY <1>3, <2>2, <2>3
    <3>2. CASE k <= Len(events')
      BY <1>3, <2>2, <2>3, <3>1, <3>2
    <3>3. CASE ~(k <= Len(events'))
      <4>1. ~(k + 1 <= Len(events)) /\ (k + 1) - Len(events) = k - Len(events')
        BY <1>3, <3>3
      <4> QED BY <2>2, <2>3, <3>1, <3>3, <4>1
    <3> QED BY <3>2, <3>3
  <2>7. OnItsWay[1] = d
    BY <1>3, <2>2
  <2>8. n + 1 \in 0 .. m /\ m - n >= 1
    <3>1. CASE m - n = 0
      <4>1. 1 \in m - n + 1 .. Len(OnItsWay)
        BY <2>5, <3>1
      <4>2. d \in Ends
        BY <2>1, <2>7, <4>1
      <4> QED BY <1>2, <4>2, EndIs
    <3>2. CASE m - n # 0
      BY <2>1, <2>4, <3>2
    <3> QED BY <3>1, <3>2
  <2>9. said[n + 1] = d
    BY <2>1, <2>7, <2>8
  <2>10. Received(n + 1)'
    <3>1. /\ content_buf \in Seq(Pieces) /\ tool_acc \in Seq(Calls) /\ n \in Nat
          /\ IsListed(content_buf, said, C!TextPlaces(said, n))
          /\ IsGathered(tool_acc, said, n)
      BY <1>1, <2>1, <2>4 DEF ClientSequences, Received
    <3>2. C!TextPlaces(said, n) \subseteq 1 .. n
      BY <3>1, PlacesAreWithin
    <3>3. IsListed(content_buf', said, C!TextPlaces(said, n + 1))
      <4>1. CASE d.kind = "text"
        <5>1. said[n + 1].part \in Pieces /\ content_buf' = Append(content_buf, said[n + 1].part)
          BY <1>2, <1>4, <2>9, <4>1, ChunkIs
        <5>2. C!TextPlaces(said, n + 1) = C!TextPlaces(said, n) \cup {n + 1}
          BY <2>9, <3>1, <4>1, PlacesGrow
        <5> DEFINE places == C!TextPlaces(said, n)
        <5>3. places \subseteq 1 .. n /\ IsListed(content_buf, said, places)
          BY <3>1, <3>2
        <5> HIDE DEF places
        <5>4. IsListed(Append(content_buf, said[n + 1].part), said, places \cup {n + 1})
          BY <3>1, <5>1, <5>3, ListedGrows
        <5> QED BY <5>1, <5>2, <5>4 DEF places
      <4>2. CASE d.kind # "text"
        <5>1. C!TextPlaces(said, n + 1) = C!TextPlaces(said, n) /\ content_buf' = content_buf
          BY <1>2, <2>9, <3>1, <4>2, PlacesGrow
        <5> QED BY <3>1, <5>1
      <4> QED BY <4>1, <4>2
    <3>4. IsGathered(tool_acc', said, n + 1)
      <4>1. CASE d.kind = "call"
        <5>1. IsPiece(d) /\ tool_acc' = C!push_delta(tool_acc, d)
          BY <1>2, <1>4, <4>1, ChunkIs
        <5>2. C!Indices(said, n) \subseteq Nat
          <6>1. \A k \in 1 .. n : said[k] \in C!Chunks
            <7>1. m <= Len(said) /\ Len(said) \in Nat
              BY <1>1 DEF ClientSequences, ReadSoFar, m
            <7> QED BY <1>1, <2>1, <2>4, <7>1 DEF ClientSequences
          <6>2. \A k \in 1 .. n : said[k].kind = "call" => said[k].index \in Nat
            BY <6>1, ChunkIs DEF IsPiece
          <6> QED BY <6>2 DEF C!Indices
        <5> QED BY <2>9, <3>1, <4>1, <5>1, <5>2, PushGathers
      <4>2. CASE d.kind # "call"
        BY <1>2, <2>9, <3>1, <4>2, GatheredStays
      <4> QED BY <4>1, <4>2
    <3> QED BY <1>2, <3>3, <3>4 DEF Received
  <2>11. m - (n + 1) <= Len(OnItsWay')
         /\ (reader = "reading" => Len(OnItsWay') = m - (n + 1))
    BY <2>1, <2>4, <2>5, <2>8
  <2>12. ASSUME NEW k \in 1 .. m - (n + 1) PROVE OnItsWay'[k] = said[(n + 1) + k]
    <3>1. k + 1 \in 1 .. m - n /\ k \in 1 .. Len(OnItsWay') /\ n + (k + 1) = (n + 1) + k
      BY <2>1, <2>4, <2>5, <2>8, <2>11
    <3>2. OnItsWay[k + 1] = said[n + (k + 1)]
      BY <2>1, <3>1
    <3> QED BY <2>6, <3>1, <3>2
  <2>13. ASSUME NEW k \in m - (n + 1) + 1 .. Len(OnItsWay') PROVE OnItsWay'[k] \in Ends
    <3>1. k + 1 \in m - n + 1 .. Len(OnItsWay) /\ k \in 1 .. Len(OnItsWay')
      BY <2>1, <2>4, <2>5, <2>8
    <3> QED BY <2>1, <2>6, <3>1
  <2> QED BY <2>8, <2>10, <2>11, <2>12, <2>13
<1>10. Result' /\ C!CancelledIsNotActedOn'
  BY <1>1, <1>2 DEF Result, C!CancelledIsNotActedOn
<1> QED BY <1>6, <1>8, <1>9, <1>10 DEF ClientInv

(* The agent lets go of the stream: whatever could be read has arrived.    *)
LEMMA StreamEndStep ==
    ASSUME C!LlmConstants, ClientInv, C!StreamEnds
    PROVE  ClientInv'
<1> DEFINE M == C!Chunks \cup Ends
           m == ReadSoFar
<1>1. /\ ClientTypes /\ ClientSequences /\ Reader /\ Flow /\ Result
      /\ C!CancelledIsNotActedOn
  BY DEF ClientInv
<1>2. /\ UNCHANGED <<tries, cancel, requests, unread, reader, pending, content_buf,
                     tool_acc, usage, said, cut>>
      /\ phase = "stream" /\ phase' = "idle" /\ heard' = cancel
      /\ events # <<>> /\ events' = <<>> /\ Head(events).kind \in {"error", "done"}
      /\ was_cancelled' \in BOOLEAN /\ (cancel => was_cancelled')
      /\ answer'.text = content_buf /\ answer'.calls = C!finish(tool_acc)
      /\ was_cancelled' => answer'.outcome = "cancelled"
      /\ answer'.outcome \in {"cancelled", "complete", "calls"}
  BY <1>1 DEF C!StreamEnds, ClientTypes
<1>3. events \in Seq(M) /\ pending \in Seq(M) /\ Head(events) = events[1]
      /\ Len(events) \in Nat \ {0} /\ Len(pending) \in Nat
  BY <1>1, <1>2, EmptySeq DEF ClientSequences
<1>4. reader = "ended"
  <2>1. ASSUME reader = "reading" PROVE FALSE
    <3>1. Head(events) \in C!Chunks
      BY <1>1, <1>2, <2>1, HeadTailProperties DEF Reader
    <3> QED BY <1>2, <3>1, ChunkIs
  <2> QED BY <1>1, <1>2, <2>1 DEF Reader, ClientTypes
<1>5. ClientTypes' /\ ClientSequences'
  BY <1>1, <1>2, EmptyIsSeq, EmptyFits DEF ClientTypes, ClientSequences
<1>6. UNCHANGED <<ReadSoFar, Readable>>
  BY <1>2 DEF ReadSoFar, Readable
<1>7. Reader'
  BY <1>1, <1>2, <1>4, <1>6 DEF Reader
<1>8. Readable => Received(m)
  <2> SUFFICES ASSUME Readable PROVE Received(m)
    OBVIOUS
  <2>1. PICK n \in 0 .. m :
          /\ Received(n)
          /\ m - n <= Len(OnItsWay)
          /\ \A k \in 1 .. m - n : OnItsWay[k] = said[n + k]
    BY <1>1, <1>2 DEF Flow
  <2>2. OnItsWay[1] = Head(events)
    <3>1. \A k \in 1 .. Len(events) + Len(pending) :
            OnItsWay[k] = IF k <= Len(events) THEN events[k] ELSE pending[k - Len(events)]
      BY <1>3, ConcatProperties DEF OnItsWay
    <3> QED BY <1>3, <3>1
  <2>3. m \in Int /\ m <= Len(said) /\ Len(said) \in Nat
    BY <1>1 DEF ReadSoFar, ClientSequences
  <2> HIDE DEF m
  <2>4. CASE m - n = 0
    <3>1. n = m
      BY <2>3, <2>4
    <3> QED BY <2>1, <3>1
  <2>5. CASE m - n # 0
    <3>1. 1 \in 1 .. m - n /\ n + 1 \in 1 .. Len(said)
      BY <2>1, <2>3, <2>5
    <3>2. Head(events) = said[n + 1]
      BY <2>1, <2>2, <3>1
    <3>3. said[n + 1] \in C!Chunks
      BY <1>1, <3>1 DEF ClientSequences
    <3> QED BY <1>2, <3>2, <3>3, ChunkIs
  <2> QED BY <2>4, <2>5
<1>9. Flow' /\ C!CancelledIsNotActedOn'
  BY <1>1, <1>2 DEF Flow, C!CancelledIsNotActedOn, ClientTypes
<1>10. Result'
  <2>1. Readable' => Received(ReadSoFar)'
    BY <1>2, <1>6, <1>8 DEF Received
  <2> QED BY <1>2, <1>4, <2>1 DEF Result
<1> QED BY <1>5, <1>7, <1>9, <1>10 DEF ClientInv

LEMMA ClientStepInv ==
    ASSUME C!LlmConstants PROVE ClientInv /\ [C!Next]_llmVars => ClientInv'
<1> SUFFICES ASSUME ClientInv, [C!Next]_llmVars PROVE ClientInv'
  OBVIOUS
<1>1. CASE UNCHANGED llmVars
  BY <1>1 DEF llmVars, ClientInv, ClientTypes, ClientSequences, Reader, Flow, Result,
              Received, Readable, ReadSoFar, OnItsWay, C!CancelledIsNotActedOn
<1>2. CASE C!Next
  BY <1>2, PostingStep, AnswerBegins, AsideStep, SendStep, ReadStep, EndStep,
     ReceiveStep, StreamEndStep DEF C!Next
<1> QED BY <1>1, <1>2

-----------------------------------------------------------------------------
LEMMA ClientInvariant == ASSUME ServicesConstants PROVE ServicesSpec => []ClientInv
<1>1. C!LlmConstants
  BY DEF ServicesConstants
<1>2. ServicesInit => ClientInv
  BY <1>1, ClientInit DEF ServicesInit
<1>3. [ServicesNext]_servicesVars => [C!Next]_llmVars
  BY DEF ServicesNext, ManagerStep, DaemonStep, RalphStep, HarnessStep, ClientStep,
         servicesVars, llmVars
<1>4. ClientInv /\ [C!Next]_llmVars => ClientInv'
  BY <1>1, ClientStepInv
<1> QED BY <1>2, <1>3, <1>4, PTL DEF ServicesSpec

(* An answer of the model that was read to its end is acted on as a whole, *)
(* its pieces in their order and those of several calls told apart; of one *)
(* that broke off the agent keeps the beginning; and one whose turn was    *)
(* cancelled before the agent was done with the stream is not acted on     *)
(* (client.rs: process_sse_stream; stream.rs: ToolCallAccumulator;         *)
(* agent.rs: the streaming part of turn).                                  *)
THEOREM ServicesPutTogether ==
    ASSUME ServicesConstants PROVE ServicesSpec => []AnswerIsWhole
<1>1. ASSUME ClientInv PROVE AnswerIsWhole
  <2>1. /\ ClientTypes /\ ClientSequences /\ Reader /\ Result
        /\ C!CancelledIsNotActedOn /\ C!LlmConstants
    BY <1>1 DEF ClientInv, ServicesConstants
  <2>2. /\ content_buf \in Seq(Pieces) /\ tool_acc \in Seq(Calls)
        /\ Len(said) \in Nat /\ Len(unread) \in Nat
        /\ \A k \in 1 .. Len(said) : said[k] \in C!Chunks
    BY <2>1 DEF ClientSequences
  <2>3. C!AnswerIsWhole
    <3> SUFFICES ASSUME answer.outcome \in {"calls", "complete"}, ~cut
                 PROVE  answer.text = C!TextOf(said) /\ answer.calls = C!CallsOf(said)
      BY DEF C!AnswerIsWhole
    <3>1. reader = "ended" /\ unread = <<>> /\ Readable
          /\ answer.text = content_buf /\ answer.calls = C!finish(tool_acc)
      BY <2>1 DEF Reader, Result
    <3>2. ReadSoFar = Len(said)
      BY <2>2, <3>1 DEF ReadSoFar
    <3>3. Received(Len(said))
      BY <2>1, <3>1, <3>2 DEF Result
    <3>4. content_buf = C!TextOf(said)
      BY <2>2, <3>3, ListedIs DEF Received, C!TextOf
    <3>5. C!Indices(said, Len(said)) \subseteq Nat
      <4>1. \A k \in 1 .. Len(said) : said[k].kind = "call" => said[k].index \in Nat
        BY <2>1, <2>2, ChunkIs DEF IsPiece
      <4> QED BY <4>1 DEF C!Indices
    <3>6. C!finish(tool_acc) = C!CallsOf(said)
      BY <2>2, <3>3, <3>5, GatheredIs DEF Received
    <3> QED BY <3>1, <3>4, <3>6
  <2>4. C!TextIsPrefix
    <3> SUFFICES ASSUME answer.outcome \in {"calls", "complete", "cancelled"},
                        \A k \in DOMAIN said : said[k].kind # "bad"
                 PROVE  C!IsPrefix(answer.text, C!TextOf(said))
      BY DEF C!TextIsPrefix
    <3>1. reader = "ended" /\ answer.text = content_buf
          /\ (Readable => Received(ReadSoFar))
      BY <2>1 DEF Result
    <3>2. ReadSoFar \in Nat /\ ReadSoFar <= Len(said)
      BY <2>1, <2>2, <3>1 DEF Reader, ReadSoFar
    <3>3. Readable
      BY <2>1, <3>2 DEF Readable, ClientSequences
    <3>4. IsListed(content_buf, said, C!TextPlaces(said, ReadSoFar))
      BY <3>1, <3>3 DEF Received
    <3> HIDE DEF ReadSoFar
    <3>5. C!IsPrefix(content_buf, C!Listed(said, C!TextPlaces(said, Len(said))))
      BY <2>2, <3>2, <3>4, BeginningIsPrefix
    <3> QED BY <3>1, <3>5 DEF C!TextOf
  <2> QED BY <2>1, <2>3, <2>4 DEF AnswerIsWhole
<1> QED BY <1>1, ClientInvariant, PTL

-----------------------------------------------------------------------------
LEMMA ServicesImplementManager == ServicesSpec => Spec
<1>1. ServicesInit => Init
  BY DEF ServicesInit
<1>2. [ServicesNext]_servicesVars => [Next]_vars
  BY DEF ServicesNext, ManagerStep, DaemonStep, RalphStep, HarnessStep, ClientStep,
         servicesVars
<1> QED BY <1>1, <1>2, PTL DEF ServicesSpec, Spec

(* What the proofs about the daemon assume.                                *)
LEMMA DaemonAssumptions ==
    ASSUME ServicesConstants
    PROVE  /\ Requests \subseteq DThms!Prompts \cup {"status", "shutdown"}
           /\ {Watcher, Signal, NoTask} \cap Clients = {}
           /\ {TaskCap, ReplyCap, WireCap} \subseteq Nat \ {0}
           /\ {MaxTurnEvents, MaxChanges} \subseteq Nat
  BY DEF ServicesConstants, DaemonConstants, D!Prompts, DThms!Prompts

LEMMA SameDaemonTypes == DThms!TypeOK => D!TypeOK
  BY DEF DThms!TypeOK, DThms!LoopTypeOK, DThms!Tasks, DThms!LastEvents,
         DThms!ConnTypeOK, DThms!Event, DThms!ClientTypeOK, D!TypeOK, D!LoopTypeOK,
         D!Tasks, D!LastEvents, D!ConnTypeOK, D!Event, D!ClientTypeOK

LEMMA SameRalphTypes == RThms!TypeOK => R!TypeOK
  BY DEF RThms!TypeOK, RThms!Events, RThms!Outcomes, RThms!Limits, R!TypeOK,
         R!Events, R!Outcomes, R!Limits

LEMMA SameHarnessTypes == HThms!TypeOK => H!TypeOK
  BY DEF HThms!TypeOK, HThms!TurnPlaces, HThms!States, HThms!Statuses,
         HThms!NoState, HThms!Docs, HThms!NoDoc, H!TypeOK, H!TurnPlaces, H!States,
         H!Statuses, H!NoState, H!Docs, H!NoDoc

(* The state of every service keeps its type, whichever of them runs.      *)
THEOREM ServicesTypeCorrect ==
    ASSUME ServicesConstants PROVE ServicesSpec => []ServicesTypeOK
<1>1. Spec => []TypeOK
  BY McpTypeCorrect DEF ServicesConstants
<1>2. DThms!Spec => []DThms!TypeOK
  BY DaemonAssumptions, DThms!DaemonTypeCorrect
<1>3. RThms!Spec => []RThms!TypeOK
  BY PartsConstants, RThms!RalphTypeCorrect
<1>4. HThms!Spec => []HThms!TypeOK
  BY PartsConstants, HThms!HarnessTypeCorrect
<1>5. TypeOK /\ DThms!TypeOK /\ RThms!TypeOK /\ HThms!TypeOK /\ ClientInv
        => ServicesTypeOK
  BY SameDaemonTypes, SameRalphTypes, SameHarnessTypes, ClientTypeOK
     DEF ServicesTypeOK, ServicesConstants, ClientInv
<1> QED BY <1>1, <1>2, <1>3, <1>4, <1>5, ServicesImplementManager,
           ServicesImplementDaemon, ServicesImplementRalph, ServicesImplementHarness,
           ClientInvariant, PTL
=============================================================================
