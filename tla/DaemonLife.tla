----------------------------- MODULE DaemonLife -----------------------------
(***************************************************************************)
(* The lives of the daemons of one workspace: how anvil daemon start takes *)
(* the socket and the pid file of the workspace, and what is left of them  *)
(* when a daemon stops or is killed (anvil/src/daemon.rs, main.rs).  What  *)
(* a daemon does while it serves is the subject of Daemon.                 *)
(*                                                                         *)
(* Nothing but the files keeps two daemons apart, and they are looked at   *)
(* and changed in steps: every life is a process, every step an action.    *)
(***************************************************************************)
EXTENDS Naturals

CONSTANT MaxLives   \* bound: daemons that are ever started

LifeConstants == MaxLives \in Nat

VARIABLES
    pc,         \* life -> where it stands
    sock,       \* the life whose socket is at the path, or 0
    pidfile,    \* the life whose pid is in the file, or 0
    listening,  \* lives whose listener is open
    session,    \* life -> status of its session
    overlap     \* history: two lives have handled the files at once

vars == <<pc, sock, pidfile, listening, session, overlap>>

Lives == 1 .. MaxLives

Starting == {"looks", "probes", "removes", "binds", "chmods", "writes"}
Ending == {"unlinks", "unlinksPid"}
Over == {"refused", "failed", "gone", "crashed"}

Serving(l) == pc[l] \in {"serves", "stopping"}
Handles(where) == {l \in Lives : where[l] \in Starting \cup Ending}

(* A life goes on to its next step.                                        *)
Step(l, from, to) ==
    /\ pc[l] = from
    /\ pc' = [pc EXCEPT ![l] = to]
    /\ overlap' = (overlap \/ \E k, j \in Handles(pc') : k # j)

Init ==
    /\ pc = [l \in Lives |-> "never"]
    /\ sock = 0 /\ pidfile = 0 /\ listening = {}
    /\ session = [l \in Lives |-> "none"]
    /\ overlap = FALSE

-----------------------------------------------------------------------------
(* The agent is made, and with it a session, before the socket is looked   *)
(* at.                                                                     *)
Start(l) ==
    /\ \A k \in 1 .. l - 1 : pc[k] # "never"
    /\ Step(l, "never", "looks")
    /\ session' = [session EXCEPT ![l] = "active"]
    /\ UNCHANGED <<sock, pidfile, listening>>

Look(l) ==
    /\ Step(l, "looks", IF sock # 0 THEN "probes" ELSE "binds")
    /\ UNCHANGED <<sock, pidfile, listening, session>>

(* Mutant of is_socket_alive: a socket file is taken for a daemon.         *)
FileIsAlive == sock # 0

(* A connection to the path succeeds.                                      *)
is_socket_alive == sock \in listening

(* Already running, or a socket that was left behind.                      *)
Probe(l) ==
    /\ Step(l, "probes", IF is_socket_alive THEN "refused" ELSE "removes")
    /\ UNCHANGED <<sock, pidfile, listening, session>>

(* Mutant of RemoveStale: the socket stays where it is.                    *)
KeepStale(l) ==
    /\ Step(l, "removes", "binds")
    /\ UNCHANGED <<sock, pidfile, listening, session>>

(* What is at the path now is removed; it is an error if nothing is.       *)
RemoveStale(l) ==
    /\ Step(l, "removes", IF sock = 0 THEN "failed" ELSE "binds")
    /\ sock' = 0
    /\ UNCHANGED <<pidfile, listening, session>>

(* bind fails if there is a file at the path.                              *)
Bind(l) ==
    /\ Step(l, "binds", IF sock = 0 THEN "chmods" ELSE "failed")
    /\ sock' = IF sock = 0 THEN l ELSE sock
    /\ listening' = IF sock = 0 THEN listening \cup {l} ELSE listening
    /\ UNCHANGED <<pidfile, session>>

(* The mode of what is at the path is set; if nothing is, the daemon ends. *)
Chmod(l) ==
    /\ Step(l, "chmods", IF sock = 0 THEN "failed" ELSE "writes")
    /\ listening' = IF sock = 0 THEN listening \ {l} ELSE listening
    /\ UNCHANGED <<sock, pidfile, session>>

WritePid(l) ==
    /\ Step(l, "writes", "serves")
    /\ pidfile' = l
    /\ UNCHANGED <<sock, listening, session>>

(* A signal, or a client's request, which is acknowledged at once.         *)
Shutdown(l) ==
    /\ Step(l, "serves", "stopping")
    /\ UNCHANGED <<sock, pidfile, listening, session>>

(* Mutant of Abort: the session is not paused.                             *)
AbortOnly(l) ==
    /\ Step(l, "stopping", "unlinks")
    /\ listening' = listening \ {l}
    /\ UNCHANGED <<sock, pidfile, session>>

(* The cleanup: no connection is accepted any more, the session is paused, *)
(* the files are removed, whosever they are.                               *)
Abort(l) ==
    /\ Step(l, "stopping", "unlinks")
    /\ listening' = listening \ {l}
    /\ session' = [session EXCEPT ![l] = "paused"]
    /\ UNCHANGED <<sock, pidfile>>

UnlinkSocket(l) ==
    /\ Step(l, "unlinks", "unlinksPid")
    /\ sock' = 0
    /\ UNCHANGED <<pidfile, listening, session>>

(* Mutant of UnlinkPid: the pid file stays.                                *)
KeepPid(l) ==
    /\ Step(l, "unlinksPid", "gone")
    /\ UNCHANGED <<sock, pidfile, listening, session>>

UnlinkPid(l) ==
    /\ Step(l, "unlinksPid", "gone")
    /\ pidfile' = 0
    /\ UNCHANGED <<sock, listening, session>>

Crash(l) ==
    /\ pc[l] \notin Over \cup {"never"}
    /\ Step(l, pc[l], "crashed")
    /\ listening' = listening \ {l}
    /\ UNCHANGED <<sock, pidfile, session>>

Next == \E l \in Lives :
    \/ Start(l) \/ Look(l) \/ Probe(l) \/ RemoveStale(l) \/ Bind(l) \/ Chmod(l) \/ WritePid(l)
    \/ Shutdown(l) \/ Abort(l) \/ UnlinkSocket(l) \/ UnlinkPid(l) \/ Crash(l)

Spec == Init /\ [][Next]_vars

-----------------------------------------------------------------------------
(* Types of the state.                                                     *)
TypeOK ==
    /\ pc \in [Lives -> Starting \cup Ending \cup Over \cup {"never", "serves", "stopping"}]
    /\ sock \in {0} \cup Lives /\ pidfile \in {0} \cup Lives
    /\ listening \subseteq Lives
    /\ session \in [Lives -> {"none", "active", "paused"}]

(* As long as no two daemons have handled the files at the same time, a    *)
(* daemon that serves is the one at the path and in the pid file: clients  *)
(* reach it, and no second one serves.                                     *)
ServingIsReachable ==
    \A l \in Lives : Serving(l) /\ ~overlap => sock = l /\ pidfile = l

(* A daemon that has ended in order leaves neither file behind and its     *)
(* session paused; whatever socket is still there is of a daemon that      *)
(* lives or has crashed.                                                   *)
EndLeavesNothing ==
    /\ ~overlap => {sock, pidfile} \cap {l \in Lives : pc[l] \in {"gone", "refused"}} = {}
    /\ \A l \in Lives : pc[l] = "gone" => session[l] = "paused"

(* A start fails only if a daemon lives: what a crash at any point has     *)
(* left behind, socket or pid file, keeps nobody from starting.            *)
FailsOnlyIfServed ==
    [][\A l \in Lives :
        pc'[l] \in {"refused", "failed"} /\ pc[l] \in Starting /\ ~overlap
            => \E k \in Lives \ {l} : Serving(k)]_vars
=============================================================================
