---------------------------- MODULE MCSessionLog ----------------------------
(* TLC instance of Commands: a session log with two message values, whose  *)
(* order shows, and conversations short enough to be explored completely,  *)
(* and commands whose channels are soon full.                              *)
EXTENDS Commands, TLC

CONSTANTS m1, m2,
          MaxMessages,  \* pushes in one history
          MaxContext    \* context messages in one list

OldConversations == {<<m>> : m \in Message} \cup {<<m1, m2>>, <<m2, m1>>}

ContextNotes == {p \in DOMAIN messages : messages[p] = ContextNote}

Bounded ==
    /\ Len(conversation) <= MaxMessages
    /\ Len(stored) <= MaxMessages + 1
    /\ Cardinality(ContextNotes) <= MaxContext

(* The choices of an initial state are made in the part that is exercised. *)
MCInit ==
    /\ CommandsInit
    /\ part # "log" => stored = <<>>
    /\ part # "foreground" => command = "watch"
    /\ part # "run" => ~yes

MCSpec == MCInit /\ [][CommandsNext]_commandsVars /\ CommandsFairness

ASSUME CommandsConstants
=============================================================================
