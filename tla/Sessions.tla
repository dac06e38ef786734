------------------------------ MODULE Sessions ------------------------------
(***************************************************************************)
(* The life of interactive sessions: processes of anvil that share one     *)
(* session store (anvil-agent/src/session.rs), the configuration of the    *)
(* agent each of them holds (anvil-agent/src/agent.rs), the commands that  *)
(* change it (anvil/src/commands.rs), the loop that reads them             *)
(* (anvil/src/interactive.rs) and the model server a process may manage    *)
(* (anvil/src/backend.rs).  A turn is what it does to the row of its       *)
(* session; its messages are the subject of SessionLog and AgentTurn.      *)
(***************************************************************************)
EXTENDS Naturals, Sequences

CONSTANTS
    Procs,       \* processes of anvil
    None,        \* no persona, no model profile, no server
    Personas,    \* the built-in personas
    Kids,        \* those with is_kids_persona
    Skills,      \* the installed skills
    KidsSkills,  \* kids-first, kids-game, kids-story
    AutoSkills,  \* the skills /persona activates, for each persona
    EnvOf,       \* required_env of each skill
    Models,
    Default,     \* the model of the settings, or the one that is detected
    Profiled,    \* models with a model profile
    Profiles,    \* launch profiles of the settings
    Foreign,     \* a model server somebody else runs
    MaxSessions, \* bounds: rows of the store,
    MaxStarts,   \*   starts of a process,
    MaxCommands, \*   commands that change the agent,
    MaxTurns     \*   turns, of one token each

NoProfile == [model |-> None, url |-> FALSE, persona |-> None, mode |-> None, skills |-> {}]

SessionConstants ==
    /\ None \notin Personas \cup Models \cup Procs
    /\ Foreign \notin Procs \cup {None}
    /\ Kids \subseteq Personas /\ KidsSkills \subseteq Skills
    /\ AutoSkills \in [Personas -> SUBSET Skills]
    /\ DOMAIN EnvOf = Skills
    /\ Profiled \subseteq Models /\ Default \in Models
    /\ \A pr \in Profiles : /\ pr.model \in Models \cup {None}
                            /\ pr.persona \in Personas \cup {None} /\ pr.url \in BOOLEAN
                            /\ pr.mode \in {"coding", "creative", None}
                            /\ pr.skills \subseteq Skills
    /\ {MaxSessions, MaxStarts, MaxCommands, MaxTurns} \subseteq Nat

VARIABLES
    sessions,  \* the table of sessions: id -> row
    recent,    \* id -> its place in the order of updated_at, the latest last
    proc,      \* the processes: agent and loop
    server,    \* who started the model server on the port, or None, or Foreign
    starts, commands, turns,
    left,      \* history: how the last process that used a session ended
    alone      \* history: the ids only one process has used since it took them

tables == <<sessions, recent>>
bounds == <<starts, commands, turns>>
vars == <<tables, proc, server, bounds, left, alone>>

Ids == 1..MaxSessions
Modes == {"coding", "creative"}

(* The columns of a new row are the defaults of the table.                 *)
Row == [status |-> "active", persona |-> None, mode |-> "coding", skills |-> {}, total |-> 0]

(* The session is the last one now; those after it move up.                *)
Touched(id) ==
    [j \in DOMAIN recent |->
        IF j = id THEN Len(recent)
        ELSE IF recent[j] > recent[id] THEN recent[j] - 1 ELSE recent[j]]
Update(id, row) == sessions' = [sessions EXCEPT ![id] = row] /\ recent' = Touched(id)

-----------------------------------------------------------------------------
(* The agent.  A prompt is what rebuild_system_prompt puts into it.        *)
Prompt(a) == [model |-> a.model, persona |-> a.persona, mode |-> a.mode, skills |-> a.skills]
Env(skills) == UNION {EnvOf[s] : s \in skills}

rebuild_system_prompt(a) == [a EXCEPT !.prompt = Prompt(a)]
sync_skill_env(a) == [a EXCEPT !.env = Env(a.skills)]

New(id) ==
    LET a == [pc |-> "prompt", id |-> id, model |-> Default, sampling |-> None,
              persona |-> None, mode |-> "coding", skills |-> {}, sandbox |-> FALSE,
              env |-> {}, prompt |-> None, auto |-> FALSE, handle |-> "none",
              url |-> "settings", spent |-> 0]
    IN rebuild_system_prompt(a)

(* Mutant of activate_skills: the environment is left as it was.           *)
ActivatedWithoutEnv(a, S) ==
    IF S \subseteq a.skills THEN a
    ELSE rebuild_system_prompt([a EXCEPT !.skills = @ \cup S])

(* activate_skill for each skill of S: those already active are ignored.   *)
activate_skills(a, S) ==
    IF S \subseteq a.skills THEN a
    ELSE sync_skill_env(rebuild_system_prompt([a EXCEPT !.skills = @ \cup S]))

clear_skills(a) == sync_skill_env(rebuild_system_prompt([a EXCEPT !.skills = {}]))

(* Mutant of set_mode: the suffix of the prompt is not renewed.            *)
ModeWithoutPrompt(a, m) == [a EXCEPT !.mode = m]

set_mode(a, m) == rebuild_system_prompt([a EXCEPT !.mode = m])

(* Mutant of set_persona: the sandbox outlives the persona.                *)
PersonaKeepsSandbox(a, p) ==
    rebuild_system_prompt([a EXCEPT !.persona = p, !.mode = "coding", !.sandbox = @ \/ p \in Kids])

(* The sandbox follows the persona, the mode starts anew.                  *)
set_persona(a, p) ==
    rebuild_system_prompt([a EXCEPT !.persona = p, !.mode = "coding", !.sandbox = p \in Kids])

set_model(a, m) == [a EXCEPT !.model = m]
apply_model_profile(a) == IF a.model \in Profiled THEN [a EXCEPT !.sampling = a.model] ELSE a

is_kids_mode(a) == a.persona \in Kids \/ a.skills \cap KidsSkills # {}

(* Mutant of resume: the persona is restored after the skills, and with    *)
(* them cleared as /persona clear does.                                    *)
ResumedPersonaLast(id) ==
    set_persona(clear_skills(activate_skills(New(id), sessions[id].skills)),
                sessions[id].persona)

(* What resume restores from the row, in its order: the mode, then the     *)
(* persona, which sets the mode again, then the skills.                    *)
resume(id) ==
    LET row == sessions[id]
        withMode == set_mode(New(id), row.mode)
        withPersona == IF row.persona = None THEN withMode
                       ELSE set_persona(withMode, row.persona)
    IN activate_skills(withPersona, row.skills)

(* A launch profile: model, server, persona, mode and skills, in this      *)
(* order.                                                                  *)
apply_launch_profile(a, pr) ==
    LET withModel == IF pr.model = None THEN a ELSE apply_model_profile(set_model(a, pr.model))
        withUrl == IF pr.url THEN [withModel EXCEPT !.url = "profile"] ELSE withModel
        withPersona == IF pr.persona = None THEN withUrl ELSE set_persona(withUrl, pr.persona)
        withMode == IF pr.mode = None THEN withPersona ELSE set_mode(withPersona, pr.mode)
    IN activate_skills(withMode, pr.skills)

(* Mutant of LoopHead: the policy is the one of the start of the process.  *)
PolicyOfStart(a) == [a EXCEPT !.pc = "prompt"]

(* The head of the loop: the policy is derived from the agent again.       *)
LoopHead(a) == [a EXCEPT !.pc = "prompt", !.auto = is_kids_mode(a)]

Running(p) == proc[p].pc # "off"
Own(p) == server = p

-----------------------------------------------------------------------------
Off == [New(0) EXCEPT !.pc = "off"]

Init ==
    /\ sessions = <<>> /\ recent = <<>>
    /\ proc = [p \in Procs |-> Off]
    /\ server \in {None, Foreign}
    /\ starts = 0 /\ commands = 0 /\ turns = 0
    /\ left = <<>>
    /\ alone = {}

Enter(p, a, pr) ==
    /\ proc' = [proc EXCEPT ![p] = LoopHead(apply_launch_profile(apply_model_profile(a), pr))]
    /\ starts' = starts + 1
    /\ UNCHANGED <<server, commands, turns>>

(* anvil: a new session and its agent, with or without a launch profile.   *)
StartNew(p) ==
    /\ ~Running(p) /\ starts < MaxStarts /\ Len(sessions) < MaxSessions
    /\ LET id == Len(sessions) + 1
       IN /\ sessions' = Append(sessions, Row)
          /\ recent' = Append(recent, id)
          /\ \E pr \in Profiles \cup {NoProfile} : Enter(p, New(id), pr)
          /\ left' = Append(left, "running")
          /\ alone' = alone \cup {id}

(* The sessions --continue chooses from, and the latest of them.           *)
Resumable == {id \in DOMAIN sessions : sessions[id].status \in {"active", "paused"}}
find_latest_resumable == {id \in Resumable : \A j \in Resumable : recent[j] <= recent[id]}

InUse(id) == \E q \in Procs : Running(q) /\ proc[q].id = id

(* Agent::resume marks the session active, whoever else may use it.        *)
Resume(p, id) ==
    /\ ~Running(p) /\ starts < MaxStarts
    /\ Update(id, [sessions[id] EXCEPT !.status = "active"])
    /\ \E pr \in Profiles \cup {NoProfile} : Enter(p, resume(id), pr)
    /\ left' = [left EXCEPT ![id] = "running"]
    /\ alone' = IF InUse(id) THEN alone \ {id} ELSE alone \cup {id}

(* anvil --continue: the latest session that is active or paused.          *)
StartContinue(p) ==
    \E id \in find_latest_resumable : Resume(p, id)

(* anvil --continue <prefix>: any session, whatever its status.            *)
StartByPrefix(p) == \E id \in 1..Len(sessions) : Resume(p, id)

(* anvil run: a session of its own, one turn, and no pause at the end.     *)
StartBatch(p) ==
    /\ ~Running(p) /\ starts < MaxStarts /\ Len(sessions) < MaxSessions
    /\ LET id == Len(sessions) + 1
       IN /\ sessions' = Append(sessions, Row)
          /\ recent' = Append(recent, id)
          /\ alone' = alone \cup {id}
          /\ proc' = [proc EXCEPT ![p] = [New(id) EXCEPT !.pc = "batch"]]
    /\ left' = Append(left, "running")
    /\ starts' = starts + 1
    /\ UNCHANGED <<server, commands, turns>>

EndBatch(p) ==
    /\ proc[p].pc = "batch"
    /\ Update(proc[p].id, [sessions[proc[p].id] EXCEPT !.total = 1])
    /\ proc' = [proc EXCEPT ![p] = Off]
    /\ left' = [left EXCEPT ![proc[p].id] = "done"]
    /\ UNCHANGED <<server, bounds, alone>>

-----------------------------------------------------------------------------
(* The commands.  After each the loop begins again.                        *)
Handled(p, a) ==
    /\ proc[p].pc = "prompt" /\ commands < MaxCommands
    /\ a # proc[p]
    /\ proc' = [proc EXCEPT ![p] = LoopHead(a)]
    /\ commands' = commands + 1
    /\ UNCHANGED <<tables, server, starts, turns, left, alone>>

(* /persona <name> brings its skills with it and takes none away.          *)
persona_command(p) ==
    \/ \E key \in Personas :
          Handled(p, activate_skills(set_persona(proc[p], key), AutoSkills[key]))
    \/ Handled(p, clear_skills(set_persona(proc[p], None)))

mode_command(p) == \E m \in Modes : Handled(p, set_mode(proc[p], m))

skill_command(p) ==
    \/ \E s \in Skills : Handled(p, activate_skills(proc[p], {s}))
    \/ Handled(p, clear_skills(proc[p]))

(* The bundled profile of the model, or none: the last one is cleared.     *)
model_command(p) ==
    \E m \in Models :
        Handled(p, apply_model_profile([set_model(proc[p], m) EXCEPT !.sampling = None]))

(* /backend <kind> [url]: another server is talked to.                     *)
backend_command(p) == Handled(p, [proc[p] EXCEPT !.url = "chosen"])

(* Mutant of Stopped: the server is left to itself.                        *)
NotStopped(p) == server

(* stop: the child is ended, a server that was only connected to is not.   *)
Stopped(p) == IF Own(p) THEN None ELSE server

(* /backend start: the own server is stopped first.  If one answers on the *)
(* port the process connects to it, else it starts one and waits.          *)
BackendStart(p) ==
    /\ proc[p].pc = "prompt" /\ commands < MaxCommands
    /\ commands' = commands + 1
    /\ server' = Stopped(p)
    /\ proc' = [proc EXCEPT ![p] =
           IF server' = None THEN [@ EXCEPT !.pc = "starting", !.handle = "child"]
           ELSE LoopHead([@ EXCEPT !.handle = "shared", !.url = "port"])]
    /\ UNCHANGED <<tables, starts, turns, left, alone>>

(* The child takes the port, unless another took it before.                *)
ServerBinds(p) ==
    /\ proc[p].pc = "starting" /\ server = None
    /\ server' = p
    /\ UNCHANGED <<tables, proc, bounds, left, alone>>

(* wait_for_health: whoever answers on the port will do.                   *)
BackendReady(p) ==
    /\ proc[p].pc = "starting" /\ server # None
    /\ proc' = [proc EXCEPT ![p] = LoopHead([@ EXCEPT !.url = "port"])]
    /\ UNCHANGED <<tables, server, bounds, left, alone>>

(* It could not be started, or nobody answered in time.                    *)
BackendFails(p) ==
    /\ proc[p].pc = "starting"
    /\ server' = Stopped(p)
    /\ proc' = [proc EXCEPT ![p] = LoopHead([@ EXCEPT !.handle = "none"])]
    /\ UNCHANGED <<tables, bounds, left, alone>>

(* /backend stop; the agent keeps the address of the server.               *)
BackendStop(p) ==
    /\ proc[p].pc = "prompt" /\ proc[p].handle # "none"
    /\ server' = Stopped(p)
    /\ proc' = [proc EXCEPT ![p] = LoopHead([@ EXCEPT !.handle = "none"])]
    /\ UNCHANGED <<tables, bounds, left, alone>>

ServerDies ==
    /\ server # None
    /\ server' = None
    /\ UNCHANGED <<tables, proc, bounds, left, alone>>

-----------------------------------------------------------------------------
(* A turn saves the message of the user.                                   *)
TurnBegin(p) ==
    /\ proc[p].pc = "prompt" /\ turns < MaxTurns
    /\ turns' = turns + 1
    /\ proc' = [proc EXCEPT ![p].pc = "turn"]
    /\ Update(proc[p].id, sessions[proc[p].id])
    /\ UNCHANGED <<server, starts, commands, left, alone>>

(* What the columns of the row take from the agent after a complete turn.  *)
persist_snapshot(row, a) ==
    [row EXCEPT !.persona = a.persona, !.mode = a.mode, !.skills = a.skills]

(* The usage of this process replaces the total of the row.                *)
update_session_usage(row, a) == [row EXCEPT !.total = a.spent]

TurnEnd(p, complete) ==
    /\ proc[p].pc = "turn"
    /\ LET a == [proc[p] EXCEPT !.spent = @ + 1]
           row == update_session_usage(sessions[a.id], a)
       IN /\ Update(a.id, IF complete THEN persist_snapshot(row, a) ELSE row)
          /\ proc' = [proc EXCEPT ![p] = LoopHead(a)]
    /\ UNCHANGED <<server, bounds, left, alone>>

(* Ctrl+C during a turn cancels it; the terminal sends it to the own model *)
(* server too, which may end of it.                                        *)
TurnCancelled(p) ==
    /\ proc[p].pc = "turn"
    /\ server' \in IF Own(p) THEN {server, None} ELSE {server}
    /\ proc' = [proc EXCEPT ![p] = LoopHead(@)]
    /\ UNCHANGED <<tables, bounds, left, alone>>

(* /end marks the session completed and leaves the loop.                   *)
EndSession(p) ==
    /\ proc[p].pc = "prompt"
    /\ Update(proc[p].id, [sessions[proc[p].id] EXCEPT !.status = "completed"])
    /\ proc' = [proc EXCEPT ![p].pc = "closing"]
    /\ UNCHANGED <<server, bounds, left, alone>>

EndOfInput(p) ==
    /\ proc[p].pc = "prompt"
    /\ proc' = [proc EXCEPT ![p].pc = "closing"]
    /\ UNCHANGED <<tables, server, bounds, left, alone>>

(* Mutant of Close: the session is left as it is.                          *)
CloseWithoutPause(p) ==
    /\ proc[p].pc = "closing"
    /\ server' = Stopped(p)
    /\ proc' = [proc EXCEPT ![p] = Off]
    /\ left' = [left EXCEPT ![proc[p].id] = "exit"]
    /\ UNCHANGED <<tables, bounds, alone>>

(* The shutdown: the managed server is stopped and the session paused,     *)
(* also one that /end has just completed.                                  *)
Close(p) ==
    /\ proc[p].pc = "closing"
    /\ server' = Stopped(p)
    /\ Update(proc[p].id, [sessions[proc[p].id] EXCEPT !.status = "paused"])
    /\ proc' = [proc EXCEPT ![p] = Off]
    /\ left' = [left EXCEPT ![proc[p].id] = "exit"]
    /\ UNCHANGED <<bounds, alone>>

(* Ctrl+C at the prompt, or a crash: nothing is closed, and the own server *)
(* runs on without its owner unless it dies of the same signal.            *)
Killed(p) ==
    /\ Running(p)
    /\ server' \in IF Own(p) THEN {Foreign, None} ELSE {server}
    /\ proc' = [proc EXCEPT ![p] = Off]
    /\ left' = [left EXCEPT ![proc[p].id] = "killed"]
    /\ UNCHANGED <<tables, bounds, alone>>

-----------------------------------------------------------------------------
Command(p) ==
    \/ persona_command(p) \/ mode_command(p) \/ skill_command(p) \/ model_command(p)
    \/ backend_command(p) \/ BackendStart(p) \/ BackendStop(p)

Next ==
    \/ ServerDies
    \/ \E p \in Procs :
          \/ StartNew(p) \/ StartContinue(p) \/ StartByPrefix(p)
          \/ StartBatch(p) \/ EndBatch(p)
          \/ Command(p) \/ ServerBinds(p) \/ BackendReady(p) \/ BackendFails(p)
          \/ TurnBegin(p) \/ TurnEnd(p, TRUE) \/ TurnEnd(p, FALSE) \/ TurnCancelled(p)
          \/ EndSession(p) \/ EndOfInput(p) \/ Close(p) \/ Killed(p)

Spec == Init /\ [][Next]_vars

-----------------------------------------------------------------------------
Rows ==
    [status : {"active", "paused", "completed"}, persona : Personas \cup {None},
     mode : Modes, skills : SUBSET Skills, total : Nat]

(* Types of the state.                                                     *)
TypeOK ==
    /\ sessions \in Seq(Rows) /\ Len(sessions) <= MaxSessions
    /\ recent \in Seq(Nat) /\ Len(recent) = Len(sessions)
    /\ {recent[id] : id \in DOMAIN sessions} = DOMAIN sessions
    /\ \A p \in Procs :
          /\ proc[p].pc \in {"off", "prompt", "starting", "turn", "closing", "batch"}
          /\ proc[p].handle \in {"none", "shared", "child"}
          /\ Running(p) <=> proc[p].id # 0
    /\ left \in Seq({"running", "exit", "done", "killed"}) /\ Len(left) = Len(sessions)
    /\ server \in Procs \cup {None, Foreign}
    /\ alone \subseteq DOMAIN sessions

(* Whatever commands, launch profile and resume a process went through in  *)
(* whatever order, what the agent derives from its persona, mode and       *)
(* skills agrees with them: the system prompt, the environment of the      *)
(* shell, the sandbox, and the policy of the loop and of the turn that     *)
(* runs (is_kids_mode, "single source of truth", agent.rs).                *)
AgentIsConsistent ==
    \A p \in Procs :
        LET a == proc[p]
        IN Running(p) =>
            /\ a.prompt.persona = a.persona /\ a.prompt.mode = a.mode
            /\ a.prompt.skills = a.skills
            /\ a.env = Env(a.skills)
            /\ a.sandbox <=> a.persona \in Kids
            /\ a.pc \in {"prompt", "turn"} => (a.auto <=> is_kids_mode(a))

(* The sampling parameters are those of the model in use, or none, except  *)
(* after a launch profile that names a model without a profile of its own, *)
(* which keeps those of the model before.                                  *)
SamplingIsOfModel ==
    \A p \in Procs : Running(p) =>
        \/ proc[p].sampling \in {None, proc[p].model}
        \/ /\ proc[p].model \notin Profiled
           /\ \E pr \in Profiles : pr.model = proc[p].model

(* A model server a process has started never outlives a process that ends *)
(* in order, and is never taken for managed by anybody else.               *)
ServerHasOwner ==
    server \in Procs => Running(server) /\ proc[server].handle = "child"

(* The status of a session is that of the one process that works with it:  *)
(* active while it does, paused when it ended in order, with /end or not,  *)
(* still active after anvil run, and after a kill whatever it was, which   *)
(* is completed only if /end came before.  It says nothing of a session    *)
(* that two processes use at once: either of them pauses it for both.      *)
StatusIsOfUser ==
    \A id \in alone :
        /\ left[id] = "exit" => sessions[id].status = "paused"
        /\ left[id] = "done" => sessions[id].status = "active"
        /\ \A p \in Procs :
              (proc[p].id = id /\ proc[p].pc # "closing") => sessions[id].status = "active"

(* A process that resumes a session has the skills of its last complete    *)
(* turn, and its persona unless a launch profile names another.            *)
ResumeRestores ==
    [][\A p \in Procs :
        (~Running(p) /\ proc'[p].pc = "prompt" /\ proc'[p].id \in DOMAIN sessions) =>
            LET row == sessions[proc'[p].id]
            IN /\ row.skills \subseteq proc'[p].skills
               /\ \/ proc'[p].persona = row.persona
                  \/ \E pr \in Profiles : pr.persona # None /\ pr.persona = proc'[p].persona]_vars
=============================================================================
