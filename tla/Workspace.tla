------------------------------ MODULE Workspace ------------------------------
(***************************************************************************)
(* What shares a workspace with the agent's turns: the file watcher, whose *)
(* names are used as they are, and eight parts of the program that keep    *)
(* state of their own between turns, processes and files.  They share no   *)
(* state; a behaviour exercises one of them, part, and the others keep     *)
(* their initial states, in which none of their fair actions is enabled.   *)
(***************************************************************************)
EXTENDS FileWatch

VARIABLE part

-----------------------------------------------------------------------------
(* Interactive sessions and the model server.                              *)
CONSTANTS Procs, None, Personas, Kids, Skills, KidsSkills, AutoSkills, EnvOf, Models,
          Default, Profiled, Profiles, Foreign, MaxSessions, MaxStarts, MaxCommands,
          MaxTurns

VARIABLES sessions, updated, proc, server, sessionStarts, sessionCommands, sessionTurns,
          left, alone

sessionVars ==
    <<sessions, updated, proc, server, sessionStarts, sessionCommands, sessionTurns, left,
      alone>>

S == INSTANCE Sessions
       WITH recent <- updated, starts <- sessionStarts, commands <- sessionCommands,
            turns <- sessionTurns

(* The daemons of the workspace.                                           *)
CONSTANT MaxLives

VARIABLES pc, sock, pidfile, listening, session, overlap

lifeVars == <<pc, sock, pidfile, listening, session, overlap>>

DL == INSTANCE DaemonLife

(* Tool calls.                                                             *)
CONSTANTS Paths, Elsewhere, Nested, Texts, Missing, NoTool, old, new, MaxCalls, MaxSaves

VARIABLES disk, folder, call, stage, text, result, before, disturbed, sh, kid, index, head,
          calls, saves

toolVars ==
    <<disk, folder, call, stage, text, result, before, disturbed, sh, kid, index, head,
      calls, saves>>

T == INSTANCE Tools WITH File <- Paths, Outside <- Elsewhere, None <- NoTool

(* Badges.                                                                 *)
CONSTANTS Terminals, Asking, ToolGoal, TalkGoal, MaxTalks, MaxOpened

VARIABLES file, unlocked, at, used, talk, triggered, award, announced, shared, torn,
          badgeTurns, badgeStarts

badgeVars ==
    <<file, unlocked, at, used, talk, triggered, award, announced, shared, torn,
      badgeTurns, badgeStarts>>

B == INSTANCE Badges
       WITH pending <- triggered, told <- announced, turns <- badgeTurns,
            starts <- badgeStarts, Prompt <- Terminals, MaxTurns <- MaxTalks,
            MaxStarts <- MaxOpened

(* Long outputs.                                                           *)
CONSTANTS Tool, Threshold, MaxLines, MaxOutputs, MaxSecond

VARIABLES second, dir, made, told, clobbered

overflowVars == <<second, dir, made, told, clobbered>>

O == INSTANCE Overflow

(* The .anvil folders.                                                     *)
CONSTANTS Root, Sub, NoDir, Items, MaxInits, MaxLoads, MaxEdits

VARIABLES harness, item, where, step, writing, killed, loaded, inits, setupStarts, edits

setupVars ==
    <<harness, item, where, step, writing, killed, loaded, inits, setupStarts, edits>>

U == INSTANCE Setup WITH starts <- setupStarts, MaxStarts <- MaxLoads

(* Guided projects.                                                        *)
CONSTANTS Project, Steps, NoProject, MaxNext

VARIABLES active, current, done, seen, said, nexts

projectVars == <<active, current, done, seen, said, nexts>>

P == INSTANCE Projects

(* Notes.                                                                  *)
CONSTANTS Prompts, Plain, Bracketed, Empty, MaxSeconds, MaxNotes

VARIABLES now, store, doing, kept, notes

memoryVars == <<now, store, doing, kept, notes>>

M == INSTANCE Memory

-----------------------------------------------------------------------------
WorkspaceInit ==
    /\ Init /\ S!Init /\ DL!Init /\ T!Init /\ B!Init /\ O!Init /\ U!Init /\ P!Init /\ M!Init

(* The step of a part, which leaves the others alone.                      *)
Only(p) ==
    /\ part = p /\ UNCHANGED part
    /\ p # "watch" => UNCHANGED vars
    /\ p # "sessions" => UNCHANGED sessionVars
    /\ p # "life" => UNCHANGED lifeVars
    /\ p # "tools" => UNCHANGED toolVars
    /\ p # "badges" => UNCHANGED badgeVars
    /\ p # "overflow" => UNCHANGED overflowVars
    /\ p # "setup" => UNCHANGED setupVars
    /\ p # "projects" => UNCHANGED projectVars
    /\ p # "memory" => UNCHANGED memoryVars

WatchStep == Only("watch") /\ Next
SessionStep == Only("sessions") /\ S!Next
LifeStep == Only("life") /\ DL!Next
ToolStep == Only("tools") /\ T!Next
BadgeStep == Only("badges") /\ B!Next
OverflowStep == Only("overflow") /\ O!Next
SetupStep == Only("setup") /\ U!Next
ProjectStep == Only("projects") /\ P!Next
MemoryStep == Only("memory") /\ M!Next

WorkspaceNext ==
    \/ WatchStep \/ SessionStep \/ LifeStep \/ ToolStep \/ BadgeStep
    \/ OverflowStep \/ SetupStep \/ ProjectStep \/ MemoryStep

workspaceVars ==
    <<part, vars, sessionVars, lifeVars, toolVars, badgeVars, overflowVars, setupVars,
      projectVars, memoryVars>>

WorkspaceFairness == Fairness /\ T!Fairness

WorkspaceSpec ==
    WorkspaceInit /\ [][WorkspaceNext]_workspaceVars /\ WorkspaceFairness

(* What the parts assume of their constants.                               *)
WorkspaceConstants ==
    /\ S!SessionConstants /\ DL!LifeConstants /\ T!ToolsConstants /\ B!BadgesConstants
    /\ O!OverflowConstants /\ U!SetupConstants /\ P!ProjectsConstants /\ M!MemoryConstants

-----------------------------------------------------------------------------
(* The properties are stated in their modules; each is evaluated in the    *)
(* states of its part, for the others keep it in its initial state.        *)
WorkspaceTypeOK ==
    /\ part = "watch" => TypeOK
    /\ part = "sessions" => S!TypeOK
    /\ part = "life" => DL!TypeOK
    /\ part = "tools" => T!TypeOK
    /\ part = "badges" => B!TypeOK
    /\ part = "overflow" => O!TypeOK
    /\ part = "setup" => U!TypeOK
    /\ part = "projects" => P!TypeOK
    /\ part = "memory" => M!TypeOK

(* What the agent has been told to be, what it works with and what its     *)
(* prompt says are the same.                                               *)
AgentMatches == part = "sessions" => S!AgentIsConsistent /\ S!SamplingIsOfModel

(* A model server has somebody who stops it, a session's status tells how  *)
(* the last process that used it ended, a daemon that serves can be found  *)
(* and one that has ended leaves nothing.                                  *)
EndsAreClean ==
    /\ part = "sessions" => S!ServerHasOwner /\ S!StatusIsOfUser
    /\ part = "life" => DL!ServingIsReachable /\ DL!EndLeavesNothing

(* A call on the workspace does what it reports.                           *)
CallsAreExact == part = "tools" => T!EditsAreExact /\ T!CommandIsOver /\ T!CommitsAreExact

(* What is kept in files is not lost to another prompt, a restart or time. *)
StoresKeep ==
    /\ part = "badges" => B!AwardsLast
    /\ part = "overflow" => O!NamesLead
    /\ part = "setup" => U!InitIsWhole
    /\ part = "projects" => P!FinishedIsVerified
    /\ part = "memory" => M!NotesAreKept

(* What a step may not do: resume something else than was left, refuse to  *)
(* start without a daemon that serves, touch a user's file, remove one of  *)
(* the newest outputs.                                                     *)
StepsAreLawful ==
    S!ResumeRestores /\ DL!FailsOnlyIfServed /\ U!UserFilesStay /\ O!CleanKeepsNewest

(* A change by others is reviewed, once the files are left alone long      *)
(* enough for the watcher to report it, and a tool call ends, unless it    *)
(* waits for git, which is run without a timeout.                          *)
ReviewsAndCallsEnd == ChangesAreReviewed /\ T!CallsEnd
=============================================================================
