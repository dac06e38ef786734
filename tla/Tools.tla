-------------------------------- MODULE Tools --------------------------------
(***************************************************************************)
(* One tool call of the agent at a time, on the files, the processes and   *)
(* the repository of a workspace its user also works in                    *)
(* (anvil-tools/src/tools.rs, executor.rs): what is read is written back   *)
(* in steps, a command is waited for by its output and killed without what *)
(* it started, a commit is an add and a commit.                                *)
(***************************************************************************)
EXTENDS Naturals, Sequences, FiniteSets

CONSTANTS
    File,       \* paths that calls name
    Outside,    \* those that are not in the workspace
    Nested,     \* those in a folder that need not exist
    Texts,      \* what a user may save
    Missing,    \* no file
    None,       \* no call
    MaxCalls,   \* bound: calls
    MaxSaves    \* bound: saves by the user

(* A text is a sequence of pieces; the model's calls replace old by new.   *)
CONSTANTS old, new

(* How a call can end.                                                     *)
Results == {"text", "written", "full", "error", "exit", "timeout", "clean", "committed"}

ToolsConstants ==
    /\ Outside \subseteq File /\ Nested \subseteq File
    /\ Texts \subseteq Seq(STRING) /\ new \in STRING
    /\ Missing \notin Texts \cup {<<>>}
    /\ None \notin Results
    /\ MaxCalls \in Nat /\ MaxSaves \in Nat

VARIABLES
    disk,       \* file -> its text, or Missing
    folder,     \* the folder of the nested files exists
    call,       \* the tool call and what it names
    stage,      \* where it stands
    text,       \* what it holds of the file
    result,     \* how it ended
    before,     \* history: the files and the repository when it began
    disturbed,  \* history: the user has saved or staged since
    sh, kid,    \* the shell, and a process of its that holds the pipe
    index, head,\* file -> its text in the index, in the last commit
    calls, saves

files == <<disk, folder, text>>
procs == <<sh, kid>>
repo == <<index, head>>
vars == <<files, call, stage, result, before, disturbed, procs, repo, calls, saves>>

Tracked == File \ Outside
Idle == {"idle", "done", "crashed"}
NoCall == [tool |-> None, names |-> {}, all |-> FALSE]

Count(t) == Cardinality({i \in DOMAIN t : t[i] = old})
Replaced(t) == [i \in DOMAIN t |-> IF t[i] = old THEN new ELSE t[i]]

(* There is a file, and one place to edit.                                 *)
Unique(t) == IF t = Missing THEN FALSE ELSE Count(t) = 1

(* A text written from the start of a file over what is there.             *)
Over(t, there) ==
    IF there = Missing THEN Missing
    ELSE t \o SubSeq(there, Len(t) + 1, Len(there))

Now == [disk |-> disk, index |-> index, head |-> head]

End(how) ==
    /\ stage' = "done" /\ result' = how
    /\ UNCHANGED <<call, before, disturbed, calls, saves>>

Go(next) ==
    /\ stage' = next
    /\ UNCHANGED <<call, result, before, disturbed, calls, saves>>

Init ==
    /\ disk \in [File -> Texts \cup {Missing}]
    /\ folder \in BOOLEAN
    /\ \A f \in Nested : ~folder => disk[f] = Missing
    /\ call = NoCall /\ stage = "idle" /\ text = <<>> /\ result = None
    /\ index = [f \in Tracked |-> disk[f]] /\ head = index
    /\ before = Now /\ disturbed = FALSE
    /\ sh = "none" /\ kid = FALSE
    /\ calls = 0 /\ saves = 0

-----------------------------------------------------------------------------
Begin(tool, names, all, first) ==
    /\ stage \in Idle /\ calls < MaxCalls
    /\ call' = [tool |-> tool, names |-> names, all |-> all]
    /\ before' = Now /\ disturbed' = FALSE
    /\ stage' = first /\ result' = None /\ calls' = calls + 1
    /\ UNCHANGED saves

Target == CHOOSE f \in call.names : TRUE

(* The arguments that are required are there, or the call is refused.      *)
validate_args(present) == present

(* Every file tool, from execute to the path it resolves.                  *)
BeginFileTool ==
    /\ \E tool \in {"file_read", "file_write", "file_edit"}, f \in File, given \in BOOLEAN :
           Begin(tool, {f}, FALSE, IF validate_args(given) THEN "resolve" ELSE "done")
    /\ UNCHANGED <<files, procs, repo>>

(* The folder of a file that does not exist is made, whatever the tool,    *)
(* before the path is compared with the workspace.                         *)
resolve_path ==
    /\ stage = "resolve"
    /\ folder' = (folder \/ (Target \in Nested /\ disk[Target] = Missing))
    /\ IF Target \in Outside THEN End("error") /\ UNCHANGED text
       ELSE IF call.tool = "file_write" THEN Go("open") /\ text' = <<new>>
       ELSE Go("read") /\ UNCHANGED text
    /\ UNCHANGED <<disk, procs, repo>>

file_read ==
    /\ stage = "read" /\ call.tool = "file_read"
    /\ IF disk[Target] = Missing THEN End("error") /\ UNCHANGED text
       ELSE End("text") /\ text' = disk[Target]
    /\ UNCHANGED <<disk, folder, procs, repo>>

Editing(t, allowed) ==
    /\ stage = "read" /\ call.tool = "file_edit"
    /\ IF allowed THEN Go("open") /\ text' = Replaced(t)
       ELSE End("error") /\ UNCHANGED text
    /\ UNCHANGED <<disk, folder, procs, repo>>

(* Mutant of file_edit: a text that occurs more than once is replaced.     *)
EditAnyway == Editing(disk[Target], disk[Target] # Missing /\ Count(disk[Target]) # 0)

(* Mutant of file_edit: the text of an earlier call is edited.             *)
EditCached ==
    LET known == IF text # <<>> THEN text ELSE disk[Target] IN Editing(known, Unique(known))

file_edit == Editing(disk[Target], Unique(disk[Target]))

(* safe_write opens the file, which empties it, and then fills it; a full  *)
(* disk ends it there.  The ledger is the subject of FileWatch.            *)
safe_write ==
    /\ stage = "open"
    /\ disk' = [disk EXCEPT ![Target] = <<>>]
    /\ Go("fill")
    /\ UNCHANGED <<folder, text, procs, repo>>

Fill ==
    /\ stage = "fill"
    /\ \/ disk' = [disk EXCEPT ![Target] = Over(text, @)] /\ End("written")
       \/ End("full") /\ UNCHANGED disk
    /\ UNCHANGED <<folder, text, procs, repo>>

-----------------------------------------------------------------------------
(* A command: its shell may start a process that keeps the pipe open.      *)
BeginShell ==
    /\ Begin("shell", {}, FALSE, "waits")
    /\ sh' = "runs" /\ kid' = FALSE
    /\ UNCHANGED <<files, repo>>

InShell == stage \in {"waits", "terms"}

(* What goes on in the processes while the call waits.                     *)
Outer == UNCHANGED <<files, call, stage, result, before, disturbed, repo, calls, saves>>

ShellForks ==
    /\ InShell /\ sh = "runs" /\ kid' = TRUE
    /\ UNCHANGED sh /\ Outer

(* The shell ends, on its own or as it was asked to.                       *)
ShellEnds ==
    /\ InShell /\ sh = "runs" /\ sh' = "gone"
    /\ UNCHANGED kid /\ Outer

KidEnds ==
    /\ InShell /\ kid /\ kid' = FALSE
    /\ UNCHANGED sh /\ Outer

(* Mutant of Output: the end of the shell is enough.                       *)
OutputOfShell ==
    /\ stage = "waits" /\ sh = "gone"
    /\ End("exit") /\ UNCHANGED <<files, procs, repo>>

(* wait_with_output: the shell has ended and the pipe is closed.           *)
Output ==
    /\ stage = "waits" /\ sh = "gone" /\ ~kid
    /\ End("exit") /\ UNCHANGED <<files, procs, repo>>

(* Mutant of TimeOut: only the shell is timed.                             *)
TimeOutOfShell ==
    /\ stage = "waits" /\ sh = "runs" /\ Go("terms")
    /\ UNCHANGED <<files, procs, repo>>

(* SIGTERM, to the shell and not to what it started.                       *)
TimeOut ==
    /\ stage = "waits" /\ Go("terms")
    /\ UNCHANGED <<files, procs, repo>>

(* Mutant of Kill: SIGTERM is all there is.                                *)
NoKill ==
    /\ stage = "terms" /\ End("timeout")
    /\ UNCHANGED <<files, procs, repo>>

(* And SIGKILL five seconds later.                                         *)
Kill ==
    /\ stage = "terms" /\ End("timeout")
    /\ sh' = "gone"
    /\ UNCHANGED <<files, kid, repo>>

-----------------------------------------------------------------------------
(* git add of the files that are named, then git commit of the index; or   *)
(* commit -a if none is named and all is asked for.                        *)
BeginCommit ==
    /\ \E names \in SUBSET File, all \in BOOLEAN :
           Begin("git_commit", names, all, IF names = {} THEN "commit" ELSE "add")
    /\ UNCHANGED <<files, procs, repo>>

(* A path that is unknown, or outside, makes git refuse all of them.       *)
git_add ==
    /\ stage = "add"
    /\ IF \E f \in call.names : f \in Outside \/ (disk[f] = Missing /\ index[f] = Missing)
       THEN End("error") /\ UNCHANGED index
       ELSE /\ Go("commit")
            /\ index' = [f \in Tracked |-> IF f \in call.names THEN disk[f] ELSE index[f]]
    /\ UNCHANGED <<files, procs, head>>

(* What git commit -a stages first: the files it knows.                    *)
Known == [f \in Tracked |-> IF index[f] # Missing THEN disk[f] ELSE Missing]

(* Mutant of Staged: all is heeded though files are named.                 *)
StagedAll == IF call.all THEN Known ELSE index

Staged == IF call.all /\ call.names = {} THEN Known ELSE index

(* git says "nothing to commit" only of a tree without changes.            *)
Clean == Staged = head /\ \A f \in Tracked : disk[f] = head[f]

(* A hook may refuse; what has been staged stays so.                       *)
git_commit ==
    /\ stage = "commit"
    /\ \/ Clean /\ End("clean") /\ UNCHANGED repo
       \/ ~Clean /\ End("error") /\ UNCHANGED repo
       \/ Staged # head /\ End("committed") /\ head' = Staged /\ index' = Staged
    /\ UNCHANGED <<files, procs>>

-----------------------------------------------------------------------------
(* The user saves a file, or stages one.                                   *)
Save(f) ==
    /\ saves < MaxSaves /\ saves' = saves + 1
    /\ f \in Nested => folder
    /\ \E t \in Texts \ {disk[f]} : disk' = [disk EXCEPT ![f] = t]
    /\ disturbed' = TRUE
    /\ UNCHANGED <<folder, text, call, stage, result, before, procs, repo, calls>>

Stage(f) ==
    /\ saves < MaxSaves /\ saves' = saves + 1
    /\ disk[f] # index[f] /\ index' = [index EXCEPT ![f] = disk[f]]
    /\ disturbed' = TRUE
    /\ UNCHANGED <<files, call, stage, result, before, procs, head, calls>>

(* Anvil ends in the middle of a call: its command goes on.                *)
Crash ==
    /\ stage \notin Idle /\ stage' = "crashed"
    /\ UNCHANGED <<files, call, result, before, disturbed, procs, repo, calls, saves>>

FileStep == BeginFileTool \/ resolve_path \/ file_read \/ file_edit \/ safe_write \/ Fill
ShellStep == BeginShell \/ ShellForks \/ ShellEnds \/ KidEnds \/ Output \/ TimeOut \/ Kill
GitStep == BeginCommit \/ git_add \/ git_commit

Next ==
    \/ FileStep \/ ShellStep \/ GitStep \/ Crash
    \/ \E f \in Tracked : Save(f) \/ Stage(f)

(* A timer runs out, and what can be done next is done.  Nothing is owed   *)
(* by git, whose output is awaited without a timer.                        *)
Fairness ==
    WF_vars(resolve_path \/ file_read \/ file_edit \/ safe_write \/ Fill
              \/ Output \/ TimeOut \/ Kill)

Spec == Init /\ [][Next]_vars

-----------------------------------------------------------------------------
(* Types of the state.                                                     *)
TypeOK ==
    /\ folder \in BOOLEAN /\ disturbed \in BOOLEAN /\ kid \in BOOLEAN
    /\ stage \in Idle \cup {"resolve", "read", "open", "fill", "waits", "terms", "add", "commit"}
    /\ sh \in {"none", "runs", "gone"}
    /\ calls \in 0 .. MaxCalls /\ saves \in 0 .. MaxSaves

Ended(how) == stage = "done" /\ result = how /\ ~disturbed

(* If the user leaves the files alone meanwhile, an edit changes the one   *)
(* place it names and nothing else, and a call that is refused changes no  *)
(* file; what the user had saved before it is what is edited.              *)
EditsAreExact ==
    /\ Ended("written") /\ call.tool = "file_write" =>
           disk = [before.disk EXCEPT ![Target] = <<new>>]
    /\ Ended("written") /\ call.tool = "file_edit" =>
           /\ Unique(before.disk[Target])
           /\ disk = [before.disk EXCEPT ![Target] = Replaced(@)]
    /\ Ended("error") \/ Ended("text") => disk = before.disk

(* A result of a command is complete: after "exit" nothing of the command  *)
(* writes any more, after "timeout" the shell is gone.                     *)
CommandIsOver ==
    stage = "done" =>
        /\ result = "exit" => sh = "gone" /\ ~kid
        /\ result = "timeout" => sh = "gone"

(* A commit holds every file that was named as it was at the add, nothing  *)
(* the user has not staged unless all was asked for, and it is called      *)
(* unnecessary only in a tree without changes.                             *)
CommitsAreExact ==
    /\ Ended("committed") => \A f \in Tracked :
           /\ f \in call.names => head[f] = before.disk[f]
           /\ f \notin call.names /\ (call.names # {} \/ ~call.all) => head[f] = before.index[f]
    /\ Ended("clean") => \A f \in Tracked : disk[f] = before.head[f]

(* A call ends, whatever its command and the user do, unless it is a       *)
(* commit whose git never ends: a hook or a prompt for a passphrase may    *)
(* hold it, and unlike the shell tool it has no timeout.                   *)
RunsGit == stage \in {"add", "commit"}
CallsEnd == []<>~RunsGit => (stage \notin Idle ~> stage \in Idle)
=============================================================================
