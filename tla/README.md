# TLA+ models of anvil

anvil is a coding agent for the terminal: a turn loop that talks to a language
model and runs tools, a daemon that serves prompts over a Unix socket, a file
watcher that starts turns, loops and a harness that start many of them, and a
SQLite store from which a crashed session is resumed. This directory models the
program's own logic, checks it with TLC and proves with TLAPS the invariants TLC
checks, but for those of the parsers and searches.

Paths below are relative to `src/crates/`; `main.rs`, `interactive.rs`,
`commands.rs`, `daemon.rs`, `watcher.rs`, `ralph.rs` are those of `anvil/src`,
`agent.rs`, `session.rs`, `harness.rs` those of `anvil-agent/src`, `tools.rs` and
`executor.rs` those of `anvil-tools/src`.

## 1. Inventory

| part | state | operations | interacts with |
|---|---|---|---|
| Session log (`session.rs`, `agent.rs`) | `Agent.messages`; tables `turn_messages`, `messages` | push + `record_last_message` + `save_message`, `compact`, `resume` | turn loop, crash |
| Turn loop (`agent.rs::turn`) | the message list, grants, model in use and model to restore, spawned reads | prompt, routing, context check, request, stream, reads, permission, execution, recording | permission, event and cancellation channels, session log, tools |
| LLM client (`anvil-llm/src`) | attempts, partial calls | request, retry, read the stream, put calls together | turn loop, HTTP server |
| Permissions (`anvil-tools/src/permission.rs`) | granted tools | `is_always_allowed`, `grant_always` | turn loop |
| Tools (`tools.rs`, `executor.rs`) | files, processes, git index | read, edit, write, shell, add and commit, grep, find, ls | turn loop, the user's own work |
| Daemon (`daemon.rs`, `client.rs`, `ipc.rs`) | task queue (32), a reply channel (64) per prompt, shutdown token, socket and pid file | accept, enqueue, stream with a write timeout, dispatch, signal, status, stop, start, clean up | clients, turn loop, watcher, other daemons |
| Watcher and ledger (`watcher.rs`, `anvil-tools/src/ledger.rs`) | pending batch, debounce clock, recorded times | collect, suppress, fire | kernel events, executor, dispatch loop |
| `anvil watch`, `anvil run` (`main.rs`) | channels, a blocking thread or read | loop of turns, Ctrl+C; one turn, decisions from standard input, output | watcher, turn loop, runtime |
| Ralph loop, autonomous mode (`ralph.rs`, `anvil-agent/src/autonomous.rs`) | iterations, tokens, time | turn, verify, decide | turn loop, verification command |
| Harness (`harness.rs`) | plan, sprint, attempt, saved status, hand-over files | plan, generate, evaluate, retry, cancel, resume | three kinds of agents, files |
| MCP manager (`anvil-mcp/src/manager.rs`) | server processes, request ids, pids | connect, call, time out, restart, shut down, drop | turn loop, child processes |
| Sessions and agents (`session.rs`, `agent.rs`, `interactive.rs`, `commands.rs`, `backend.rs`) | rows of `sessions`; persona, mode, skills, sandbox, sampling, prompt of each agent; a managed model server | start, resume, slash commands, turn ends, `/end`, Ctrl+C, kill | other processes on the same store |
| Configuration (`anvil-config/src`) | `.anvil` folders, profiles | `init`, lookup, model detection, `/model` | start of every command |
| Stores of a workspace (`achievements.rs`, `memory.rs`, `context.rs`, `projects.rs`, `skills.rs`, `repo_map.rs`) | badges, notes, kept outputs, guided projects, skill files, map of sources | add, list, clear, clean, verify, resolve | several prompts, the user |
| Filters (`thinking.rs`, `truncation.rs`, `json_filter.rs`, argument parsers, loop detector) | small parser states | feed, finish | turn loop |
| Rendering, wizard, panes, bundled data, plugins and hooks | - | printing; constants; called by tests only | - |

### What is hard in it, and what makes each part correct

* **Session log.** A message is pushed in memory, appended to `turn_messages` and
  saved to `messages` in three steps, each of which may fail, and the process may
  die between them. A row's number is the *position* of the message in the list, so
  that compaction, auto-included files and a resume, which change the list and not
  the log, disturb the order in which the log is read back. Correct: what was said
  is in the log, and a resume rebuilds the conversation.
* **Turn loop.** Read-only tools run concurrently, the others one by one, each after a
  decision that arrives on a channel not tied to a call. The token may fire at any
  point, every save may fail. Correct: nothing runs without consent; each result
  answers one call of the reply it follows and tells the truth; a completed turn has
  answered everything; what ran is recorded, except what a crash took; a cancelled
  turn ends; the model is restored.
* **Daemon.** One loop owns the agent; all others send to it over bounded channels.
  Correct: a client that does not read cannot stop the others, exit codes and output
  tell how the turn went, an acknowledged stop takes effect; a daemon that serves can
  be reached, one that ended left nothing behind.
* **Watcher.** A file is written and recorded in two steps while the watcher takes the
  events and others write too. Correct: what somebody else changed reaches a turn,
  the ledger hides no more events than there were writes, and Ctrl+C ends the loop.
* **Loops.** Limits are looked at between turns, results read from events, documents
  passed through files between agents that know nothing of each other.
* **Child processes.** A tool server's late answer is read by the next request; a
  command's descendants outlive it; a model server may be somebody else's.
* **Sessions.** Persona, mode, skills, sandbox, environment and prompt are set by many
  commands in any order, and a session by several processes.
* **Files.** Several prompts read once and write whole files; names have seconds.
* **Parsers.** What the model, the planner or the user writes is cut anywhere.

`PROJECT.json` lists these hazards at their lines, with the properties that cover them.

## 2. Modules

Every module says in its head which code it is about; `PROJECT.json` maps each
definition to its lines. The first two columns of the table belong together by
name: an operator has the name of the function or the step it stands for.

| module | models | instantiated by |
|---|---|---|
| `SessionLog` | the list, the log, the messages table, `resume`, `compact` | `MCSessionLog` |
| `AgentTurn` | `Agent::turn`; instantiates `SessionLog` as `Log` on the same variables | `MCAgentTurn`, `MCDaemon` |
| `RunOnce` | `anvil run`: a turn as a task, decisions from standard input, output, end | `Commands` |
| `Foreground` | `anvil watch` and `daemon start --watch`: watcher thread, bridge, loop, Ctrl+C, end of the process | `Commands`, `MCForeground` |
| `Daemon` | task queue, connections, clients, dispatch loop | `MCDaemon` (beside three turns of `AgentTurn`), `Services` |
| `RalphLoop` | `/ralph` and `--autonomous` | `Services` |
| `Harness` | planner, generator, evaluator, saved status, `/harness` commands | `Services` |
| `Mcp` | the manager of tool servers | `Services` |
| `LlmClient` | request, retries, stream, accumulation of calls | `Services` |
| `FileWatch` | watcher, ledger, executor's record, batches | `Workspace` |
| `Sessions` | processes on one session store; agent's persona, mode, skills, model; model server | `Workspace` |
| `DaemonLife` | lives of the daemons of one workspace: socket, pid file, session | `Workspace` |
| `Tools` | a file, shell or git call against the user's own work | `Workspace` |
| `Search` | grep, find, ls and the map of sources | `MCWorkspace` |
| `Badges`, `Memory`, `Overflow`, `Projects`, `Setup` | files of a workspace that several prompts, restarts and the user change | `Workspace` |
| `Thinking`, `Plans`, `Skills`, `Profiles`, `Filters` | parsers and choices, against reference definitions | `MCWorkspace` |
| `Commands`, `Services`, `Workspace` | session log, watching commands and `anvil run`; the five services; watcher, sessions, daemons' lives, tools and stores: compositions whose parts share no state | `MCSessionLog`, `MCServices`, `MCWorkspace` |
| `SessionLog_proof`, `AgentTurn_proof`, `Commands_proof`, `Daemon_proof`, `RalphLoop_proof`, `Harness_proof`, `Services_proof`, `Workspace_proof` | theorems on the modules they are named for and on their parts | TLAPS |

*Parts.* `Commands`, `Services` and `Workspace` put several modules into one specification.
The modules share no state: a constant-like variable `part` chooses one of them in the
initial state, its steps are the module's `Next`, and the others keep an
initial state. The state space is the sum of theirs and not the product. Fairness of a
module must not be enabled in that initial state, or no behaviour of another part would
be fair; where it is (`RunOnce`, whose turn begins at once) it is restricted to its own part.
The MC modules extend them, give the constants values, and let only the part that is
exercised choose among its initial states; `MCWorkspace` adds six parts that read texts, and
`MCDaemon` puts three turns of the agent beside the daemon.
Where two components do interact they are composed in one module: turn and session log
in `AgentTurn`, loop, connections and clients in `Daemon`, watcher, ledger, executor and
loop in `FileWatch`, processes and their store in `Sessions`, client and accumulator in
`LlmClient`.

### SessionLog

`messages` is `Agent.messages`, `turn_messages` the rows of the table in the order of
insertion, `stored` the rows of `messages`. `load_turn_messages` sorts by `seq` and
breaks ties by row id, as the query does. `conversation` is a history variable: what
was said, in order. `cause` collects what has set list and log apart: `"compacted"`,
`"context dropped"` (a resume that lost a context message of auto-included files, pushed
but never recorded), `"append failed"` (a warning in the code), `"legacy"` (a session from
before the turn log, rebuilt from `messages`). `ExactRecovery` says that a resume rebuilds
the conversation while `cause = {}`; what the condition leaves out is where the promise
of the documentation fails (`CompactedRecovery`, refuted). The same holds of a session
resumed twice after a turn with auto-included files, and of one from before the turn log at its
second resume. (`clear_turn_messages` is documented as called on compaction; nothing calls it.)

### AgentTurn

`pc` is the place in `turn`: `top` of the loop, `compact`, `request`, `reads`, `collect`,
`mutate`, `wait` (for a decision), `exec`, `record`, `deny`, `idle`. A call is known by its
turn, round and place in the reply. `perms` is the permission channel, `asked` the question
in front of the user, `given` the decisions, `always` the grants; `model`, `original` and
`begun` are the model in use, the one to restore and the one the turn began with. Each
`Pushed` is push + record + save in one step with their failures (`SaveFails`, `Fault`); a
crash between two of them leaves what one of these failures followed by `Crash` leaves.
`Approver` gives each turn the other end of its channel: `"user"`, `"auto"` (the task that
keeps sending Allow), `"closed"` (every sender dropped), `"silent"` (a sender kept and never
used: the daemon for `anvil send` without `-y`, and `anvil watch`). `UserNext` leaves out the steps of
the middle two, which only `MCDaemon`'s turns have; the run `turn` is of that relation.

### RunOnce and Foreground

The reader of decisions in `anvil run` is not told of the calls: it asks, reads a line and
waits for the one place of the channel. `AnswersInOrder` shows that the *n*-th call still gets
the *n*-th line, `TwoAhead` how far the answers run ahead: the second question is asked before
the first call is known. Its process ends with the turn only if no read is pending: `RunEnds` holds once
the input is closed or with the next line. `Foreground` shows that Ctrl+C ends the loop of a watching command
however full the channels are (`CtrlCIsHeard`), unless a turn waits for a decision that
cannot come (`anvil watch` keeps the sender of `main.rs:995`); that the *process* ends with the
next change of a file (`NextChangeEnds`), and that it does not end before (`CtrlCStops`, refuted).

### Daemon and DaemonLife

`queue` is the task channel, named by who sent: a client, the watcher, the signal handler. `stage`
and `outcome` follow the turn being dispatched (some progress, maybe a question, one last event).
`AwaitsNobody` is the question of a turn started by `anvil send` without `-y`: the loop keeps the
sender for its answer and never uses it (`daemon.rs:209-223`), so that this turn, those queued
behind it and a stop wait until the process is killed; the liveness properties name it as their
exception, and `turn_silent` shows it. `handler[c]` is the connection's task, `reply[c]` its channel
from the loop, `wire[c]` the socket's buffer, `client[c]` the client process, which may be suspended
or die. `DropConnection` is the write timeout; `shed` remembers it. `Return` and `ProcessExits` are
the two halves of the end. `Killed` is a signal without a handler (SIGTERM has none, whatever the
header of `daemon.rs` says). `DaemonLife` has one process per start, each of whose steps on the
socket, the pid file and the session table is an action: two starts that overlap may both serve or
remove each other's files (`overlap` records that; the properties hold without it), a crash never
keeps the next daemon from starting, and the session that `Agent::new` creates before the "already
running" check stays behind as the newest active one.

### RalphLoop, Harness, Mcp, LlmClient

`RalphLoop` gives the verify-fix loop its two callers: `/ralph` awaits the turn and then drains its
events, which hangs when a turn has more events than the channel (64) has places (`Clogged`,
excepted in `LoopEnds`, as is a turn or a verification command that goes on for ever: `Executing`);
`--autonomous` drains meanwhile. The limits are looked at between turns, so that a turn may exceed
the tokens by what it spends (`LimitsBound`, `HardStops`). `Harness` knows documents by the sprint
and attempt they come from; `FeedbackIsCurrent` says that a generator is told of the attempt before
its own, `StatusIsTrue` that `state.toml` says what happened. `Mcp` has an operation in two halves
per request: it is written (`Write`), which takes as long as the server takes to read, for no
timeout is around `write_all` and `flush`, and its answer is read, for 30 seconds at most. It ties
answers to requests by order, as the code does: `AnswersMatch` holds of a server until a timeout, a
discarded line or a notification; these are the `cause`s, and a call's result is kept with the
causes there were when it returned. `strays` are children whose connection failed;
`RegistryIsConnections`, `DropKillsAll` and `KillsAreOwn` are about what `Drop` kills by pid.
`LlmClient` has the reader task, the channel and the agent that assembles pieces by index.

### FileWatch

A file is its modification time, 0 when absent; the clock may stand still between two
changes. A change makes one to `MaxEvents` events, or is merged by the kernel into an equal
last one. `Write` and `Record` are the two halves of a tool call; `RecordNothing` is a shell
command or anything else that writes without recording. `unreviewed` is the history of files
others changed since the last turn on them. `ChangesAreSeen` allows one exception
(`Missable`): a file whose current time was recorded as the agent's own, because
`record_write` reads the time after the tool has returned, so that a change made in between, or
one within the same tick of the clock, is taken for the agent's. A review comes once the files
are at rest (`FilesComeToRest`): each event restarts the debounce, and changes without a pause put
the batch off for ever. The converse promise of the manual, that the agent's
writes start no turns, does not hold: a write makes several events and the entry is consumed by the first.

### Sessions

Each process has its agent (persona, mode, skills, environment, sandbox, model, sampling,
what its prompt says) and the row it works on. `AgentIsConsistent` relates what the agent
derives to what it was told last, in any order of commands, launch profile and resume;
`StatusIsOfUser` a row's status to how its last process ended; `ServerHasOwner` a model
server to the process that stops it; `ResumeRestores` compares a resume with the state at
the last complete turn. The properties state what holds; section 5 lists what their conditions leave out.

### Tools, Search, and the stores

`Tools` has one call at a time in steps (resolve, read, write in two halves, spawn, output, timeout,
kill, add, commit), between which the user saves and descendants of a command live on; a call ends
unless it is in git (`RunsGit`), which is awaited without a timeout. `EditsAreExact` says that an
edit changes its one place and a refused call nothing, `CommandIsOver` what "exit" and "timeout"
mean, `CommitsAreExact` what a commit holds. `Search` walks small trees with the limits of the code.
`Badges`, `Memory` and `Overflow` are read-all/write-all files and names made of seconds; `Setup` is
`anvil init` interrupted anywhere and the lookup of the nearest `.anvil`; `Projects` passes a step
only when its verification succeeds.

### Parsers

`Thinking` runs the filter on every way to split streams of up to three tokens and compares what is
shown with the text between blocks; `Plans`, `Skills`, `Profiles` and `Filters` do the same for plans and
verdicts, skill files and their dependency graphs, profiles by name, output tails, JSON in
text, command arguments and the window of the loop detector. Each compares the program's loop with a
definition that says what the result should be.

## 3. Runs

| run | instance | shows |
|---|---|---|
| `session_log` | 2 kinds of messages, 3 pushes, 2 context messages, `KeepRecent` 1; `anvil run` with 2 calls, 2 typed lines, 2 pieces, channels of 1; watch commands with 3 changes, 2 Ctrl+C, channels of 1 | types, completeness, exact recovery; decisions in order, output whole, commands end as far as they do |
| `compacted_recovery` (violated) | the first of these | the documented promise fails after a compaction |
| `turn` | 1 turn, 2 rounds of up to 2 calls, 1 crash, 1 database failure | results, recording, model, a cancelled turn ends; every step is one of `SessionLog` |
| `turn_silent` (violated) | 1 call, kept sender | a turn waits for ever for a decision |
| `routing_temporary` (violated) | 1 round | a failed request leaves the routed model |
| `daemon` | 2 clients, all requests, 2 events a turn, 1 file change, channels of 1; 3 turns (user, auto, closed), 1 mutating call each | exit codes, output, acknowledged stops; nothing runs without consent, grants carried to a turn nobody answers |
| `services` | daemon with 1 client, all requests, 1 file change, a signal; ralph and autonomous with 3 iterations, channel of 2, 3 events; harness with 2 sprints of 2 attempts, 2 runs; 1 tool server with 2 calls, 1 notification, 2 spawns; a client with 2 requests, 2 retries, channel of 1 | liveness of the daemon; limits, outcomes, statuses, feedback, answers, cleanup; every wait that something bounds ends |
| `hard_stops` (violated) | the loop of these | a turn exceeds the token limit |
| `exit_zero` (violated) | 2 clients | exit code 0 without a completed turn |
| `workspace` | watcher with 2 files, 1 write, 2 changes by others, 1 open, 2 events a change, channel of 1; 2 processes with 2 personas, 2 skills, 2 models; 3 daemons' lives; a tool call on 3 files; 2 prompts on badges and notes; 2 `.anvil` folders; trees of 5 folders; parsers on all inputs of 2 to 5 tokens | agents match what they were told, ends are clean, calls exact, stores keep, texts are read; changes are seen and reviewed |
| `turbo_name` (violated) | the profiles of a workspace | the manual's name is given another profile |
| `ctrl_c_stops` (violated) | watch commands as above | the process outlives Ctrl+C |

*Why the bounds are enough to be interesting.* Three pushes with `KeepRecent = 1` allow a compaction
with messages before and after it; two context messages a resume that drops one and another pushed
later. Two rounds of two calls are the least in which a late decision, a concurrent read and a
second reply meet; one crash and one failure may fall at every step. Three turns pass a grant by the
auto-approver to a turn that nobody answers. Channels of one place are full at once, so that every
wait on a full channel happens; a turn of two events and a last one overfills reply channel and
socket, and three events the channel of two that ralph drains too late. Two sprints of two attempts
give every transition between attempts, sprints and runs; two pids one that is reused. Two processes
and two prompts are the least that disturb each other. Parsers see every input up to a length at
which tags, headings or lines follow each other twice. A session takes three starts, commands and
turns together, four as long as one process is off. The workspace run takes a write of the agent and
two changes by others, or one of these and a file opened. Interchangeable clients are symmetric in
`daemon`, which checks no liveness. `Bounded` is a state constraint of the session log's part only,
about which `session_log` checks no liveness. `CHECK_DEADLOCK FALSE` is used where a part does stop:
commands and parsers end, and the turn of `turn_silent` waits.

*Fairness.* What is fair below is what the code bounds or what is assumed of the world, and these
are told apart. `AgentTurn`: weak fairness of the loop's own step (the runtime polls it), of the
user's answer, of the auto-approver and of finishing reads; that requests and tools end is assumed,
for of all that a turn awaits only shell commands (`tools.rs`) and the answers of tool servers
(`manager.rs:404`) have a timeout; none of prompts, cancellations, crashes. `Daemon`: weak fairness
of the loop, of each connection's task (its write has a timeout) and of clients that are not
suspended; strong fairness of senders that wait for a place in the task channel, because tokio's
semaphore is first come, first served. The turn is assumed to end unless it waits for a decision
(`AwaitsNobody` when nobody can give it); `AgentTurn` shows that for cancelled turns, under the
assumption above. `FileWatch`: weak fairness of the watcher, of the debounce and of the record,
strong fairness of a turn's end and of the loop's taking of a batch, for the same reason; its bounds
bring the files to rest, and the property says so (`FilesComeToRest`). `Foreground`: the same for
its channels; turns end unless they wait. `RunOnce`: its two tasks and main run; none of what the
user types. `RalphLoop`: weak fairness of the loop's own steps, but for the verification command,
and none of the turn: neither has a timeout, and `LoopEnds` is about the runs in which they end.
`Harness`: of its own steps; a turn that hangs, or the command that is run where an evaluation gave
no verdict (`harness.rs:1017`), is a state of its own. `Tools`: of the steps of a call but `git_add`
and `git_commit` (`tools.rs:658`, `:675`: no timeout); `CallsEnd` is about the runs in which git
ends. `Mcp`: of reads, which have a timeout, and of writes that fail because the server is gone;
none of a write to a server that lives (`manager.rs:391-393`, `:428-430`), and `OperationsEnd` is
about the runs in which none of them blocks for ever. `LlmClient`: of the tasks and of a server that
answers or breaks off a request; none of the chunks of a stream, which may go silent for ever (there
is no timeout), so that only a cancelled stream is shown to end.

## 4. Proofs

TLAPS proves, for every value of the constants allowed by the `ASSUME`s of the modules:

* `SessionLog_proof`: `LogInvariant` (the inductive invariant `LogInv`), hence `TypeCorrect`,
  `LogIsComplete` (`NothingLost`), `FreshSeq` (`SeqIsFresh`) and `RecoveryIsExact`
  (`ExactRecovery`). `SeqIsFresh` alone is not inductive: one needs that numbers grow along the log,
  that the rows are the conversation, and that in a list without context messages row *i* is message
  *i* (`Dense`). The lemmas on ranks (`RankBound`, `RankGrows`, `RankOnto`, `LoadInOrder`) show that
  sorting rows whose numbers grow returns them in order.
* `AgentTurn_proof`: `TurnInvariant` (types and what each place of the loop implies),
  `TurnsImplementLog` (every step is a step of `SessionLog` or leaves its variables alone), from
  which `TurnTypeCorrect` and `TurnLogIsComplete` follow by the theorems on `SessionLog`.
  `ConsentIsAsked` (`NoUnapprovedMutation`) by the inductive invariant `ConsentInv`: a question and
  its answer concern the call the turn stands at and die with it, and only answers of AllowAlways
  are grants. `ModelIsRestored` and `LateCalls` (`OneLateCall`) by `LocalInv`: a routed model is in
  use at two places of the loop only, and a count above 0 means that the token has fired and the
  call is behind. `CallsInvariant` (`CallsInv`) separates the calls that wait from those that ran or
  were answered; `ResultsTell` (`ResultsAreTrue`) and `Effects` (`EffectsAreRecorded`) follow, the
  latter with the arithmetic of the unrecorded: each is paid for by a crash or a failed append.
  `ResultsFollow` (`ResultsFollowCalls`) and `CompleteAnswers` (`CompleteIsAnswered`) need the
  order: while a round is open the conversation ends with its reply and a prefix of its results, and
  the calls that wait are the others (`Standing`).
* `Daemon_proof`: `DaemonInvariant` (`DaemonInv`), `DaemonTypeCorrect`, and from it `ExitCodes`
  (`ExitCodeIsTrue`), `Output` (`OutputIsTurn`), `Stops` (`AcknowledgedIsStopping`). None of the
  three is inductive, for each speaks of a client and of a turn that are four hand-overs apart. The
  invariant therefore says of each connection where its task is (handler, queue, loop, done, or
  shed), and that what is printed, on the wire and in the reply channel are the events of its turn
  in order, the last one last (`InOrder`). Each step touches one connection; `AloneKeeps` disposes
  of the others.
* `Commands_proof`: `CommandsInvariant` (`CommandsInv`, of which `RunInv` is the part of `anvil
  run`), `LinesAnswerCalls` (`AnswersInOrder`), `ReaderIsAhead` (`TwoAhead`), `PrintsAll`
  (`OutputIsWhole`), and from them `CommandsStayExact` (`CommandsAreExact`). The reader does not
  know the calls, so the invariant counts: decisions used, waiting and held are together those of
  the lines taken (`Made`, `Taken`), and what has been decided no later line can change (`Settled`).
  `CommandsKeepLog`: the composition implements `SessionLog`, so that the first file's theorems hold
  of it.
* `RalphLoop_proof`: `RalphInvariant` (`RalphInv`), `RalphTypeCorrect`, `LoopIsBounded`
  (`LimitsBound`), `LoopReports` (`OutcomeIsTrue`) and the action property `CancelIsHeard` as
  `LoopHears`. The budget is looked at between turns only: tokens stay below it but for what the
  last turn spent (`Bounds`).
* `Harness_proof`: `HarnessInvariant` (`HarnessInv`), `HarnessTypeCorrect`, `StateFileIsTrue`
  (`StatusIsTrue`, `EndIsRecorded`), `DocumentsAreCurrent` (`FeedbackIsCurrent`), `HarnessIsBounded`
  (`BudgetBound`, `OneLateTurn`). The invariant follows the three nested loops: at each place, what
  is in the files (`Progress`, with a cancel command in between), which documents are there
  (`Feedback`), and the tokens attempts may have cost since the budget was looked at, which is once
  per sprint (`Budget`).
* `Services_proof`: of the manager of tool servers `McpInvariant` (`McpInv`), `McpTypeCorrect`,
  `LinesAreAnswers` (`AnswersMatch`), `CleanupReachesItsOwn` (`CleanupIsExact`). Every live child
  belongs to a connection, to the one being made or to nobody (`Connections`, `Owned`), the registry
  to the connections (`Registry`), and a child without a `cause` has the one request that is written
  in front of it or its answer behind it, and nothing while none is (`InStep`). Of the model client `ServicesPutTogether`
  (`AnswerIsWhole`) by `ClientInv`: the agent has gathered the first *n* chunks of what the model
  said, and what it has not is on its way, in the channel or in the reader's hand, in order and
  before the event that ends the stream (`Flow`). What is gathered of *n* chunks is stated without
  recursion: a piece's place in an argument is its rank among the chunks of that call (`IsListed`),
  and the lemmas say that one more chunk makes the one sequence longer and leaves the others
  (`ListedGrows`). `ServicesAreBounded` (`LimitsBound`), `ServicesReportLoops` (`OutcomeIsTrue`),
  `ServicesRecordRuns` (`StatusIsTrue`), `ServicesFeedBack` (`FeedbackIsCurrent`) carry the theorems
  of the loop and the harness to the composition, by refinement: each part's steps there are its own
  or stutter. `ServicesTypeCorrect` (`ServicesTypeOK`) puts the types together.
* `Workspace_proof`: `WorkspaceInvariant` (`WorkspaceInv`), the conjunction of nine inductive
  invariants that do not know of each other, because a step of one part leaves the variables of the
  others alone (`PartsStep`). From it:
  * `ChangesAreSeen` and `SuppressionIsPaid` (`NoChangeIsSwallowed`, `OneEventPerWrite`) by
    `WatchInv`: ledger entries are recorded times, and the counters run ahead of what they bound.
    `WorkspaceWatches` carries them to the composition.
  * `AgentsMatch` (`AgentMatches`) and half of `EndsStayClean` (`EndsAreClean`) by `SessionInv`.
    `AgentIsConsistent` is kept by each of the functions commands are built from, in any order, and
    the proof is by these functions and not by commands; the row of a session one process uses alone
    (`Solo`) moves with the end of that process; the order of `updated_at` is a permutation of the
    rows (`Placed`).
  * the other half by `LifeInv`. While no two starts or ends overlap, one daemon at most is at work
    on the socket and the pid file, and each place of its life says which of the two exist and whose
    they are (`LifeOrder`); a daemon that has not come to binding owns neither (`LifeFacts`).
  * `CallsStayExact` (`CallsAreExact`) by `ToolInv`: what a call holds of a file is of the tool it
    belongs to (`StageFits`), and as long as the user leaves the files alone each stage says how
    disk and index differ from what they were (`Undisturbed`).
  * `StoresAreKept` (`StoresKeep`) by one invariant per store: a prompt's own list of badges is the
    file but for the one it is about to save, as long as two prompts did not run at once and none
    was killed while saving (`BadgeFacts`); no two files share a name, and a name leads to the
    output it was told for unless it was written twice (`OverflowInv`); every item before the one
    being written is there (`SetupInv`); the steps seen are those below the current one
    (`ProjectInv`); a note's file is empty or one of the kept notes (`MemoryInv`).
  * `StepsStayLawful` (`StepsAreLawful`): four action properties, from the same invariants.
  * `WorkspaceTypeCorrect` (`WorkspaceTypeOK`): the types of all parts.

The assumptions are about constants only, the modules' own (`TurnConstants`, `RunConstants`,
`McpConstants`...): bounds are natural numbers, channels have room for one, names that stand for
"none" differ from the others. TLC evaluates them in every run. The order of work was the same
everywhere: TLC checked the invariant on a run, TLAPS then proved it, and where it was not inductive
the failed step said what to add. Once it said that the model was wrong: a result of `Mcp` used to
look up the `cause` of its process id when the property was evaluated, and an id given to a new
child after a restart had lost the causes of the old one. Three spawned processes are needed to see
that, the run has two; results now keep the causes with them.

And it asked for another form without another meaning: the pieces of a call in `LlmClient`, the
order of rows in `Sessions` and of files in `Memory` and `Overflow` are ranks (how many come
before), since about the folds and sorted sequences that say the same nothing can be proved without
an induction.

Proved are thereby all invariants and action properties of the passing runs except `TextsAreRead`.
It stays with TLC: `Search`, `Skills` and `Thinking` have RECURSIVE operators, and what the loops of
these, of `Plans`, `Profiles` and `Filters` compute of every input is an induction over data, which
none of the provers does. All liveness stays with TLC too (`CallsEnd`, `RunEnds`, `CtrlCIsHeard` and
the others listed in section 3): fairness is about ENABLED, which they do not treat.

## 5. Where code and documentation part

Seven runs refute a sentence of the program, its comments or the manual; `PROJECT.json` quotes each.
Met on the way, and described by the models (or, where marked +, only by this text):

* *Turn.* The routed model of a reply with both kinds of calls is that of the first call
  (`agent.rs:1170`); a tool in execution is not aborted by the token (`agent.rs:893`). A looped
  call still runs; a `loop_detection_limit` above the window of 20 never fires. A tool-choice
  fallback takes any error text with "400" or "422" in it +.
* *Session.* `/end` sets `completed`, and the pause after the loop overwrites it; a resume loses the
  mode when a persona is set; Ctrl+C at the prompt exits without pausing the session or
  stopping the managed server; `wait_for_health` accepts any server on the port; the usage of a resumed
  session is overwritten although `agent.rs:1112` says it survives restarts +.
* *Daemon.* A signal does not end a turn that waits for a decision (`daemon.rs:113`); a stop is
  acknowledged before it happens; frames above 16 MB are written but refused by the reader +.
* *Loops.* The limits that `autonomous.rs:36` calls hard stops are looked at between turns: tokens
  (`hard_stops`) and time overshoot by a turn. In ralph a turn with more events than places hangs, and Ctrl+C during
  verification is lost; a broken stream looks like a cancellation. The harness cuts a plan at `max_sprints` and
  reports it completed; errors by `?` leave the status `running`; the evaluator and the planner have
  all tools allowed although `harness.rs:564-570` says otherwise +; `/harness resume` starts from the beginning.
* *Tool servers.* Ids are never compared; qualified names are split at the first `_` +; a restart whose
  connect fails forgets the server; failed connects leave children running; a server that does not
  read its input holds up a call, which the timeout does not cover (`manager.rs:391`).
* *Model client.* A body that closes early is taken for a normal end and its cut calls are acted
  on; requests and retries do not heed the token.
* *Tools.* Read-only tools create missing parent folders before the boundary is checked; a write empties the
  file before it fills it; a timeout kills the shell and not its descendants
  (`tools.rs:278` speaks of a process group); a commit that fails leaves files staged, one that succeeds takes the
  whole index; grep's limit is per folder; a git hook or a prompt for a passphrase holds up a commit for ever.
* *Stores.* Badges and notes of two prompts overwrite each other; a badge for exploring
  can never be earned, because read-only calls are never pending +; a note that is only `[word]` loses its text.
* *Configuration.* `init_harness` writes `profiles = []` and then `[[profiles]]`, which TOML
  forbids +; a nearer `.anvil` without `config.toml` hides an ancestor's; the shown profile may differ from
  the applied one, since `/model` uses the bundled order and a start the sorted one.
* *Parsers.* Lines like "Results: 5 passed, 1 failed" count as PASS; an unclosed thinking block's tail
  is dropped; an output that fits exactly loses one line more; a bare trailing `--max-iterations` is ignored.
* *`anvil run`.* A line that is not UTF-8 ends the reader and denies the rest; a broken stream exits 0
  with the part that came; an open standard input keeps the process until the next line.

The properties exclude these behaviours by named conditions, never silently: a
condition such as `cause = {}`, `Missable`, `Clogged`, `AwaitsNobody`, `Writing`, `RunsGit`,
`overlap` or `strays` is a part of the formula, with its comment.

## 6. What is left

1. `TextsAreRead` for inputs of any length. The loops of `Filters` and `Plans` are folds over lines
   or words; stated by position, as the assembly of calls in `LlmClient` is, some of them could be
   proved. The filter of thinking blocks and the walks of `Search` need an induction.
2. `DaemonLife` proves nothing of starts that overlap, because what it promises of one daemon fails
   of two; a lock in the code would remove the condition.
3. The abstract specification of the other components. `SessionLog` is one for `AgentTurn` and
   `Commands`; a store that never loses would be one for `Memory` and `Badges`, if the code locked
   its files.

## 7. Not modelled

Rendering, the wizard, terminal panes (`render.rs`, `display.rs`, `prompts.rs`, `zellij.rs`): they
print, ask or call another program and keep no state. Bundled skills, layouts and tool definitions:
constants. Plugins, hooks and the migration of settings: called by tests only. Of modelled parts:
the wording of prompts and requests, TOML and JSON syntax, symbolic links and the sandbox's rules,
skill verification, token estimates and counters, tables that are only written (`tool_calls`), the
framing of messages, wall-clock limits other than as choices. `PROJECT.json` lists every part with
its status.
