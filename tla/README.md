# Formal models of Sandbar

Sandbar is a coding agent in Go: a terminal UI, an agent that runs turns against
a language-model provider, tools that act on the workspace, and an SQLite store
of conversation threads.  This directory holds TLA+ models of its control logic,
the TLC configurations that check them, and theorems checked by TLAPS.
Everything is translated from the code under `src/`; `PROJECT.json` maps each
definition to the lines it stands for.  Paths below are relative to `src/`.

## 1. The system

| Component (code) | State it keeps | Operations | Model |
|---|---|---|---|
| Background jobs (`internal/tools/jobs.go`, `jobs_unix.go`, `shell.go`) | job records, retention timers, closed flag; per job state, stop reason, process | start, list, inspect, cancel, timeout, retention, thread teardown, close | `JobSupervisor`, `JobPool` |
| Conversation turns (`internal/agent/agent.go`, `steering.go`, `sanitize.go`, `tool_loop_guard.go`) | transcript, in-memory view, turn lock, steering queue, loop guard | `Chat`, tool groups, cancellation, steering, healing | `TurnLoop`, `SteeringMailbox` |
| Plan mode and turn control of the UI (`internal/agent/agent.go`, `cmd/sandbar/main.go`) | `threads.plan_mode`; UI toggle, menu, stash, draining flag | plan turns, approve, reject, edit, restart, stash, notify | `PlanMode` |
| Sub-agents (`internal/agent/agent.go`, `internal/tools/delegate.go`, `tropical.go`) | `subagent_tasks` rows, slots, per-turn totals, resume guard | delegate, background delegate, resume, poll | `SubagentTask` |
| Thread store (`internal/memory`) | threads, messages, compressions, todos, metadata in SQLite | append, fork, undo, titles, compression records | `ThreadHistory`; search and memories are not modelled |
| Task lists (`internal/memory/plan.go`, `internal/tools/todo.go`) | one list per thread with revision and next identifier | create, replace, append, update, delete, list, fork | `TodoPlan` |
| Opening the database (`internal/memory/store.go`, `migrations`) | `schema_migrations`, the write lock | migrate, fail, die | `Migrations` |
| Context compression (`internal/agent/compression.go`) | compression records; summary, checkpoint and nudges in a turn's view | measure, summarise, escalate, condense, prune, truncate, reuse, invalidate | records: `ThreadHistory`; sizes: `Compaction`; effect on turns and plans: `TurnLoop`, `PlanMode` |
| File tools (`internal/tools/file.go`, `file_mutation.go`, `patch.go`, `hashline.go`) | per-path lock table, lock files, temporary files | write, append, patch, anchored edit | `FileMutation`, `CasFile` |
| Tool registry, approval (`internal/tools/registry.go`, `approval.go`, `schema_validation.go`, `cmd/sandbar/approval_view.go`) | catalogue, approval configuration, the queue of prompts | validate, decide, ask, execute, batch | `ToolCatalog`, `ToolCalls` |
| Foreground shell (`internal/tools/shell.go`) | active commands, open or closed | start, register, end, interrupt, close | `ToolCalls` |
| Provider clients (`internal/llm`, `internal/agent/retry.go`) and text tool calls (`text_tool_parser.go`) | stream assembly, watchdog timer, attempts, call counter | stream, fall back, retry, parse | `Completion` |
| MCP and start-up (`internal/mcp`, `cmd/sandbar/backend_runtime.go`) | connections, the registry's tools, budgets | connect, list, register, restrict, run, close | `Boot` |
| Configuration, catalog | settings | validate | compression settings in `Compaction`, servers in `Boot`; loading and merging not modelled |
| Output capture, admin commands, persona, skills, presentation, stateless tools, test support | - | sequential or text | not modelled, see section 7 |

How they interact.  The UI starts a goroutine per turn, which calls `Chat`;
turns of one thread take a lock, but the UI's decisions (`ApprovePlan`,
`RejectPlan`), `/compress`, undo and the title goroutine write to the store
beside it.  A turn streams events to its caller through a channel that may stop
being read; each event is paired with a durable write, and either can fail.
Tools run in the turn, in a batch of workers, as background jobs that outlive
the turn, or as sub-agents with goroutines of their own.  The user may cancel,
send further messages, or kill the process at any moment, and the next process
starts from the store alone.

What is hard here: the order of an event and its write, the steps of two
goroutines on one thread, cancellation in the middle of a group of calls,
teardown racing with timers and exits, counters that must come back on every
path, rows and transcripts that a crash leaves half written, and states
(`pending`, `running`) that someone else must eventually end.  The hazards are
listed line by line in `PROJECT.json`.

What makes each component correct, in one sentence:

- jobs: no live command is ever without a record, limits hold, every record goes away, close is complete;
- turns: the transcript always yields a payload the provider accepts, says truthfully what ran, and contains every accepted message once and in order;
- plan mode: one execution directive per approval, for the plan the user saw;
- sub-agents: limits are exact, one resume at a time, an answer that was given is stored, a budget is not exceeded, what a background task ended with is reported;
- thread store: sequence numbers are unique and dense, a fork is a closed copy, undo is not outlived by a compression record;
- task lists: an identifier names one item for good, a revision one list, positions have no holes;
- compression: what goes out fits and is valid, the recent work stays, a turn ends only if it must;
- file tools: a call replaces exactly the content it was computed from, or nothing;
- approval: no tool runs without the decision its policy asks for, nothing runs after a cancellation;
- provider: an answer is what one response said, rejections are respected, a completion ends;
- start-up: migrations run once, a start comes to an end, what was opened is closed.

## 2. Modules

Each component is one module with one action per critical section, durable
write, event or timer.  `MC*` modules instantiate a component for TLC;
`PlanMode`, whose constants are numbers and sets of names, needs none.

**JobSupervisor** (`internal/tools/jobs.go`).  `jobs`, `timers`, `closed`,
`closeDone` are the supervisor's fields under its mutex; `state`, `stopReason`,
`finishedAt` the job's own; `proc` is the OS process; `watch`, `grace`,
`reapers`, `onDone` are the goroutines and callbacks in flight: the timeout
monitor, the escalation to SIGKILL, fired retention timers, completed jobs that
have not yet run `jobDone`.  `CancelThread` and `finishClose` are workers with a
program counter, since both take a list under the mutex and then stop and await
its jobs outside it.  The environment decides when a process exits and which
signals it obeys (`Command`: plain, setuid, or with a child that escaped the
process group).  The unix build is modelled; reuse of process ids, the content
of output and the workspace half of the owner key are left out; time is the
order of finishing plus "older than the retention", so the clock is assumed not
to run backwards.

**JobPool** is what the supervisor promises: a bounded pool whose jobs are live,
then kept, then gone, and that is down only when empty.  `JobSupervisor`
instantiates it with a refinement mapping; `ImplementsPool` is both a property
of a run and a theorem.

**TurnLoop** (`Agent.Chat` and what it calls).  `log` is the durable transcript,
`view` the messages of the running turn from which the payload is made.  `pc`
walks through a turn; one action is one durable write together with the event
that goes with it.  `Sanitize` and `TrailingUnanswered` translate the repair
functions of `sanitize.go`; `Among` is their loop that takes each wanted call once.
`Cancel`, `Enqueue`, `Crash` and
`CompressReads`/`CompressSeals` happen beside the turn.  `SinkFails` is the backend's
`send`, a `select` over the channel and the turn's context: once the turn is cancelled an
event may fail, whatever else works, and whoever sends it returns at once.  History
variables record which calls really ran, which messages were accepted and which of them
a failed drain never came to (`cut`).  A completion is
one step that answers, asks for a group of tools, or fails: retries and
streaming are in `Completion`.  The healing writes of
`buildMessages` at the beginning of a turn are one step.

**SteeringMailbox** is the abstract mailbox the steering queue implements: first in,
first out, nothing twice, and a loss of the messages next in line only while the turn is
cancelled or something fails.

**PlanMode** (`Chat`, `buildMessages`, `completePlanTurn`, `ApprovePlan`,
`RejectPlan`, and the event loop of `cmd/sandbar/main.go` as far as it starts,
interrupts and ends turns).  A turn reads `plan_mode` twice (`TakeLock`,
`ReadThread`) and writes it up to three times (`MarkTurn`, `BuildPayload`,
`Complete`), each a step of its own.  `Approve` and `RecordApproval` are the
read and the write of `ApprovePlan`.  The error of a write is ignored in
`BuildPayload`, `Complete` and `Reject` (`TryWrite`): the state stays what it was.

**SubagentTask** (`SpawnSubagent`, `ResumeSubagent`, the delegation tools, the
tropical limiter, the poller).  A run is one call of either tool together with
the goroutine it starts; a task is a row.  What a run does is its `pc`; what the
parent has been told is `told`; `dead` are the runs whose context is done.
A background call's start event is `announced` until the interface takes it
(`Register`) and begins to poll the row, or drops it with the turn (`Cancel`);
`report` is what it then says of the task.  There is one `Old` task left by an earlier
process.  Every turn is taken to be in
tropical mode, the only one with limits.  A provider call is one step.

**ThreadHistory** (`internal/memory/thread.go` and `compression.go`, and
`buildMessages`, `compressIfNeeded`, `CompressNow` of `internal/agent`).  `rows`
are the messages of one thread, `records` its compression records.  Two readers
build views from them and have views summarised: the turn and `/compress`, each
with its `pc`, the `record` it read, its `view` and the `batch` being summarised.
A view is a sequence of the task list, a summary, messages, a checkpoint and a
nudge; of a digest the model keeps the messages it tells of (`covers`).
`Boundary` translates `alignCompressionBoundary`, which works on the raw messages,
where a checkpoint is merged into the user's message before it (`Merged`, `Raw`), while
the cut is made in the list where it counts (`KeptFrom`); `Trim` is the fallback
`truncateIndexedToBudget`, `Condense` the checkpoint of `compressActiveTurn`;
since tokens are not counted here, every batch, cut and checkpoint the budgets
could ask for is allowed (`Compaction` counts them).  `UndoReads`, `UndoDeletes`, `UndoInvalidates` are the three
statements of `/undo`, which the UI runs without the turn lock and without
another command in between.  `ForkThread` changes nothing of the thread, so it is
an operator (`Copy`, `ForkRefused`) and not an action.  A group has one call;
groups of several are in `TurnLoop`.  For the properties a record says whether
all it replaced is told (`whole`), whether an undo took its first message or
may have (`late`), and whether a merged checkpoint shifted the cut, so that something
told may be kept as well (`again`).

**Compaction** (`compressIfNeeded`, `compressActiveTurn` and what they call, and
the command `--summarize-context`).  Where `ThreadHistory` has the records, this
module has the sizes: a message is its role, kind and tokens.  `view` is
`indexedMsgs`; a pass starts in `starting` or `between`, may wait for the
summarizer (`asking`, `retrying`, with `asked` saying what for) and ends in
`Report`.  `Truncated`, `PruneOld`, `Prefix`, `Protected`, `BatchEnd`, `Floor` and
the budgets are translated as operators on sequences.  Tokens of a sequence are
the sum of those of its messages (the code counts a few more per payload), ratios
are percentages, a tool output is long from 500 tokens on (2000 characters) and
520 when cut, a group has one call, and the agent's nudge may come after any
group, once.

**FileMutation** (`file_write`, `file_append`, `file_patch` and `mutateFile`).  A
call reads (`FileRead`), resolves its path, takes an entry of its process's lock
table, the mutex and the lock file, checks the digest, writes a temporary file,
checks again and renames; each is a step, and a cancellation, a failing disk, a
crash or an editor may come between any two.  There is one file under two names.
**CasFile** is what it implements: a register that a call changes from the content
it was computed from, or not at all; only what an editor without the lock writes
between the last check and the rename can be lost.

**ToolCatalog** is the pure part of the registry: which tools there are, their
tiers (some by argument), schemas, validation and preparation of arguments, the
plan-mode and sub-agent restrictions, the policy decision.  The validator's recursion
is unrolled as deep as the schemas nest.  **ToolCalls** is a session around it: the
batch workers, the decision, the prompt queue of the UI, the reply channel, keys,
interrupts, quitting, `executeSync` and the closing of the shell.  `ran` records
what crossed into a tool, `yes` which call the user was looking at when he agreed.
A sub-agent runs its commands (`kids`) in a shell of its own: one that a call waits for
ends with the turn's context, one in the background (`detached`) with neither the turn
nor the session.

**Completion** (`internal/llm`, `retry.go`, `text_tool_parser.go`, and what `Chat`
makes of a result).  A response is a sequence of deltas; the provider delivers,
refuses, falls silent or breaks off, and the client assembles, falls back from a
stream, retries with the schedules of `retry.go`, and gives up.  An atom of text is
a character, a half of a think tag or a whole embedded call.  `log` is the sequence
of requests, waits and refusals; it begins again with each wait.

**TodoPlan** (`plan.go`, `todo.go`).  Every write of a list is one transaction, so
one step.  Watched actors keep the last list they were shown and use its
identifiers later.  Imports of whole lists bring identifiers of their own.

**Migrations** is the part of opening the database that all programs share;
**Boot** extends it with the start and the stop of one program, up to several MCP
servers, settings, the allowlist, and a rival program on the same database.  A timer
may end a wait for any server still awaited.  `order` and `tools` are the registry's
two fields: a name that comes again replaces the tool and keeps its place (`Kept` is
the loop of `RestrictTo`).

## 3. Runs

| Run | Asks | Bounds |
|---|---|---|
| `JobSupervisor_jobs` | no orphan, reaping, completeness and end of close, outcome vs. stop reason, refinement of `JobPool` | 2 jobs, one that refuses signals; configurations with zero, inverted and tight limits |
| `TurnLoop_turns` | steering is a mailbox and delivers, or loses only the rest of a batch that was cut | 2 chats, 3 groups of one call, 3 messages, queue of 2, warning at 2 and abort at 3, cancellation anywhere |
| `TurnLoop_faults` | groups are cut in one place, payload valid, view equals log | 2 chats, 2 groups of 2 calls, sequential or concurrent; crash, failing store, deaf caller, concurrent `/compress` |
| `PlanMode_turns` | one directive per approval, freshness of plan and approval, approval is kept | 4 turns, 1 stashed message, 2 toggles, notifications, `/compress`, restarts, failing writes of the state |
| `SubagentTask_runs` | exact limits, one resume, answers stored, background results reported | scripts of two calls: two in the background, one resumed, two resumes of an old task; inserts and updates that fail, crashes |
| `ThreadHistory_undo` | records stand before a stored message and tell of what is before it, no step takes the last user message from the view, forks are closed | 2 records; 4 messages with undo and `/compress` beside turns, 5 with undo and 4 with `/compress` beside turns that truncate and are nudged, 8 with checkpoints alone; titles in a scene of their own, since they touch nothing else |
| `Compaction_budget` | what goes out fits and is valid, a pass reports how it ended and its calls, recent work is kept, a turn ends only if it must | 3 tool groups of three sizes after up to one earlier turn, user messages and summaries of small and large size, windows on both sides of 65536 tokens, an explicit tail, compression off, a provider that repeats ids |
| `FileMutation_files` | lock table and temporary files exact, the file is a compare-and-swap register; no deadlock | 3 calls of 2 processes by two names, one edit from outside, one kind of fault at a time |
| `ToolCalls_session` | only what was allowed runs, nothing after a cancellation, no stale prompt, no unreachable command, cancelled turns end | 2 turns, batches of one to three calls, 2 workers, three policies, sub-agents in the foreground and background, one command of each at a time |
| `Completion_answers` | answers exact, rejections respected, turns alternate, completions end | 2 completions over five transports, seven responses, 1 and 2 retries; histories of up to three messages |
| `TodoPlan_lists` | fresh identifiers, revisions and positions agree | 2 threads, 2 actors, 4 writes, lists of 3, largest identifier 5 |
| `Boot_starts` | nothing leaks, tools are served, migrations once, the start ends | 2 servers of four kinds each, 2 programs, 2 migrations of which one must not run twice |

More configurations lie beside them, to be run by hand.  `JobSupervisor_live` asks
that records are forgotten and stopped jobs end.  `Bounded` and `FirstStopWins` of the
supervisor, `LoopsStop` and `Sealed` of `TurnLoop` (the latter: a turn that ended left no group
without its results), `RunningIsAlive` and `CompletedStays` of `SubagentTask` hold when
they are added to the runs of their modules.  The rest find the violations of section 6,
each on the smallest instance that shows it.

Why the bounds are enough.  Jobs interact only through the limits, the eviction
order and shared teardown lists; two jobs of two owners meet all three, and the
configurations put the limits below, at and above two.  The properties of a
transcript concern one group and its neighbours: two groups of two calls give a
group before, inside and after a fault, and four groups exceed the loop limits.
A message queue of two is full, empty, drained of a batch of two and refilled by a
third message.  Plan states pass from one turn to the next, so a plan turn, the turn that executes it and two
that overlap them cover the chains; toggles are needed to go to plan mode and
back.  Two sub-agent calls are two runs of one task or one of each of two tasks,
the cases the guard and the limiter tell apart.  A history of four messages has a
group, a user message before and one after it, is cut, and grows over the cut
again; two records supersede each other.  A boundary behind a merged checkpoint takes two
groups and two messages sent meanwhile, which are seven.  Three sizes of output, two of a
user's message and three of a summary are below the floor, between floor and target,
and over the budget, alone or together with a group; three groups make a batch, a
protected group and one more.  Three calls of two processes give a waiter of the
same table, one of the lock file only, and a third that finds an entry going away.
A batch of three calls with two workers has one that waits for a worker; a session
of two turns has a prompt of the first when the second begins.  Responses cover each
way a think tag and an out-of-order call can be cut.  Five identifiers are enough to
use up all of them.  Two servers are one that fails and the one listed after it.
`CHECK_DEADLOCK FALSE` stands where the bounds on turns, chats, calls, writes or
messages, or a session that has ended, let the model stop.

Preconditions in the properties are there for a reason each.  `Sound` excludes
tasks whose run ended without writing its row, or was started while another run
of it was alive: both happen (section 6) and make the row meaningless.
`BackgroundReported` excepts a run that left no row with its outcome (`Unwritten`), a
start event that went with its turn (`unheard`), the hour after which the poller gives up
(`timeout`, which nothing obliges to come and nothing prevents) and the end of the
process; the program has all four, and keeps no note of a background task elsewhere.
`during` in `ApprovalIsFresh` and `ApprovalKept` are the turns that were alive as the
approval was given: they read the state before it and may write over it.  `unclear` are
the turns the store did not let take the approval back, each of which leaves it for one
more directive.
`meddled` and `lost` in `TurnLoop` exclude groups `/compress` wrote into and
groups a crash cut; `cut` in `SteeringDelivered` are the messages behind one whose event
failed in a cancelled turn.  `late` in `SummaryAnchored` excludes a record whose boundary
an undo may have taken while it was made, or that a crash kept from being
dropped; `whole` asks for completeness only of summaries that replaced none that
told of more and were made of a view nothing was dropped from; `again` are the records
whose cut a merged checkpoint shifted, and those that replace them, which tell of some
messages that are shown as well.
`LatestUserKept` excepts a summary that goes up to a nudge, which
`alignCompressionBoundary` takes for the user's message, and asks nothing more of a
turn that was left so.  `RecentWorkKept` leaves
out views whose last message in the user's role is not the user's, and `dropped` the
calls of an escalation that came to nothing.  `raced` in `CasFile` allows for an
editor between check and rename.  `AnswerExact` asks nothing of what was shown before
a fall back from a live stream.  `NothingLeaks` excepts the late failures of a start,
after which the process exits without closing anything, and says nothing of jobs:
`localRuntime.close` gives them three seconds and passes over the error, so one that
refused its signal, or whose `termination_grace` is longer, outlives the program
(`cmd/sandbar/backend_runtime.go:225`; what the supervisor does about them is
`JobSupervisor`'s).  `CompletionEnds` excepts the
bodies read without a deadline.  What these exclude is in section 6.

Fairness.  `JobSupervisor` has weak fairness of its goroutines and timers only:
no command has to end by itself, no user has to act.  `CloseEnds` is checked for
commands that obey SIGKILL; one that does not keeps `closeDone` open for ever,
by design.  `TurnLoop` and `SubagentTask` have weak fairness of "some goroutine
steps": provider calls return because the stream has an idle watchdog, tools
return or are cancelled, and runs are finite; the poller reads on, and its deadline may
pass or not.  `PlanMode` is fair to turns and
to the event loop, never to the user.  `ToolCalls` is fair to each call, to commands
that were told to stop (SIGKILL follows the interrupt; a command that cannot be signalled
at all, `jobs.go:457`, keeps its call and so `CancelledTurnEnds` waiting, and is left out),
to the end of the turn and to the event loop's pump, not to keys or sub-agents.  `Completion` is fair to the client and its
timers; the provider owes nothing.  `Boot` is fair to the start: code that can go on
does, and timers fire.

## 4. Proofs

Eight modules prove theorems of the specifications, for every value of the constants
that satisfies the assumptions named in the module (TLC evaluates them on each run).
The assumptions say that sets of jobs, calls and tools are finite, that limits which
the code defaults to positive numbers are positive, that lists are lists,
that a configuration that was installed has valid policies, that a response is a sequence
of the kinds of deltas there are, and that a history is a sequence.

| Module | States of a run, proved | Beyond the runs |
|---|---|---|
| `JobSupervisorProofs` | `NoOrphan`, `FinishedIsReaped`, `CloseIsComplete`, `OutcomeMatchesStop`, `ImplementsPool` | `TypeOK`, `Bounded` |
| `TurnLoopProofs` | `PayloadValid`, `ViewMatchesLog`, `CutInOnePlace`, `ImplementsMailbox` | `TypeOK`, `SanitizeValid` |
| `PlanModeProofs` | `OneDirective`, `DecisionIsFresh`, `ApprovalKept` | |
| `SubagentTaskProofs` | `OneResume`, `LimitsHold`, `AnswerIsStored` | `RunningIsAlive`, `CompletedStays` |
| `ThreadHistoryProofs` | `SummaryAnchored`, `LatestUserKept`, `ForkWorks` | |
| `StoreProofs` (`Boot`, `Migrations`, `TodoPlan`) | `MigratedOnce`, `NothingLeaks`, `ToolsServed`, `ListsConsistent`, `FreshIds` | |
| `ToolProofs` (`ToolCalls`, `FileMutation`) | `RunsAuthorised`, `NoRevival`, `ModalIsLive`, `CommandsReachable`, `LocksAndTempsExact`, `ImplementsFile` | `TurnsApart` |
| `ModelProofs` (`Completion`, `Compaction`) | `RejectionRespected`, `TurnsAlternate`, `PassSound` | |

Each argument goes by one inductive invariant, given here with the reason for its parts.

**Jobs.**  `NoOrphan` is not inductive: a retention timer removes what it was armed
for, `Kept` removes what has expired, and `FinishClose` removes everything, so each must
be known to be finished.  `Reachable` adds that expired jobs and jobs with a callback in
flight are finished (`AgedFinished`), that a record stands for a started job
(`RetainedStarted`), and that when closing, every job is either in the list
`finishClose` awaits or finished (`Teardown`: none can start once closed).  On top of it
each step that ends a job leaves a callback, each callback a timer, each timer a reaper;
the stop reason of a finished job does not change and its state was computed from it.
`Bounded` needs cardinalities: only `Start` adds a record or a running job, and only
below the limits; `SetConfig` changes limits only when nothing is kept.  Each action maps
to an action of `JobPool` or to a stutter.

**Turns.**  `SanitizeValid` is about the function alone: whatever sequence of entries a
store holds, reachable or not, `Sanitize` makes a valid payload of it.  The repair is a
loop over the entries, and its output after `k` of them is either closed (`Fine`) or
within one group of which the results so far are those it gathered (`Midway`); that
the group is then completed to exactly its `GroupSize` distinct calls counts the calls
answered, found later and made up (`Completed`).  `PayloadValid` follows for every mix
of faults.  `MailboxImplemented`: `RawHeld` says that a batch taken from the queue is
held only within the step of a turn that writes it, so the delivered messages with the
batch and the queue are the mailbox, and what a failed write or event drops is the rest of
the batch, the first of what is on its way.  It assumes only that the process lives.
`CutInOnePlace` holds for every mix of faults.  `CutInv` follows the group at work: groups
are numbered as they come (`Numbered`), its results are of calls before the next one and
none is made up before it is left (`Recorded`), a sequential group has started the next
call at most, and none from the cut on once that is recorded (`Begun`); and since a turn
reads a thread that ends with the user's message, the repair at its beginning adds nothing
to an older group (`NoneOpen`).
`ViewMatchesLog` compares two repaired sequences, and equality of what a repair gives is
not inductive: the next entry may be one of the two repairs keeps and the other drops.
What is kept of a transcript `s` apart from the results made up at its end is `Stem(s)`,
and what may follow depends on the group that is open there (`Top`) and the calls of it
that are unanswered (`Left`).  Two transcripts are `Alike` when these three agree, apart
from groups `/compress` wrote into.  Then their repairs agree, and stay so whatever is
appended to both (`AlikeBuilt` begins a turn); `ViewInv` says that a working turn's view
is alike the log.

**Plan mode.**  A turn reads the approval in one step and clears it in a later one, with
decisions between them; so an approved state and a turn that read one are counted as one
claim, and the directives sent with the claim are at most the approvals with the clearings
the store refused (`ClaimIsCovered`).  That is sound because only the holder of the turn
lock can be that turn (`LockHeld`).  `FreshInv` follows the plan from the payload that asked
for it to the decision.  The turn whose payload was built last is the only one that can be
past that point (`AskedLast`).  What is pending is the plan it ended with, and no other turn
has come further than loading the thread (`PendingLast`); while an approval is being
written, no turn starts (`DecidingLast`); and under one, a turn that was not alive as it
was given has loaded it and leads to the directive, or had it and could not take the
approval back (`ApprovedLast`).

**Sub-agents.**  `GuardInv`: `resuming` has the task of every run between its guard and
the end of its goroutine, and no two such runs have the same task.  `RunInv` adds a
description of each place a run can be in (`Life`), counts the holders of slots
(`Holders`), and says of each row that it is unknown to all, idle, worked on by the one
run that is alive, or ended (`RowOf`); `asked` counts the provider calls for a task over
all its runs, and is bounded by the cap and one fresh budget per resume that got one
(`Bound`).

**History.**  `HistoryInv` follows what a reader holds.  `RowsInv`: messages are numbered
without gaps, and no id is given twice, though numbers are.  `CutInv`: an undo that ran
while a reader worked is known to it as `cut`, below which everything it holds is still
stored.  `ViewsInv`: below `cut`, the messages of a view are stored ones in their order
(`RowsFit`), and what stands before each of them tells of nothing but what was stored
before it and, unless something was dropped, of all of that (`TellsFit`); the task list
and the summary lead (`Leading`), a checkpoint stands right behind the last of the user's
messages (`Marked`), and so is merged into it and passes for no other, and the batch being
summarised ends before the message `alignCompressionBoundary` must not pass
(`BatchStops`).  Items stand no further back among the raw messages than in the view
(`RawIs`), so of what was summarised some is kept at most, and nothing behind it lost.
All that a compression does to a view, to summarise a batch, trim groups or put a
checkpoint in the place of a stretch, is one relation (`Derived`), which knows whether
anything was dropped and whether anything is told twice, and under which both are kept
(`DerivedRows`, `DerivedTells`), and so are they when a message is stored behind all (`StoredFits`) or an
undo cuts (`CutFits`).  From these, a record made of a view is `Anchored` (`RecordsInv`),
and stays so until an undo cuts at or before its boundary; a reader that has read a record
and not the messages yet holds one that is anchored or about to be found useless
(`FetchInv`).  `ForkWorks` needs that a result is behind its call, or that an undo took
the call whose id is not given again (`ResultsFit`), and that the group a turn executes is
still so (`CallAwaited`).  `LatestUserKept` begins with a user's message that is the
last of the thread until the turn has read it (`TurnBegins`), so reading shows it; a
summary stops before it, truncation drops the group of the last user message after all
others, escalation condenses behind it.  The exception in its statement is needed, and its
second disjunct too: once a summary that goes up to a nudge stands for the message,
truncation may drop that, and the turn goes on without any trace of what it was asked
(section 6).

**Files.**  `TableInv`: an entry of the lock table is the one that some waiting or
holding call of its process made, all calls on its path use it, and its count is their
number (`EntryShown`, `EntryOfMaker`, `RefsExact`); the counts move by one at a time, so
only the last to leave deletes the entry.  For the register, `LockHeld` and
`StillExpected` say that a call with the lock file whose check passed replaces what it
was computed from, unless an editor without the lock wrote in between, and `WorkAsked`
that what it puts there is the `Transform` of that.

**Task lists.**  `ListOK`: a list belongs to a live thread, the store admits its items,
their positions are `1 .. n`, none was created after the revision, and every identifier
ever given is below `next`.  Each write makes such a list, of the next revision, in which
what is new has a number not yet given out (`WellMade`); that compaction after a deletion
does so uses the rank of an item among those left (`RankExists`).  What an actor was shown
is of this life of the list or an earlier one (`ViewsPast`), of no later revision, and if
of the present one, it is what the list has (`SnapshotsAgree`).

**Start-up.**  `MigratedOnce` says nothing of a program on its way, so
`StoreInv` adds that the lock is that of the one program within a migration
(`Exclusive`), that what is recorded was run, in order (`InOrder`), that a
migration that cannot be repeated was run exactly if it is recorded
(`RunIsRecorded`), and that each program has seen to all before its next one and
what it read under the lock still holds (`Progress`).  `BootInv`: from the end of
connecting on every connection that is up is the Manager's (`Accounted`), and a program
that has ended has no database.
`ToolsInv`: what is advertised is what the registry has (`Advertised`), a tool of a
server has a connection that is up behind it (`Backed`), and the servers listed so far
have theirs registered (`Complete`).

**Tool calls.**  `SessionInv` has one part for each hand-over.  `Decided`: a call on its
way to the tool keeps the verdict it got when it was dispatched, and a yes in a reply
channel is the user's to that call; `NotRefused` and `RuleIs` read from a verdict what the
configuration's rules say, also below a delegation, where the mode is yolo and prompts
are allowed but denials stand (`SubagentAuthorised`).  `Held`: the loop drains with a
prompt up only when it will quit.  `CommandsReachable`, in its two parts `OwnReachable`
and `KidsWaitedFor`, is inductive with the types.
`TurnAlive`: a turn whose goroutine lives is streamed from and has sent no terminal item;
one whose goroutine has ended has no call on its way and no process.  So the state that
a new turn resets is of a turn that is over (`TurnsApart`), which the model relies on
when it keeps the calls of one turn only.

**Completions.**  `LogInv`: the log of an attempt has nothing behind a rejection, and
behind a 429 only a wait (`Heeded`); while a request is open the log may be continued
(`Open`), and only the first request of an attempt, which knows that it is (`second`),
may be followed by another, so there are two at most.  A wait happens
only for an error whose schedule has a retry left, which bounds the attempts.
`TurnsAlternate` is about a fold over a history: `PushEncodes` says that one message
more keeps the turns alternating and adds the message to the end of what they say,
`TurnsEncode` takes that through the rounds of the loop, and `PreambleEncodes` puts the
turn before them that makes the first one the user's, after which the parity of a place
decides its role (`Alternates`).

**Compression.**  That what is sent fits is checked at the end of each pass, so the work
is in what it checks: `Headed` follows the system prompt through pruning, truncation,
the minimal payload, a summary in the place of the earlier messages and a checkpoint in
the place of the earlier work (`PruneOldHeaded`, `TruncatedHeaded`, `WithPrefixSound`,
`WithCheckpointSound`), each of which cuts the view at places that folds over its
groups determine (`WorkBegins`, `BatchEndIs`).  A result is `Sound` if it is headed and,
unless it ends the turn, fits and, unless only pruned, is valid; each way a pass may end
gives one.  `PassInv` adds that a checkpoint is asked for only where there is work to
put into it, which is what makes the cut one inside the view.

One fact about strings stands as an assumption (`StringFact` of `FileMutation`): two
literals are members of `STRING`, which the provers do not derive.
Loops are recursive functions on numbers, and what a loop computes is shown in set
form: `UpTo` says that a set of numbers that contains 0 and is closed under successor
below `n` contains all of `0 .. n` (by a least counterexample, from the library's
well-foundedness of finite sets under inclusion), and is instantiated with the set of
the rounds for which the claim holds.

Only model-checked, with the reason:

- all liveness: `CloseEnds`, `SteeringDelivered`, `BackgroundReported`, `CompletionEnds`,
  `CancelledTurnEnds`, `BootEnds`, and those of `JobSupervisor_live`;
- `AnswerExact` of `Completion`: what is assembled is a fold over the deltas of a
  response, with tags that hold text back and parts that are joined by index, and what
  it is compared with reads the whole response in another way;
- `RecentWorkKept` of `Compaction`: it compares sums of tokens over parts of the view
  before and after cuts, and a sum is a fold of the same kind;
- that the operators of `ToolCatalog` accept the calls they should: the proofs take a
  call's conformance as it is.

## 5. Plan

Done: the jobs, the turn, plan mode, sub-agents, history and compression, files,
tools and approval, completions, task lists, start-up.  To come, in order of
importance:

1. Proofs within the modules that have some: `Sealed`, `FirstStopWins`.
   For `Compaction`, lemmas about sums of tokens over a view and its parts, from which
   `RecentWorkKept` would follow.
2. One composition of `TurnLoop` with `Completion`, so that a turn is cut where a
   stream is, and an abstract specification of the thread: a list to which entries
   are appended and from whose end they are cut.
3. The rest of the UI's event loop: commands that switch threads while a turn
   streams, the task panel, the sub-agent display; the one-shot mode.
4. Algorithms over bounded inputs against reference definitions: the bounded
   capture, configuration merging, mentions.

## 6. Where code and comments disagree

Each of these configurations checks one property that a comment or a document
states, and TLC finds it violated:

| Configuration (module) | Property | What the code does |
|---|---|---|
| `TurnLoop_compress` (`MCTurnLoop`) | `OutputIsShown` | `/compress` seals the group a turn is just executing, without the turn lock (`internal/agent/compression.go:559`) |
| `PlanMode_stranded` (`PlanMode`) | `StashIsSent` | stashed messages are not sent when a turn ends in an error (`cmd/sandbar/main.go:860`) |
| `SubagentTask_cut` (`MCSubagentTask`) | `NotLeftRunning` | a cancelled sub-agent can end without writing its row (`internal/agent/agent.go:474`) |
| `ThreadHistory_forgotten` (`MCThreadHistory`) | `SummaryIsComplete` | after a summary failed, the turn goes on with a truncated view, and a later compression of it records a summary that tells nothing of the messages dropped; no later turn sees them (`internal/agent/compression.go:785`) |
| `ThreadHistory_again` (`MCThreadHistory`) | `SummaryIsComplete` | the boundary is found among the raw messages, where a checkpoint is merged into the user's message, and used as a place in the list where it is not: with two messages sent behind a checkpoint, what is kept (the "remaining messages after compressed span") begins with a message the summary already tells of (`internal/agent/compression.go:719`, `:800`) |
| `ThreadHistory_rename` (`MCThreadHistory`) | `RenameKept` | the generated title overwrites the user's, and `/title` does nothing once there is one (`internal/agent/agent.go:1661`) |
| `FileMutation_anchors` (`MCFileMutation`) | `AnchorsSelect` | of equal lines an anchor means the last, so an edit between two anchors may replace lines the model never named (`internal/tools/hashline.go:108`) |
| `Completion_shown` (`MCCompletion`) | `AnswerShown` | an answer that came by the fallback request of a live stream counts as streamed: it is stored and never shown (`internal/agent/agent.go:830`) |
| `Completion_ids` (`MCCompletion`) | `TextIdsUnique` | the counter of calls found in text begins at zero with each process, so their ids collide with stored ones (`internal/agent/text_tool_parser.go:505`) |
| `Boot_hung` (`MCBoot`) | `ServersAreIsolated` | the end of the common budget is taken for a cancellation: one hung server without a timeout closes the others and fails the start (`internal/mcp/mcp.go:204`) |
| `Compaction_floor` (`MCCompaction`) | `WorkNeverLost` | a nudge passes for the user's message: outputs of the running turn are pruned as old, and the user's own message may be summarised away (`internal/agent/compression.go:1516`, `:437`) |

Seen while modelling, in the models or beside them, without a run: a call whose
result event or write failed, for which a cancellation during the call is enough, is sealed
as "not completed because the agent turn was interrupted" (`internal/agent/sanitize.go:11`),
though it ran and its effects stand (`internal/agent/agent.go:938`; the comment at `:963`
has every started call of a cancelled turn receive its result); the plan menu
opens before, or without, a pending plan (`cmd/sandbar/main.go:851`);
a summary (`/compress` when only the task list stands before it) passes for the
last user message, so a record supersedes one that told of more, and a nudge lets the
turn's own message be summarised, and a later truncation drops the summary that told of
it (`internal/agent/compression.go:437`, `:1634`); with one message sent behind a
checkpoint, the place the cut is shifted to is the result of a call that was summarised,
so the payload is refused and the escalation, its summary already paid for, is in vain
(`:719`, `:830`); the nudge counts towards the recent work that is required, and not
towards what is left of it, so a turn stops though nothing was lost (`:1159`, `:1103`; `StopsForCause` of `Compaction`
is violated when it takes the place of `WorkNeverLost` in `Compaction_floor.cfg`);
`/compress` racing `/undo`, or
a crash between the two statements of an undo, leaves a record whose boundary
number is used again, by which the undone messages come back and new ones are
hidden (`internal/memory/thread.go:596`); a result stored after `/undo` took its
call makes every later fork fail (`internal/memory/thread.go:488`); `drainSteering`
drops the messages behind one whose write or event failed, and the event of a cancelled
turn may fail, so a plain interrupt while a batch is drained loses the user's words for
good (`internal/agent/steering.go:143`, where a comment has it that one "that cannot be
persisted must not silently vanish");
a group cut by a crash is repaired in the view but never in the store, since
`Chat` appends the user's message first (`internal/agent/agent.go:670`);
`/compress` takes an approved plan's directive (`compression.go:559`);
the turn goroutine reads the plan toggle after the event loop may have changed
it (`cmd/sandbar/main.go:1788`); `ResumeSubagent` reads the row before it takes
the guard, and the guard does not cover the first run; the calls of an escalation
that came to nothing are missing from the reported usage
(`internal/agent/compression.go:652`); the task panel is filled by goroutines that
may answer in any order and, since `/new`, `/resume` and `/fork` work while a turn
streams, for another thread (`cmd/sandbar/main.go:712`, `:1887`).

A sub-agent's foreground command is registered in a `ShellExec` made for that sub-agent
(`internal/agent/agent.go:194`), so the session's `Close` ("tears down all synchronous and
detached process groups", `shell.go:512`) does not know of it.  The one of a delegation
that a turn waits for is stopped through the turn's context; the one of a background
delegation has a context of its own (`delegate.go:110`), which nothing cancels, so it goes
on after a cancelled turn, the end of the thread and that of the program.
`CommandsReachable` states the first and promises nothing of the second.

## 7. Not modelled

Text and layout: rendering, markdown, prompts, personas, skills, formatting of
results, the summarizer's prompt, token counting.  The bounded capture of a command's
output and the search index.  Sequential one-shot code: loading and merging of
configuration and catalog, administration commands, the statements of the
migrations.  Stateless wrappers: web, image and git tools, ssh.  The wire protocol
of MCP is the SDK's.  The windows build of jobs and shell.  SQLite, the Go runtime
and the operating system appear as what the code relies on: a transaction is atomic,
a mutex excludes, a rename is atomic, SIGKILL ends a process it may be sent to.
