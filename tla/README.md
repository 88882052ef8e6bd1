# Anchi in TLA+

Anchi runs AI agents in throw-away cells of a virtual machine. A daemon on the user's computer keeps
the tasks, decides which turn runs when, gives each task its cell, lets agents delegate tasks to
each other, sends turns to other machines, and asks the user before a cell writes to the outside.
These modules specify that daemon and the parts of the virtual machine it relies on. Paths below
without a directory are in `src/anchi/packages/daemon/src`; `runner.ts` is in
`src/anchi/packages/cell-runner/src`, Python files are in `src/guest` and `src/services`.

| file | what it is |
|---|---|
| `HubTurns.tla` | task rows, agents' queues, turns, delegation, cancels, deletion, restart (`hub.ts`, `store.ts`, `tools.ts`) |
| `CellRoom.tla` | the cells of the tasks: the line for a cell, reuse, eviction, timers, closing (`hub.ts`, `cell.ts`) |
| `CellChannel.tla` | one cell: the turns of the hub, the session, the pipes, the runner (`hub.ts`, `cell.ts`, `runner.ts`) |
| `GuestCells.tla` | the virtual machine: starts, image builds, `reap`, registrations (`anchi_cell.py`, `egress_proxy.py`) |
| `RemoteTurn.tla` | what a turn on another machine promises: the abstract specification of the next two |
| `TeamLink.tla` | turns on an execution node of the team (`team-coordinator.ts`, `team.ts`, `hub.ts`) |
| `PeerTasks.tla` | tasks delegated to a peer, which delegates in turn (`peer-tasks.ts`, `hub.ts`, `store.ts`) |
| `EgressApprovals.tla` | writes that wait for the user (`approvals.ts`, `egress_proxy.py`) |
| `ConnectorWrites.tla` | writes of connector services, their ledger and their grants (`connector_base.py`, `ledger.py`, `policy.py`) |
| `HubTurnsProofs.tla`, `CellRoomProofs.tla`, `CellChannelProofs.tla`, `GuestCellsProofs.tla`, `TeamLinkProofs.tla`, `PeerTasksProofs.tla`, `EgressApprovalsProofs.tla`, `ConnectorWritesProofs.tla` | theorems about each of them |
| `MC*.tla`, `*.cfg` | small instances for TLC |
| `PROJECT.json` | the runs, the source lines behind each definition, the mutations, the hazards |

To check a model, `tlc -config turns_core.cfg MCHubTurns`; its proofs, `tlapm HubTurnsProofs.tla`.

## 1. The system

| component | state | operations | what is hard | what makes it correct |
|---|---|---|---|---|
| Task queues and turns (`hub.ts`, `tools.ts`) | a queue and running turns per agent, abort signals, waiters | create, follow-up, retry, delegate, cancel, delete, wait, pump, execute, finish, restart | callers and turns interleave at every `await`; agents with few slots wait for each other | each request ends exactly once; rows, queues and turns agree; slots and budgets hold; nobody waits for ever |
| Cell pool (`hub.ts`) | live cells, closing cells, the line, blocked calls, idle timers | get a cell, evict, block, close, settings | checks before sleeps, timers that outlive turns, cells that take minutes to close | no lost wake-up, cells of running turns are left alone, limits of the VM are kept |
| Cell session (`cell.ts`) | the turn in progress, exit | ready, run, cancel, close, fail | exit, cancel and end of a turn race | one turn at a time; every turn ends |
| Guest cell manager (`anchi_cell.py`) | directories and units of cells | start, scan, reap, purge | starts and ends in separate processes under one lock | one cell per task, at most 16, nothing left behind |
| Task store (`store.ts`) | SQLite tables | rows, events, usage, receipts | usage that is cumulative or not, trimmed events | nothing counted twice; trees deleted whole |
| Cell runner (`runner.ts`) | current turn, pending tool calls | turns, cancels, tool calls, end of input | answers that come after their turn | no frame for another turn |
| Team coordinator (`team-coordinator.ts`) | outbound jobs, receipts of effects | dispatch, poll, answer relayed calls, cancel | lost and repeated calls, restarts of either node | a turn runs once; an effect happens once; a cancel arrives |
| Team worker (`team.ts`) | jobs, receipts, cancel marks, relayed requests | run, poll, reply, cancel, relay | a cancel before its dispatch, old replies | turns in order, no reply for another turn |
| Peer tasks (`peer-tasks.ts`) | mirrors, executions, budgets | create, delegate, send, cancel, sync | two daemons that are rarely both online | one budget for the whole tree, monotonic snapshots |
| Peer network (`peer-network.ts`) | records, revisions, connections | admit, remove, configure, tick | old records arrive after new ones | revisions only grow; removed peers stay out |
| Approvals (`approvals.ts`, `egress_proxy.py`) | pending approvals on both sides | ask, decide, time out, watch | a decision races the timeout, the stream breaks | the list follows the queue; the transcript tells what happened |
| Policy service (`policy.py`) | grants, rules, epoch | authorize, decide, consume, set mode | tickets, expiry, rule changes between steps | a ticket is used once, in the epoch it was issued in |
| Ledger (`ledger.py`, `connector_base.py`) | runs, frozen actions | freeze, begin, mark, recover | a crash between effect and mark | a request has its effect at most once |
| Triggers (`triggers.ts`) | next run, seen items | tick | crash between marking and starting | no item twice |
| Daemon (`daemon.ts`) | clients, watchers, timers | start, stop, reload, delete an agent | order of start and stop | recovery before requests |
| Quota, notifications, sign-ins, settings, builder, skills, hosts, audits, codecs, connector services, desktop and terminal clients, installers | little or no shared state | | | |

How they interact: clients, triggers and peers call the hub. The hub writes rows through the store,
queues a job, and `pump()` starts a turn when the agent has a free slot. The turn asks `cellFor()`
for a cell, which may wait, evict, or start one through the guest. The runner in the cell sends
events and tool calls; a delegation is a tool call that creates a task of another agent and may wait
for its turn while `block()` lends out the place of the waiting cell. A turn of an agent with an
execution node goes to the coordinator instead of a cell; the node's worker gives it to its own hub.
A delegation to `node/agent` creates a mirror, which `peer-tasks.ts` keeps in step with the peer's
task. A request of a cell that writes is held by the egress proxy or by a connector service until
the user decides through the daemon.

The models meet where the components do: `HubTurns` leaves to `CellRoom` when a turn gets its cell,
`CellRoom` leaves to `CellChannel` what happens in it and to `GuestCells` what the virtual machine
does, and `TeamLink` and `PeerTasks` contain as much of the hub at the far end as one task sees of
it. Each leaves its neighbour's choices free, so it holds for whatever they do.

## 2. How the models correspond to the code

The hub is one event loop. A step of a model is what runs between two `await`s, so everything a
handler does synchronously is in one action, and whatever it does after an `await` is another.

### HubTurns

| variables | code |
|---|---|
| `status agentOf parent root depth turns` | columns of the `tasks` table |
| `config` | `state.agent`: its `maxTasks`, or `Broken` when the file does not load |
| `jobs ahead` | `state.queue`: which tasks have a job, and the jobs in front of each |
| `phase aborted timedOut` | `state.running` and how far `execute()` is, the `AbortController`, the flag of the turn timer |
| `pumpDue` | a microtask that will call `pump()`, or a `pump()` in its loop |
| `calls` | `waiters`: a turn's tool call, or a client (`NoTask`), waiting for a turn to end |
| `doomed` | `deleteTask()` between its check and its deletion |
| `stopping` | `Hub.stopping` |

`asked` and `ended` count accepted requests and finished turns for one property.

A queue is a relation and not a sequence: `ahead[t]` is the set of jobs in front of `t`. The job
`pump()` shifts is the one with none, and filtering the queue removes tasks from every set. That the
relation is a line is proved (the lemma `QueuesInLine`), not assumed.

A cell is only time and a possible failure here: a turn is in phase `begin` until its cell is ready,
in `turn` while the runner works, in `over` between the end of `execute()` and `running.delete`.
`pump()`'s loop is one job a step, which allows more interleavings than the code. `EditAgent` merges
the change of the file with the `reload()` that follows it.

### CellRoom

| variables | code |
|---|---|
| `phase` | where `execute()` and `cellFor()` are |
| `line before` | `roomQueue` and its order |
| `patience` | `waitingSince` and the time that is left |
| `awaits` | which `closeCell()` the turn awaits |
| `cells gen` | the map `cells`; cells of a task are numbered |
| `idle longer` | cells with an idle timer, ordered by `lastUsed` |
| `scanning leaving closingTask` | `closeCell()` in its scan, in its wait for the exit; `closingTasks` |
| `vm` | cells the virtual machine has |
| `blocked` | waiting tool calls per task |
| `killers` | the ten-second timers that a turn timer starts |
| `maxCells` | the setting |

Which turns start is left open: any task without a turn may start one. What they wait for is left
open too: a waiting call may end at any time. So every schedule `HubTurns` allows is covered, and
more. `roomChanged()` is a step of the sleeping turns inside the action that calls it (`Woken`);
where a call of it depends on a flag the model does not keep, both are allowed (`Leave`). The VM
decides a start at once; that it takes seconds does not matter to the hub, which counts the cell
from the moment it asks.

A turn that is to wait for room is in `line` from its first look until it has its cell or ends;
`NoLostWakeup` says both that nobody sleeps who could go on and that nobody stays in the line after
it left.

### CellChannel

| variables | code |
|---|---|
| `hub killer` | where `execute()` is with its turn; the second, ten-second timer of a turn that timed out |
| `outcome recorded` | how `finish()` was called for each turn, and how many of its events were recorded |
| `session done queue serving` | fields of `CellSession`; what `run()` was told of its turn, its events not yet handed on, tool calls whose handler runs |
| `down up` | frames in the two pipes |
| `runner pending` | the runner's state and its calls that wait for an answer |
| `sent ranOk` | events the runner sent, turns it ended well |

One cell of one task; a new cell is a new instance. The adapters to the vendor programs are a free
choice of events, tool calls and an end (`Emits`, `CallsTool`, `RuntimeEnds`). Sizes, schemas and
whatever else makes a frame invalid are one kind of frame (`Garbage`). The hub's and the session's
timer have the same length and either may be the first; both run only while the turn has not ended
for the session. Where the code handles a `turn.end` and what follows it in one chunk of input, the
model may do it in more steps.

### GuestCells

| variables | code |
|---|---|
| `pc cell again registered` | where each process is: `anchi-cell start`, `anchi-image build`, `anchi-cell reap` |
| `lock` | the lock file of `start`: its check, the directory and `meta.json` |
| `todo kept` | the loop of `reap` |
| `dir mounts` | the work directories and what is mounted below them |
| `unit halting` | systemd units of cells, and those a `stop` was sent to |
| `asked known` | the proxy's registrations: requested, in its table |
| `orphans late` | cells whose process left without a cleanup, until a later `reap` is through |

Only the check of `start`, the directory it makes and its `meta.json` are under a lock; everything
else is one system call a step. What fails between the directory and the `try` (phase `made`:
`anchi_cell.py:1226-1243`, and 416-449 of a build) is not cleaned up, and leaves the cell to the
next `reap` as a kill does (`FailsEarly`, `Leaves`). A signal to `start` may come at every step and
start the cleanup, also under the lock and inside the cleanup; what it interrupts in the `try`
cleans up once more (`again`). A registration that nobody waits for any more may still be made. The
awaits inside the proxy's `register` are one step, and an unmount succeeds in the end. What `start`
does besides (policy modes, the home, placeholders) is a step that may fail. `NothingLeft` is about
directories and mounts: a late registration, or a unit without a directory, is described in section
6.

### RemoteTurn, TeamLink and PeerTasks

`RemoteTurn` is what both ways of running a turn elsewhere promise: numbered turns of a task begin
at most once and in order, each has one outcome, and the asking side may give up on a turn but never
hears of a success that did not happen. `TeamLink` implements it with `heard` as the row of the task
(`open` while it is queued or running) and `turn` as the outbound job's number; `PeerTasks` with
`heard` as the mirror's row once the outbox has settled it. Its last section states what a user of
either link may rely on: a success that is shown is that of the last turn sent (`DoneIsTrue`), and
no outcome changes and no passed turn begins (`NeverTakenBack`).

| `TeamLink` | code |
|---|---|
| `row job` | the task's row and its job in the coordinator's queue |
| `out answer kept` | `outbound/`, `answer/`, `effect/` in `team_state` |
| `loop verdict calling` | where `execute()` and `answer()` of `team-coordinator.ts` are |
| `wire reply` | calls that may still arrive though their caller gave up; the answer to the one awaited |
| `work receipts mark request` | `worker/`, `received/`, `cancel/`, `request/` on the node |
| `state turn aborted ending events` | the node's row, and its hub's running turn |
| `dropped` | the node's row is queued without a job: its agent file broke after the turn was taken in |
| `healthy` | whether the agent still is what the task was sent to |
| `ended taken told` | history: the transcript's length when a turn last ended; events the coordinator recorded, and those a notice of it stands for |

| `PeerTasks` | code |
|---|---|
| `above slots share` | `peer/budget/` of the task above, of this task, and of the one it delegates |
| `row out shadow` | the mirror's row, `peer/out/`, the mirror of the peer's own delegation |
| `sync told` | where `sync()` is, and whether it read the outbox with the cancel in it |
| `wire reply` | as above |
| `work receipts mark` | `peer/in/`, `peer/receipt/`, `peer/cancel/` |
| `state turn aborted ending events child` | the executor's rows, and its hub's running turn |
| `broken` | which of the executor's two agents is gone or does not load |
| `ended clipped` | history: the transcript's length when a turn last ended; whether the last page of an ended turn was cut for its size |

Every record the code keeps is per task, so one task is the whole of each model. A step is one
transaction or the code between two awaits; the two places of the coordinator where a stop between
two commits matters are cut (`dispatch`, `finish`). The connection loses any call and any answer,
and a call that was given up may arrive later, repeatedly and after newer ones. Both daemons stop at
any step and start again with what they stored. A transcript is its number of events. The store
keeps the last `MAX_EVENTS_PER_TASK` of them (`Base`), a page ends after `PageSize` events or
earlier for its size (`PageEnds`), and a transcript also grows without its turn: by notices of the
hub, the scan of a cell that closes, and the end of a task it delegated (`NodeNotes`, `Notes`,
`Noted`). In `TeamLink` relayed tool calls are `Requests`; in `PeerTasks` the tree is a local task
or the user's request, the mirror with the executor's task, and one child of that, whose terminal
statuses are one value. `PeerTasks` starts either with the user asking the peer or with a local task
that delegates to it.

### EgressApprovals

| variables | code |
|---|---|
| `write future` | the proxy's `Approvals`: a request that waits in `ask()`, and its future |
| `grant late` | the policy service's pending grants, and those whose time is over |
| `stream pipe` | `anchi-approvals` as the watcher reads it, and lines that were not read |
| `pending decided policy adding` | fields of `ApprovalWatcher`; calls of `addPolicy()` under way |
| `call` | `decide()` for each client and approval |
| `notes` | what the transcript of the task says became of each |

`asyncio.wait_for` may time out although the future was answered in the same round: `TimerFires` may
cancel an answered future, as it does under Python 3.12. A command ends with its code, with an error
of its own, after its time (`SIGKILL`, and the verdict may still arrive: `CommandTimesOut`) or was
never started (`CommandNotStarted`). A new proxy starts with nothing, as its runtime directory is
wiped. Writes are numbered in the order in which they ask, and each client decides an approval once.

### ConnectorWrites

| variables | code |
|---|---|
| `at who ticket verdict ready` | `write()` in `connector_base.py`; `writes_ready` |
| `action aged run` | the ledger's `actions` and `runs` |
| `rules grants made` | the policy service's tables |

A grant's epoch, boot id and expiry are one field, `live`: a rule change, a restart of the policy
service and the clock all end it. A ticket is the grant it stands for. A call of the policy service
fails in two ways that the ledger tells apart: refused, or answered by the end of the connection, it
is `Denied` and the row becomes `FAILED` with the grant as it was, issued or used (`PolicyDenies`);
when the socket fails or times out, nobody catches it and the row stays `RUNNING` (`PolicyLost`).
Whether the daily limit is reached is open at every step. Refusals that change no row (another
request with the same id, too many waiting approvals before anything is written) are no steps, since
a transaction that raises is rolled back.

## 3. Runs

| run | instance | question | distinct states |
|---|---|---|---|
| `turns_core` | 2 agents that may delegate to each other, one slot each, 2 tasks, 2 requests a task, 1 deletion, 1 restart | do table, queues and turns agree in every order of requests, cancels, timeouts, deletions and a restart? | 815 000 |
| `turns_deep` | 3 tasks of 2 agents that delegate to each other, tree budget 3, one agent file that breaks | does a job wait for a slot that only its own waiters hold? is a job forgotten? | 1.0 million |
| `turns_live` | as `turns_core` without deletions and restarts, with fairness | does every request end, and is everyone who waits told? | 58 000 |
| `room` | lead, its child and another task, 2 cells in the VM, `maxCells` 1 or 2, 3 turns, one upset | can a turn sleep although it could go on? can a cell at work be closed as idle? | 1.6 million |
| `room_live` | the same with `maxCells` 1, with fairness | does every turn get its cell or give up? | 135 000 |
| `channel` | 2 turns in one cell, 2 tool calls (one at a time, one a turn), 1 event a turn, one upset | do both ends agree whose turn it is? is a done turn whole? does everything end? | 505 000 |
| `cells` | 2 starts of a task, one image build, `reap` after one restart of the daemon, `MAX_CELLS` 1, two upsets | is anything left where nothing is at work? | 9.4 million |
| `team` | 2 turns, a relayed call of the first, pages of one event, a store of two, two upsets | does the link keep its promise, have relayed calls one effect, is a transcript whole, does every request end? | 747 000 |
| `peers` | 2 turns, a budget of 5 in shares of 2, pages of two events, a store of two, one upset | the same promise; does a slot pay once, does a cancel arrive, is a settled turn over and read to its end? | 1.5 million |
| `approvals` | 2 writes and a grant, one may wait, 2 clients, 2 verdicts, one upset | does the list follow the queue, does the transcript tell the truth, does every entry go? | 443 000 |
| `writes` | 2 requests of an agent, 2 contents, 3 grants, one may wait, two upsets | one effect a request, one approval an effect, and a ledger that says so? | 4.3 million |
| `turns_delete_race` | two tasks | a comment that the code does not keep, see section 6 | |

An upset is one of the events a module counts in `rare` (or `upsets`, `restarts`, `edits`,
`deletions`): a lost connection or call, a restart, a cancel in `channel`, a deletion, a broken
agent, a signal, a failure inside the virtual machine, in `team` and `peers` an event the far end
records on its own, in `peers` a cancel by its user. Each comes at every point of every behaviour,
and every run allows any of them.

Why the bounds are enough to be interesting. Two agents with one slot each are the smallest team in
which a turn's delegation could come back to the agent that waits for it, if `delegate()` let it;
that takes a third task below two others, and so does a queue with a middle. Two requests a task
give every race between the end of a turn and the next request. Three tasks and two cells give a
cell that waits, one that works and a task that gets neither; three turns let a task come back to
its cell after somebody else was there. Two turns in a channel or over a connection are what late
frames, old replies, early cancels and repeated dispatches need; an answer that is late for both is
late in the same way. A store of two events loses the first of a turn before its end is read. A
budget of five in shares of two gives a full, a partial and an empty share. Two starts of a task are
an old process that cleans up next to the new one. Two requests with the same content are what the
search for a grant by its content can confuse; a third grant comes after one that was refused or
used. The safety properties of `peers` were also explored with two upsets (12.7 million states),
without an error; the runs kept here end in minutes.

Symmetry is used where the members play the same part and no liveness is checked: the starts in
`cells`, requests and contents in `writes`.

Every property of a passing run has a mutation of the code it is about, next to the definition in
the module (`\* Mutation: ...`), under which TLC finds the property violated.

Deadlock is not checked: when the bounds on requests are used up and every turn is over, the system
rightly has nothing to do. That nobody is stuck before is what the liveness properties say.

### What the properties are

Per module one `TypeOK`, which also holds the relations a reader would take for granted. Beyond it:

- `HubTurns`: `TableMatchesQueues`, `FinishedOnce`, `SlotsHold`, `NotBehindItsWaiters` (no job waits
  for a slot that only turns waiting for it hold), `NoJobForgotten`, `CancelSticks`; liveness
  `RequestSettles`, `WaitAnswered`.
- `CellRoom`: `NoLostWakeup`, `IdleBetweenTurns`; liveness `ReachesCellOrEnds`.
- `CellChannel`: `HonestRunnerBelieved` (the runner of this repository is never taken for a broken
  one), `DoneIsWhole`, `AnswerMeetsItsCall`; liveness `EverythingSettles`.
- `GuestCells`: `NothingLeft`.
- `TeamLink`: `ImplementsRemoteTurn` (refinement), `EffectOnce`, `TranscriptComplete`; liveness
  `TurnEnds`.
- `PeerTasks`: `ImplementsRemoteTurn` (refinement), `NoSlotTwice`, `SettledMeansOver`,
  `CancelNotDropped`; liveness `TurnEnds`.
- `EgressApprovals`: `MirrorFollows`, `NotesTellOutcome`; liveness `ListingEnds`.
- `ConnectorWrites`: `LedgerTells`, `EffectsWithinGrants`, `ApprovalFound`, `AskMeansApproved`.

Exceptions that a property names (a turn the session's timer ended, a task whose copy was deleted or
whose turn the node dropped, a process that left without a cleanup, a last page cut for its size,
verdicts of two clients, an error that settled a mirror) are behaviours of the code and are
described in section 6.

### Fairness

`HubTurns`: weak fairness of `pump()`, of the continuation of `run()`, of the turn timer and of the
timer of a waiting tool call, since the event loop runs what is due and timers fire. A turn ends
only if it was aborted or timed out, or if none of its tool calls waits: the code closes the cell of
a runner that does not stop, and the model does not assume that a runner gives up waiting. A daemon
that is stopping is started again (no restart is within the bounds of `turns_live`; a restart ends
every request at once). Clients owe nothing: no request, cancel or edit is fair.

`CellRoom`: weak fairness of turns that look for a cell, image checks and starts (which end or time
out), `ROOM_WAIT_MS`, scans (`SCAN_TIMEOUT_MS`) and the wait for the exit (`CLOSE_WAIT_MS`). No turn
has to end and no idle cell has to go, so the property holds although every place may be taken for
ever, by the ten-minute bound.

`CellChannel`: both event loops go on, handlers of tool calls return, the session's timer and the
ten-second timer fire, and a cell whose input was ended dies after `close()`'s fifteen seconds. A
runtime need not end its turn, nor obey a cancel.

`TeamLink` and `PeerTasks`: the event loops and polling timers go on, a call that is not lost is
answered, turns at the far end end by their timer. Connections break only as often as `MaxRare`
says, so fairness need not demand that they come back. Calls given up, users, tools and agents owe
nothing.

`EgressApprovals`: timers fire, the queue answers, the watcher reads and reconnects. No client
decides, and no command has to come back.

## 4. Theorems

Each module of the code has its proofs in a module of its own, `tlapm <Module>Proofs.tla`. Every
theorem holds for any sets and bounds that satisfy the named assumption of its module
(`HubAssumption`, `RoomAssumption`, ...): limits are natural numbers, identities of different kinds
differ, and, where the code counts, what is counted is finite. Nothing else is assumed, but for
`MaxEdits = 0` in three theorems about the hub and the two hypotheses that are named below.

| module | theorem | property |
|---|---|---|
| `HubTurnsProofs` | `TypeCorrect`, `ForgetsNoJob`, `CancelIsFinal` | `TypeOK`, `NoJobForgotten`, `CancelSticks` |
| | `TableAgrees`, `FinishesOnce`, `SlotsAreKept` (if `MaxEdits = 0`) | `TableMatchesQueues`, `FinishedOnce`, `SlotsHold` |
| `CellRoomProofs` | `RoomTyped`, `WakeUpsReach`, `TurnsKeepTheirCells` | `TypeOK`, `NoLostWakeup`, `IdleBetweenTurns` |
| `CellChannelProofs` | `ChannelTyped`, `RunnerBelieved`, `DoneTurnsWhole`, `AnswersMeet` | `TypeOK`, `HonestRunnerBelieved`, `DoneIsWhole`, `AnswerMeetsItsCall` |
| `GuestCellsProofs` | `GuestTyped`, `CleanupIsComplete` | `TypeOK`, `NothingLeft` |
| `TeamLinkProofs` | `LinkTyped`, `EffectsOnce`, `TranscriptsComplete`, `LinkImplements` | `TypeOK`, `EffectOnce`, `TranscriptComplete`, `ImplementsRemoteTurn` |
| `PeerTasksProofs` | `PeersTyped`, `SlotsSpentOnce`, `SettledTurnsOver`, `CancelsTold`, `PeersImplement` | `TypeOK`, `NoSlotTwice`, `SettledMeansOver`, `CancelNotDropped`, `ImplementsRemoteTurn` |
| `EgressApprovalsProofs` | `ApprovalsTyped`, `MirrorTrue`, `NotesTrue` | `TypeOK`, `MirrorFollows`, `NotesTellOutcome` |
| `ConnectorWritesProofs` | `WritesTyped`, `LedgerTrue`, `EffectsPaid`, `ApprovalsFound`, `TicketsApproved` | `TypeOK`, `LedgerTells`, `EffectsWithinGrants`, `ApprovalFound`, `AskMeansApproved` |

So every safety property of a passing run but `NotBehindItsWaiters` has a theorem, and so have both
refinements. Theorems that say more than the runs check, each stated in full in its module:

| module | theorem | what it adds |
|---|---|---|
| `HubTurnsProofs` | `LoadedTableAgrees` | the table and `FinishedOnce` for all behaviours in which every agent file loads (`[]AllLoaded`), whatever else is edited |
| | `NeverFinishedTwice` | with any edits: running rows are those in `execute()`, jobs are of queued rows, no request is finished twice |
| | `TurnsStartWithinLimits` | with any edits: who gets another turn is within `maxTasks` then |
| | `DelegationsFormForest` | delegations are a forest of bounded degree, and calls that wait never form a circle |
| `CellChannelProofs` | `EventsAccountedFor` | no event of the turn in progress is lost or counted twice |
| `TeamLinkProofs` | `ReceiptsOutliveRetries` | a call that can be asked again is answered from its receipt |
| | `LinkShowsTheTruth`, `NodeTakesNothingBack` | what `RemoteTurn` means for the two nodes |
| `PeerTasksProofs` | `SlotsHeldOnce` | nobody holds a slot that another holds or that was spent |
| | `OriginShowsTheTruth`, `ExecutorTakesNothingBack` | what `RemoteTurn` means for the two daemons |
| `EgressApprovalsProofs` | `FirstVerdictCounts` | of the clients' verdicts on a write the proxy takes one |
| `ConnectorWritesProofs` | `AgentsPayTheirOwn` | `EffectsWithinGrants` agent by agent |
| | `AskedBeforeEveryEffect` | an agent whose rule is `ask` throughout writes no more often than its user approved |

The inductive invariants were checked by TLC as invariants of the runs of section 3 before they were
proved. Each proof module begins with its invariant, part by part; then come lemmas about the
operators (counting, ranges, pipes), then one lemma a handler, then the theorems.

### The hub

`TypeOK` is inductive by itself. `JobsInLine`, that each queue is one line, is not: a new row could
already be in a queue, so `LineInv` adds `FreeUnused`, that an id is nowhere before its row exists.
For the table, `TableInv` adds that every agent's file loads, and states the two invariants row by
row (`RowOK`): the follow-up check keeps a task from two jobs, a cancel finishes a task exactly if
no turn will, and the recovery finishes what has neither. What of a row holds though files break
(`RowKept`) is proved apart, without assumption: a broken file can leave a row behind, and never
gives one a second end. `RowOK` follows for every behaviour in which the files load. For
`ForgetsNoJob`, `SlotInv` adds the property to `LineInv` (a new row must not be in a turn already):
each handler that frees a slot, adds a job or changes a limit also makes a `pump()` due.
`SlotsAreKept` counts: `pump()` adds one turn to a set with fewer members than the limit, and no
other handler adds any.

`ForestInv` is about `delegate()`: a child is a new, hence a later row, and a turn's call waits for
a child it made or sent on. So the tasks that wait for each other are in ascending order.

`MaxEdits = 0` is not for convenience: with edits, an agent file that breaks makes `TableAgrees`
false (section 6), and a lower `maxTasks` leaves turns above the new limit until they end, as it
should; `TurnsStartWithinLimits` says that none is added to them. `TableAgrees` and `FinishesOnce`
are `LoadedTableAgrees` for a directory nobody edits. All other theorems are proved with edits.

### The cells

`NoLostWakeup` and `IdleBetweenTurns` need each other: an eviction looks at idle timers, and whether
a sleeping turn could evict depends on who has one. `Inv` adds `Lines` (a turn in the line has no
cell, nor has one that waits for its old cell to close) and the types. The counting is in `InVM` and
`Occupied <= CellCeiling`: cells in the map and cells that close are counted for the VM together, so
the start that makes the last one still fits. The proof of a wake-up goes by monotony: a handler
that does not call `roomChanged()` does not give anybody room, and the others wake all who sleep.

### One cell

`HonestRunnerBelieved` is about three state machines and two pipes of any length. Five parts of
`Inv` say what may be in the pipes: no frame of a later turn (`Later`), a `cancel` only for a turn
the hub meant to stop (`Stopped`), one `run` a turn, and while it is under way nothing else of that
turn (`RunOnce`), nothing after a turn's end (`EndLast`, `EndHeard`). `InStep` then says that unless
a turn was ended for its runner, all that is under way is of the session's turn. `DoneIsWhole`
counts: events recorded, in the session's queue and in the pipe add up to those sent (`Whole`) until
the end is heard, and an end that is not a success has told so (`EndTells`). `DoneStays` keeps the
sum when the turn is over. `AnswerMeetsItsCall` follows from `IdsUnique`, that whatever names the
same call, in either pipe or at either end, says the same turn of it. The lemmas under these say
what reading and sending does to a pipe (`TailIs`, `AppendIs`, `EventsTail`, `EventsAppend`).

### The virtual machine

`NothingLeft` is what remains of two promises. `DirsHeld`: a directory that exists has somebody who
will get to `rmtree()`, a process at work on that cell or a reap, now or of the next daemon.
`MountsHeld`: what is mounted has a process that has still to unmount it. A signal may move a
process to its cleanup from anywhere, and a second one back to the cleanup's beginning, and both
promises survive since every way of a process from its `try` on leads through both calls. A process
that leaves without them, killed or failed before the `try`, puts its cell among the `orphans` until
a `reap` that began later is through. The steps of all processes are one shape (`Goes`), proved
once; those that leave and `reap` are the exceptions.

### Turns on other machines

Both links have an invariant in the same parts. `Carried`: what is under way was sent, with a number
not above the last. `Running` and `Recorded`: how the turn of the far hub goes with its row, and
that nothing happened in a turn that was not taken in. `Heeded`: who polls has the turn taken in,
and what a snapshot says of the end stays true while it travels.

- `EffectOnce` adds `Receipted`: the receipt of an effect is kept as long as its turn can be asked
  about, and nobody claims a result, in an answer, a call under way or the node's table, without it.
- `TranscriptComplete` adds `DoneThere`: once "done" is read that turn will add nothing, and
  whatever page comes back empty was asked for at the end of all there is. What the store deleted
  meanwhile is an interval up to the page's start, and the notice stands for it.
- `NoSlotTwice` adds `Disjoint`: the ranges of the task above, of the outbox before it is taken in,
  of the task and of its share never overlap, and what is in one of them is not spent (`Unspent`).
- `SettledMeansOver` and `CancelNotDropped` add `Believed`, what a settled outbox says of the peer,
  and that a page which is not full reaches the end of the turn unless it was cut for its size.

The refinements map the row of the task (or the settled outbox) to `heard` and prove for each
handler which step of `RemoteTurn` it is, or that it is none. What `RemoteTurn` promises is then
derived from its own steps (`PromiseNext`, in each of the two modules under its mapping), with no
look at the handlers of the link.

### Approvals and writes

`MirrorFollows` speaks of the last line about a write that was not read. `Told` says of the pipe
that no `pending` follows a `resolved` of the same write, so that whatever is read last is what
holds. For the notes, `Counted` says that of all verdicts the first one counted and no other was
told so, `Marked` that a write whose only verdict is under way keeps its mark until it is off the
list, and `Noted`, `Expired` and `Granted` draw the line from a verdict to what the transcript says.

`EffectsWithinGrants` is a count. `Paid` says the write in progress has its ticket in hand as one
used grant more than there were effects; `PaidBy` says it of each agent's own. Under a rule that
stays `ask`, a used grant was approved, so the approvals bound the effects too. `TypeOK` of this
module has a part that is no type, the at most `MaxPending` grants that wait: `authorize()` counts
them after the sweep, and no other step lets one wait. `ApprovalFound` needs `NewestOpen`, about the
grant `Max()` finds (lemma `MaxIs`), and `AskMeansApproved` needs `UnderRule` and `TicketFits`:
under a rule that asks every ticket that still counts was approved, and the one in hand is for the
content in hand.

### What is not proved

Liveness (`RequestSettles`, `WaitAnswered`, `ReachesCellOrEnds`, `EverythingSettles`, `TurnEnds`
twice, `ListingEnds`), which the prover cannot do: TLC checks it on the instances above. The hub's
three theorems under `MaxEdits = 0` say nothing of agents whose files change: `LoadedTableAgrees`,
`NeverFinishedTwice` and `TurnsStartWithinLimits` are what then remains, and section 6 says what
does not. `NotBehindItsWaiters` looks along chains of waiting calls with a recursive function, and
is checked by TLC; that waiting calls follow delegations is proved in `DelegationsFormForest`. The
run `turns_delete_race` is a counterexample and has no theorem. No recursive definition is proved to
compute what it should: the models proved about have none in their steps, and the one sequence made
from a set (`Backlog`) needs only the definition of `SetToSeq`.

## 5. Not modelled

Whole components (`PROJECT.json` lists each with its sources):

- **User interfaces, installers, sign-in dialogues, settings, the builder, prompts, audits, parsing
  and formatting**, most of the repository's lines: they show or edit state of the components above,
  and keep no shared state that a model would add to.
- **Triggers**: one timer and one saved record per agent; what can go wrong is described in section
  6.
- **The peers' directory** (`peer-network.ts`: admission, revisions, catalogue, removal, dialing).
  `PeerTasks` takes from it that a request reaches a peer once, late, repeatedly or never.
- **The deletion of an agent** (`daemon.ts:1025`), which combines `cancelTask`, a wait and
  `deleteTasks`; it shares the race of `deleteTask`.

In the modelled parts:

- Turns: a task whose agent moved to another runtime, the limit on tool calls of a turn in
  `HubTurns` (it is in `CellChannel`), usage, a row write that fails inside `finish()`.
- Cells: the closing of every cell at shutdown (the next daemon reaps first), what a scan finds.
- Guest: a SIGINT to an image build (its `finally` then runs, as after a failure), policy-mode
  synchronisation, image layers, `stop`, `scan` and `purge` commands, a reboot of the VM.
- Team: the polling of a relayed call for its answer (`awaitReply`: the cell's call owes nothing
  here), the trimming of the coordinator's own transcript, relayed approvals, deletion on the
  coordinator's side, the installation of a node, the turn limit of the tree (that is in `HubTurns`
  and, over daemons, in `PeerTasks`).
- Peers: an agent file that breaks for a moment and is whole again before `identity()` looks at it,
  the trimming of the mirror's own transcript, approval routes, deletion of mirrors, several
  descendants, revoked peers, snapshots that do not parse.
- Approvals: alerts, notices, sizes and summaries, credentials, decisions relayed from other nodes,
  clocks that disagree.
- Writes: the connectors' own calls, error wording, the administration's lists.

## 6. Where the code and its words differ

Shown by a run:

- **A task can be deleted under its turn** (`turns_delete_race`). `deleteTask` checks, awaits the
  closing of the cells and deletes what it checked, though a follow-up came meanwhile
  (`hub.ts:449`). `deleteAgentTasks` does the same with the tasks other agents had from the deleted
  one.

Met while modelling. The models allow these behaviours, as the code does, and no property forbids
them:

- *Turns.* A cancelled turn may still delegate until its runner stops, although "Delegated work goes
  with the task that asked for it" (`hub.ts:469`). A broken agent file leaves a row `queued` without
  a job, since `agentFor()` throws before a status is set and `run()` only logs it (`hub.ts:672`):
  `TableMatchesQueues` is violated as soon as `MaxEdits` is above 0, `FinishedOnce` with two edits.
  `recoverInterrupted` throws for an agent that is gone while its task waits for another node
  (`hub.ts:1205`).
- *Cells.* The second timer of a timed-out turn is never cleared and closes the cell of the task's
  next turn (`hub.ts:770`). A follow-up can be refused because the cell before it still closes:
  `cellFor` waits only for a cell that is in its map (`hub.ts:916`, `anchi_cell.py:1221`), though
  "the next message resumes the agent's … session in a new cell" (`docs/AGENT_TEAM.md:326`). More
  cells than `maxCells` can work for a while when waiting tool calls end together; the ceiling that
  holds is `CELL_CEILING`.
- *One cell.* The hub's and the session's turn timers are both sixty minutes (`hub.ts:63`,
  `cell.ts:17`). When the session's is first to end the turn, a runner that obeys the cancel sends
  its last frames for a turn the session no longer has and is killed as a broken one; a follow-up
  that reuses the cell fails. `docs/architecture/AGENT_TEAM_PHASE1_PLAN.md:219` says only "a runner
  that ignores the cancel loses its cell 10 s later". Hence the exception `overtaken`. Later stray
  frames overwrite `exitReason`.
- *Team.* A turn that a restarted coordinator takes up again does not tell the node of a cancel that
  came while it waits, though "Cancellation is durable and stays pending until the node confirms"
  (`docs/REMOTE_SERVER.md:182`). A dispatch the node refuses for good (`TEAM_AGENT_UNAVAILABLE`, and
  with peers `PEER_AGENT_*`) uses up its turn number, so every follow-up is out of order. A node
  that deleted its copy makes a follow-up wait for ever (the exception in `TurnEnds`). A stop
  between `job.active = false` and `finish()` loses the outcome. An agent file that breaks after
  `team.run` was acknowledged leaves the node's row queued without a job (`hub.ts:672`), and the
  coordinator polls until somebody cancels or the node restarts (the exception `dropped`). A turn
  with more than 5000 events between two polls is recorded as done with a notice that earlier ones
  expired (`store.ts:697`, `team-coordinator.ts:254`); events that come after the end of a turn, as
  the scan of its cell, are read with the next turn or never.
- *Peers.* An error settles a turn although its cancel was not told (`peer-tasks.ts:434`), and turns
  a mirror that shows `done` to `failed`. A turn cancelled before it came may still delegate while
  the turn before it stops. Shadow rows stay `running` after `PEER_UNKNOWN_EXECUTION`. A poll says
  `hasMore` only if it has a hundred events (`peer-tasks.ts:283`), but `store.events()` also ends a
  page at a million characters (`store.ts:720`): a mirror whose last page is cut so is settled as
  done without the rest, though "Drain pages before finishing, so a waiter never sees a result
  without its transcript" (`peer-tasks.ts:498`). `SettledMeansOver` without its `clipped` is
  violated by exactly that. Events that expired are missing from the mirror without a notice, and
  what is recorded after the turn's end (the notice of a child's end, `hub.ts:657`) comes with the
  next turn or never.
- *Approvals.* When two clients decide one write, or the reply of a decision is lost, the failure of
  the loser removes the winner's mark and the transcript says "expired" of a write that was approved
  (the comment at `approvals.ts:142` takes it for a refusal of the proxy's own). A command that
  cannot be started leaves its mark set. `addPolicy` may list a grant again that was just decided;
  the list of grants is lost with the daemon.
- *Guest.* A `start` or a build that fails between making its directory and its `try` (a full disk,
  for one) leaves the directory, so that the task gets `TASK_CELL_EXISTS` until the next `reap`,
  against "exits only after the cell's overlay, sockets and proxy registration are released"
  (`cell.ts:220`). A `reap` next to a start of the daemon before it may remove a directory on which
  a workspace was mounted meanwhile, which `anchi_cell.py:1147` warns of. A start that was refused
  and gets a signal, or a second cleanup, may clean up a cell that another process runs; `MAX_CELLS`
  may be exceeded by one. A `reap` between a build's directory and its unit ends the build half-way.
  A registration that is made after its process is gone, or a unit without a directory, stays until
  the next start or for good.
- *Writes.* `TOO_MANY_PENDING_APPROVALS` fails a request id for good. So does a call the policy
  service refuses for its load (`RATE_LIMITED`, `SERVICE_UNAVAILABLE`) or leaves without an answer,
  even when its grant was approved, issued or used: the request id is spent without an effect. A
  call whose socket fails or times out leaves its row `RUNNING` until the service restarts. A stop
  during the preparation reserves the id for a week.
- *Triggers.* A poll that is under way while its agent is deleted saves its record afterwards, so an
  agent made again with that name starts tasks for existing items, against "the first poll only
  records what exists" (`triggers.ts:30`). Items marked as seen while the start of their task fails
  are lost.
- *Peer network.* One cursor of the catalogue serves every peer, so which record goes to whom
  depends on the interleaving of calls; two sides that dial at once may each drop the other's
  connection and try again.

## 7. Plan

Done: the core of the hub and of the cells, turns on other machines with their abstract
specification, approvals and writes, one cell from end to end, the virtual machine; a proof of every
safety property and refinement the runs check, and of what follows from the inductive invariants for
edited agents, single agents' approvals and the shape of delegations. Left:

1. `deleteAgent` in `HubTurns`, and `Triggers` as its client, with crashes.
2. The directory of peers: revisions that only grow, removed peers that stay out, dialing.
3. Relayed approvals, in `TeamLink` and `PeerTasks`.
