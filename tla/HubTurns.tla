------------------------------- MODULE HubTurns -------------------------------
(***************************************************************************)
(* The turns of the daemon's tasks: packages/daemon/src/hub.ts with the    *)
(* task table of store.ts.  A task is a conversation with one agent.  Each *)
(* request (a new task, a follow-up, a retry, a delegation) is queued      *)
(* behind the agent's other tasks, runs as one turn in the task's cell and *)
(* is finished with an outcome.  Cells appear here only as the time a turn *)
(* needs to get one and as the failures they cause; CellRoom models them.  *)
(*                                                                         *)
(* The hub runs on one event loop, so a step of the model is the code      *)
(* between two awaits.  The exception is pump(): its loop is modelled one  *)
(* job a step, which allows more interleavings than the code.              *)
(***************************************************************************)
EXTENDS Integers, FiniteSets, Functions

CONSTANTS
  Agents,          \* ids of the configured agents
  Delegates,       \* the agent file's `delegates`: [Agents -> SUBSET Agents]
  Limits,          \* the values `maxTasks` takes while the daemon runs
  DefaultMaxTasks, \* DEFAULT_MAX_TASKS, for an agent whose file does not load
  MaxDepth, MaxChildren, MaxTreeTurns,  \* DELEGATION
  TaskCount,       \* bound: rows ever created in the task table
  MaxAsks,         \* bound: requests accepted for one task
  MaxRestarts,     \* bound: restarts of the daemon
  MaxDeletions,    \* bound: deletions and purges
  MaxEdits         \* bound: edits of agent files

ASSUME HubAssumption ==
  /\ Agents # {}
  /\ Delegates \in [Agents -> SUBSET Agents]
  /\ Limits \subseteq Nat \ {0} /\ Limits # {}
  /\ DefaultMaxTasks \in Nat \ {0}
  /\ {MaxDepth, MaxChildren, MaxTreeTurns, MaxAsks,
      MaxRestarts, MaxDeletions, MaxEdits} \subseteq Nat
  /\ TaskCount \in Nat \ {0}

Tasks  == 1..TaskCount   \* rows in the order they were created
NoTask == 0              \* parent_id is null; also the waiter of `tasks.wait`
Broken == 0              \* the agent's file does not load: state.agent is undefined

Active == {"queued", "running"}
Final  == {"done", "failed", "cancelled"}
Status == {"free", "deleted"} \cup Active \cup Final

VARIABLES
  \* ---- the task table ----
  status,    \* tasks.status; "free" before and "deleted" after the row exists
  agentOf, parent, root, depth,   \* agent_id, parent_id, root_id, depth
  turns,     \* tasks.turns
  \* ---- the agents' state ----
  config,    \* maxTasks of the agent's file as loaded, or Broken
  jobs,      \* tasks with a job in their agent's queue
  ahead,     \* the order of the queues: the jobs in front of a task's job
  phase,     \* the task's entry in `running`: none, or how far execute() is
  aborted,   \* running tasks whose AbortController fired
  timedOut,  \* running tasks whose turn timer fired
  pumpDue,   \* agents whose queue pump() has still to look at
  stopping,  \* Hub.stopping
  \* ---- promises ----
  calls,     \* <<p, c>>: p's turn (NoTask: a client) waits for c's turn to end
  doomed,    \* sets of tasks deleteTask() checked, their cells now closing
  \* ---- history and bounds ----
  asked, ended,   \* requests accepted for a task, and turns finish() ended
  restarts, deletions, edits

table  == <<status, agentOf, parent, root, depth, turns>>
queues == <<jobs, ahead>>
turn   == <<phase, aborted, timedOut>>
bounds == <<restarts, deletions, edits>>
vars   == <<table, config, queues, turn, pumpDue, stopping, calls, doomed, asked, ended, bounds>>

Phases == {"none", "begin", "turn", "over"}
-------------------------------------------------------------------------------
(* The task table *)

Exists(t)   == status[t] \notin {"free", "deleted"}
Rows        == {t \in Tasks : Exists(t)}
Children(t) == {c \in Rows : parent[c] = t}

\* A task and the tasks above it, as far as their rows still exist.
Lineage(t) ==
  LET up[u \in Tasks] ==
        {u} \cup (IF parent[u] \in Rows THEN up[parent[u]] ELSE {})
  IN  up[t]

\* A task and everything delegated below it (deleteTask's walk).
Tree(t) == {u \in Rows : t \in Lineage(u)}

\* Turns counted by the rows of a delegation tree.
TreeTurns(r) == SumFunctionOnSet(turns, {u \in Rows : root[u] = r})

\* The tasks cancelTask(t) visits: t, then children that are queued or running.
CancelWalk(t) ==
  LET hit[u \in Tasks] ==
        \/ u = t
        \/ status[u] \in Active /\ parent[u] \in Tasks /\ hit[parent[u]]
  IN  {u \in Tasks : hit[u]}

-------------------------------------------------------------------------------
(* The agents' queues *)

Running(a)  == {t \in Tasks : agentOf[t] = a /\ phase[t] # "none"}
MaxTasks(a) == IF config[a] = Broken THEN DefaultMaxTasks ELSE config[a]
Loaded(a)   == config[a] # Broken

Enqueue(t, a) ==
  /\ jobs' = jobs \cup {t}
  /\ ahead' = [ahead EXCEPT ![t] = {u \in jobs : agentOf[u] = a}]
  /\ pumpDue' = pumpDue \cup {a}

Dequeue(S) ==
  /\ jobs' = jobs \ S
  /\ ahead' = [u \in Tasks |-> IF u \in S THEN {} ELSE ahead[u] \ S]

\* The job that pump() shifts next.
Head(t) == t \in jobs /\ ahead[t] = {}

\* Mutation: only tool calls are told.
FinishForgetsClients(S, outcome) ==
  /\ status' = [t \in Tasks |-> IF t \in S THEN outcome ELSE status[t]]
  /\ ended' = [t \in Tasks |-> IF t \in S THEN ended[t] + 1 ELSE ended[t]]
  /\ calls' = {w \in calls : w[2] \notin S \/ w[1] = NoTask}

\* finish(): the rows get their outcome and the waiters are resolved, once.
Finish(S, outcome) ==
  /\ status' = [t \in Tasks |-> IF t \in S THEN outcome ELSE status[t]]
  /\ ended' = [t \in Tasks |-> IF t \in S THEN ended[t] + 1 ELSE ended[t]]
  /\ calls' = {w \in calls : w[2] \notin S}

\* Mutation: a turn already running is overlooked.
IdleInQueue(t) == t \notin jobs

\* No turn of the task is running and none is queued (sendTask's check).
Idle(t) == phase[t] = "none" /\ t \notin jobs

\* Mutation: a turn that waits for its cell does not count.
InRunner(t) == phase[t] = "turn"

\* state.running has the task: its turn will finish it.
InTurn(t) == phase[t] # "none"

\* Mutation: a task nobody delegated gets no root_id.
InsertRootless(t, a, p) ==
  /\ status[t] = "free"
  /\ \A u \in Tasks : u < t => status[u] # "free"
  /\ status' = [status EXCEPT ![t] = "queued"]
  /\ agentOf' = [agentOf EXCEPT ![t] = a]
  /\ parent' = [parent EXCEPT ![t] = p]
  /\ root' = [root EXCEPT ![t] = IF p = NoTask THEN NoTask ELSE root[p]]
  /\ depth' = [depth EXCEPT ![t] = IF p = NoTask THEN 0 ELSE depth[p] + 1]
  /\ asked' = [asked EXCEPT ![t] = 1]
  /\ UNCHANGED turns

\* store.createTask() for the next row, below p unless p is NoTask.
Insert(t, a, p) ==
  /\ status[t] = "free"
  /\ \A u \in Tasks : u < t => status[u] # "free"
  /\ status' = [status EXCEPT ![t] = "queued"]
  /\ agentOf' = [agentOf EXCEPT ![t] = a]
  /\ parent' = [parent EXCEPT ![t] = p]
  /\ root' = [root EXCEPT ![t] = IF p = NoTask THEN t ELSE root[p]]
  /\ depth' = [depth EXCEPT ![t] = IF p = NoTask THEN 0 ELSE depth[p] + 1]
  /\ asked' = [asked EXCEPT ![t] = 1]
  /\ UNCHANGED turns

\* A tool call that waits holds a promise until the child's turn ends.
Await(p, c, wait) == calls' = IF wait THEN calls \cup {<<p, c>>} ELSE calls
-------------------------------------------------------------------------------
(* Requests *)

\* A client, a trigger, or `retry --fresh`.
CreateTask(t, a) ==
  /\ Loaded(a)
  /\ Insert(t, a, NoTask)
  /\ Enqueue(t, a)
  /\ UNCHANGED <<config, turn, stopping, calls, doomed, ended, bounds>>

\* What sendTask() checks and does; the caller says who waits.
Accept(t) ==
  /\ Exists(t)
  /\ Loaded(agentOf[t])
  /\ Idle(t)
  /\ asked[t] < MaxAsks
  /\ status' = [status EXCEPT ![t] = "queued"]
  /\ asked' = [asked EXCEPT ![t] = @ + 1]
  /\ Enqueue(t, agentOf[t])
  /\ UNCHANGED <<agentOf, parent, root, depth, turns, config, turn, stopping,
                 doomed, ended, bounds>>

SendTask(t) == Accept(t) /\ UNCHANGED calls

\* Runs a failed or cancelled task again, continuing its session.
RetryTask(t) == status[t] \in {"failed", "cancelled"} /\ SendTask(t)

\* anchi_send_to_task: a turn continues a task it delegated.
SendToChild(p, c, wait) ==
  /\ phase[p] = "turn" /\ Exists(p) /\ Loaded(agentOf[p])
  /\ Delegates[agentOf[p]] # {}
  /\ c \in Children(p)
  /\ Accept(c)
  /\ Await(p, c, wait)

WithinLimits(p) ==
  /\ depth[p] < MaxDepth
  /\ Cardinality(Children(p)) < MaxChildren
  /\ TreeTurns(root[p]) < MaxTreeTurns

\* Mutation: only the task that delegates is looked at.
NotAboveItself(p, a) == agentOf[p] # a

\* No task from p up to its root runs as the target: it would wait for itself.
NotAbove(p, a) == \A u \in Lineage(p) : agentOf[u] # a

\* anchi_delegate_task.  Only the parent's turn has to be running: its abort or its
\* timeout may already have been signalled.
Delegate(p, t, a, wait) ==
  /\ phase[p] = "turn" /\ Exists(p) /\ Loaded(agentOf[p])
  /\ a \in Delegates[agentOf[p]] /\ Loaded(a)
  /\ WithinLimits(p)
  /\ NotAbove(p, a)
  /\ Insert(t, a, p)
  /\ Enqueue(t, a)
  /\ Await(p, t, wait)
  /\ UNCHANGED <<config, turn, stopping, doomed, ended, bounds>>

\* tasks.wait: a finished task is answered at once, so only active ones are kept.
Wait(c) ==
  /\ status[c] \in Active
  /\ <<NoTask, c>> \notin calls
  /\ calls' = calls \cup {<<NoTask, c>>}
  /\ UNCHANGED <<table, config, queues, turn, pumpDue, stopping, doomed, asked, ended, bounds>>

\* The time a tool call waits is over; the child goes on.
WaitTimeout(p, c) ==
  /\ <<p, c>> \in calls /\ p # NoTask
  /\ calls' = calls \ {<<p, c>>}
  /\ UNCHANGED <<table, config, queues, turn, pumpDue, stopping, doomed, asked, ended, bounds>>
-------------------------------------------------------------------------------
(* pump() and the turns *)

\* Mutation: one turn too many.
CanStartOneMore(a) == ~stopping /\ Cardinality(Running(a)) <= MaxTasks(a)

CanStart(a) == ~stopping /\ Cardinality(Running(a)) < MaxTasks(a)

\* No free slot, no job, or the daemon is stopping: the loop ends.
PumpStops(a) ==
  /\ a \in pumpDue
  /\ ~CanStart(a) \/ {t \in jobs : agentOf[t] = a} = {}
  /\ pumpDue' = pumpDue \ {a}
  /\ UNCHANGED <<table, config, queues, turn, stopping, calls, doomed, asked, ended, bounds>>

\* pump() takes the first job of the agent's queue.
Shift(t) ==
  /\ Head(t) /\ agentOf[t] \in pumpDue /\ CanStart(agentOf[t])
  /\ Dequeue({t})

\* The row is not queued any more (deleted meanwhile): the job is dropped.
DropJob(t) ==
  /\ Shift(t) /\ status[t] # "queued"
  /\ UNCHANGED <<table, config, turn, pumpDue, stopping, calls, doomed, asked, ended, bounds>>

\* agentFor() throws before execute() has set a status: run() logs it and ends.
StartUnloaded(t) ==
  /\ Shift(t) /\ status[t] = "queued" /\ ~Loaded(agentOf[t])
  /\ phase' = [phase EXCEPT ![t] = "over"]
  /\ UNCHANGED <<table, config, aborted, timedOut, pumpDue, stopping, calls, doomed,
                 asked, ended, bounds>>

OverBudget(t) == depth[t] > 0 /\ TreeTurns(root[t]) >= MaxTreeTurns

\* A delegated task whose tree used its turns fails without running.
StartRefused(t) ==
  /\ Shift(t) /\ status[t] = "queued" /\ Loaded(agentOf[t])
  /\ OverBudget(t)
  /\ Finish({t}, "failed")
  /\ phase' = [phase EXCEPT ![t] = "over"]
  /\ UNCHANGED <<agentOf, parent, root, depth, turns, config, aborted, timedOut, pumpDue,
                 stopping, doomed, asked, bounds>>

StartTurn(t) ==
  /\ Shift(t) /\ status[t] = "queued" /\ Loaded(agentOf[t])
  /\ ~OverBudget(t)
  /\ turns' = [turns EXCEPT ![t] = @ + 1]
  /\ status' = [status EXCEPT ![t] = "running"]
  /\ phase' = [phase EXCEPT ![t] = "begin"]
  /\ UNCHANGED <<agentOf, parent, root, depth, config, aborted, timedOut, pumpDue, stopping,
                 calls, doomed, asked, ended, bounds>>

\* cellFor() came back, for a turn nobody cancelled meanwhile: the runner gets the input.
CellReady(t) ==
  /\ phase[t] = "begin" /\ t \notin aborted
  /\ phase' = [phase EXCEPT ![t] = "turn"]
  /\ UNCHANGED <<table, config, queues, aborted, timedOut, pumpDue, stopping, calls, doomed,
                 asked, ended, bounds>>

\* The turn timer: the runner is told to cancel, and its cell is closed if it does not.
TurnTimeout(t) ==
  /\ phase[t] = "turn" /\ t \notin timedOut
  /\ timedOut' = timedOut \cup {t}
  /\ UNCHANGED <<table, config, queues, phase, aborted, pumpDue, stopping, calls, doomed,
                 asked, ended, bounds>>

\* Mutation: the turn timer outranks an abort.
OutcomeTimeoutFirst(t, said) ==
  IF t \in timedOut THEN "failed" ELSE IF t \in aborted THEN "cancelled" ELSE said

\* What a turn's end means for its task: an abort outranks a timeout, which outranks
\* what the runner said.
Outcome(t, said) ==
  IF t \in aborted THEN "cancelled" ELSE IF t \in timedOut THEN "failed" ELSE said

\* The rest of execute().  If the row was deleted under the turn, its first write to the
\* table throws and finish() is not reached.
EndTurn(t, said) ==
  /\ phase[t] \in {"begin", "turn"}
  /\ phase[t] = "begin" => said = "failed"
  /\ IF Exists(t) THEN Finish({t}, Outcome(t, said)) ELSE UNCHANGED <<status, ended, calls>>
  /\ phase' = [phase EXCEPT ![t] = "over"]
  /\ timedOut' = timedOut \ {t}
  /\ UNCHANGED <<agentOf, parent, root, depth, turns, config, queues, aborted, pumpDue, stopping,
                 doomed, asked, bounds>>

\* Mutation: nobody looks at the queue when a slot becomes free.
PumpNever(t) == UNCHANGED pumpDue

PumpAfter(t) == pumpDue' = pumpDue \cup {agentOf[t]}

\* run() after its await: the slot is free and the queue is looked at again.
RunEnds(t) ==
  /\ phase[t] = "over"
  /\ phase' = [phase EXCEPT ![t] = "none"]
  /\ aborted' = aborted \ {t}
  /\ PumpAfter(t)
  /\ UNCHANGED <<table, config, queues, timedOut, stopping, calls, doomed, asked, ended, bounds>>

\* Queued tasks on the way are finished here; running ones through their abort.
CancelTask(t) ==
  /\ Exists(t)
  /\ LET hit == {u \in CancelWalk(t) : status[u] \in Active}
         inTurn == {u \in hit : InTurn(u)}
     IN  /\ hit # {}
         /\ aborted' = aborted \cup inTurn
         /\ Dequeue(hit)
         /\ Finish(hit \ inTurn, "cancelled")
  /\ UNCHANGED <<agentOf, parent, root, depth, turns, config, phase, timedOut, pumpDue,
                 stopping, doomed, asked, bounds>>
-------------------------------------------------------------------------------
(* Deletion, configuration and restarts *)

\* deleteTask() up to its await: nothing in the tree may be queued or running.
DeleteTask(t) ==
  /\ Exists(t)
  /\ deletions < MaxDeletions
  /\ \A u \in Tree(t) : status[u] \notin Active
  /\ doomed' = doomed \cup {Tree(t)}
  /\ deletions' = deletions + 1
  /\ UNCHANGED <<table, config, queues, turn, pumpDue, stopping, calls, asked, ended,
                 restarts, edits>>

DeleteRows(S) == status' = [t \in Tasks |-> IF t \in S THEN "deleted" ELSE status[t]]

\* The cells are closed, after their scans: the rows that were checked then go now.
DeleteRest(S) ==
  /\ S \in doomed
  /\ DeleteRows(S \cap Rows)
  /\ doomed' = doomed \ {S}
  /\ UNCHANGED <<agentOf, parent, root, depth, turns, config, queues, turn, pumpDue, stopping,
                 calls, asked, ended, bounds>>

\* Retention: the finished tasks among the rows created first, up to row k.
Purge(k) ==
  /\ deletions < MaxDeletions
  /\ LET old == {t \in 1..k : status[t] \in Final}
     IN  k \in old /\ DeleteRows(old)
  /\ deletions' = deletions + 1
  /\ UNCHANGED <<agentOf, parent, root, depth, turns, config, queues, turn, pumpDue, stopping,
                 calls, doomed, asked, ended, restarts, edits>>

\* Mutation: reload() leaves the queues to the turns that end.
EditNoPump(a, c) ==
  /\ edits < MaxEdits /\ c # config[a]
  /\ config' = [config EXCEPT ![a] = c]
  /\ edits' = edits + 1
  /\ UNCHANGED <<table, queues, turn, pumpDue, stopping, calls, doomed, asked, ended,
                 restarts, deletions>>

\* An agent's file changes and reload() pumps every agent.
EditAgent(a, c) ==
  /\ edits < MaxEdits /\ c # config[a]
  /\ config' = [config EXCEPT ![a] = c]
  /\ pumpDue' = Agents
  /\ edits' = edits + 1
  /\ UNCHANGED <<table, queues, turn, stopping, calls, doomed, asked, ended, restarts, deletions>>

Suspend ==
  /\ ~stopping /\ restarts < MaxRestarts
  /\ stopping' = TRUE
  /\ UNCHANGED <<table, config, queues, turn, pumpDue, calls, doomed, asked, ended, bounds>>

\* The process ends, by a crash or after stop(), and the next daemon starts: the table
\* survives, and recoverInterrupted() fails what was queued or running.
Restart ==
  /\ restarts < MaxRestarts
  /\ restarts' = restarts + 1
  /\ LET interrupted == {t \in Tasks : status[t] \in Active}
     IN  /\ status' = [t \in Tasks |-> IF t \in interrupted THEN "failed" ELSE status[t]]
         /\ ended' = [t \in Tasks |-> IF t \in interrupted THEN ended[t] + 1 ELSE ended[t]]
  /\ jobs' = {} /\ ahead' = [t \in Tasks |-> {}]
  /\ phase' = [t \in Tasks |-> "none"] /\ aborted' = {} /\ timedOut' = {}
  /\ pumpDue' = {} /\ stopping' = FALSE /\ calls' = {} /\ doomed' = {}
  /\ UNCHANGED <<agentOf, parent, root, depth, turns, config, asked, deletions, edits>>
-------------------------------------------------------------------------------
Init ==
  /\ status = [t \in Tasks |-> "free"]
  /\ agentOf = [t \in Tasks |-> CHOOSE a \in Agents : TRUE]  \* no meaning before the row exists
  /\ parent = [t \in Tasks |-> NoTask]
  /\ root = [t \in Tasks |-> t]
  /\ depth = [t \in Tasks |-> 0]
  /\ turns = [t \in Tasks |-> 0]
  /\ config \in [Agents -> Limits]
  /\ jobs = {} /\ ahead = [t \in Tasks |-> {}]
  /\ phase = [t \in Tasks |-> "none"] /\ aborted = {} /\ timedOut = {}
  /\ pumpDue = {} /\ stopping = FALSE /\ calls = {} /\ doomed = {}
  /\ asked = [t \in Tasks |-> 0] /\ ended = [t \in Tasks |-> 0]
  /\ restarts = 0 /\ deletions = 0 /\ edits = 0

Next ==
  \/ \E t \in Tasks, a \in Agents : CreateTask(t, a)
  \/ \E t \in Tasks : \/ SendTask(t) \/ RetryTask(t) \/ CancelTask(t) \/ Wait(t)
                      \/ DropJob(t) \/ StartUnloaded(t) \/ StartRefused(t) \/ StartTurn(t)
                      \/ CellReady(t) \/ TurnTimeout(t) \/ RunEnds(t)
                      \/ DeleteTask(t) \/ Purge(t)
  \/ \E t \in Tasks, said \in {"done", "failed"} : EndTurn(t, said)
  \/ \E p, c \in Tasks, wait \in BOOLEAN : SendToChild(p, c, wait)
  \/ \E p, t \in Tasks, a \in Agents, wait \in BOOLEAN : Delegate(p, t, a, wait)
  \/ \E p, c \in Tasks : WaitTimeout(p, c)
  \/ \E a \in Agents : PumpStops(a)
  \/ \E S \in doomed : DeleteRest(S)
  \/ \E a \in Agents, c \in Limits \cup {Broken} : EditAgent(a, c)
  \/ Suspend
  \/ Restart

Spec == Init /\ [][Next]_vars

(***************************************************************************)
(* What the program does by itself: the event loop runs what is due, the   *)
(* timers of a tool call, of the wait for a cell and of a turn fire, and a *)
(* runner ends a turn it was told to cancel or that waits for no tool call *)
(* (execute() closes the cell of one that does not).  Clients and the user *)
(* owe nothing.                                                            *)
(***************************************************************************)
TurnStarts(t) == StartTurn(t) \/ StartRefused(t) \/ StartUnloaded(t) \/ DropJob(t)
TurnEnds(t) ==
  /\ t \in aborted \cup timedOut \/ \A c \in Tasks : <<t, c>> \notin calls
  /\ \E said \in {"done", "failed"} : EndTurn(t, said)

Fairness ==
  /\ \A a \in Agents : WF_vars(PumpStops(a))
  /\ \A t \in Tasks : /\ WF_vars(TurnStarts(t)) /\ WF_vars(TurnEnds(t)) /\ WF_vars(RunEnds(t))
                      /\ WF_vars(TurnTimeout(t))
  /\ \A p, c \in Tasks : WF_vars(WaitTimeout(p, c))
  /\ WF_vars(stopping /\ Restart)

FairSpec == Spec /\ Fairness
-------------------------------------------------------------------------------
(* Properties *)

\* Every variable has its type; a delegation is never deeper than DELEGATION.maxDepth.
TypeOK ==
  /\ status \in [Tasks -> Status]
  /\ agentOf \in [Tasks -> Agents]
  /\ parent \in [Tasks -> Tasks \cup {NoTask}]
  /\ root \in [Tasks -> Tasks]
  /\ depth \in [Tasks -> 0..MaxDepth]
  /\ turns \in [Tasks -> Nat]
  /\ config \in [Agents -> Limits \cup {Broken}]
  /\ jobs \subseteq Tasks
  /\ ahead \in [Tasks -> SUBSET Tasks]
  /\ phase \in [Tasks -> Phases]
  /\ aborted \subseteq Tasks /\ timedOut \subseteq Tasks
  /\ pumpDue \subseteq Agents
  /\ stopping \in BOOLEAN
  /\ calls \subseteq (Tasks \cup {NoTask}) \X Tasks
  /\ doomed \subseteq SUBSET Tasks
  /\ asked \in [Tasks -> 0..(MaxAsks + 1)] /\ ended \in [Tasks -> Nat]
  /\ restarts \in Nat /\ deletions \in Nat /\ edits \in Nat

\* The table and the queues agree while no agent file changes: a task shown as running has
\* a turn that will finish it, a task shown as queued has a job that will be started, and
\* nothing else runs or waits under the row of a finished task (sendTask, pump, cancelTask).
TableMatchesQueues ==
  \A t \in Rows : /\ status[t] = "running" <=> phase[t] \in {"begin", "turn"}
                  /\ status[t] = "queued" <=> t \in jobs

\* The tasks whose turns wait for the turn of t, or for one that waits for it.
WaitersOf(t) ==
  LET up[u \in Tasks] ==
        LET callers == {p \in Tasks : <<p, u>> \in calls}
        IN  callers \cup UNION {up[p] : p \in callers}
  IN  up[t]

\* No job waits for a slot of its agent of which all are held by turns that wait for the job
\* itself, over however many delegations ("that agent would wait for itself", delegate).
NotBehindItsWaiters ==
  \A t \in jobs : Cardinality(Running(agentOf[t])) >= MaxTasks(agentOf[t])
                    => ~(Running(agentOf[t]) \subseteq WaitersOf(t))

\* Every accepted request is finished exactly once, whoever finishes it: the turn, a cancel,
\* the delegation budget or the recovery after a restart ("finishing it exactly once").
FinishedOnce ==
  \A t \in Rows : asked[t] - ended[t] = IF status[t] \in Active THEN 1 ELSE 0

\* An agent never runs more of its tasks at once than its `maxTasks`, while that is not edited.
SlotsHold == \A a \in Agents : Cardinality(Running(a)) <= MaxTasks(a)

\* No job is forgotten: an agent whose queue pump() is not about to look at again has no
\* job waiting or no slot free, after every finish, cancel, follow-up and agent file edit.
NoJobForgotten ==
  stopping \/ \A a \in Agents \ pumpDue :
    (\E t \in jobs : agentOf[t] = a) => Cardinality(Running(a)) >= MaxTasks(a)

\* Once a turn is aborted its task can only end as cancelled, whatever the runner or the turn
\* timer say after that; a restart alone may fail it.
CancelSticks ==
  [][\A t \in aborted : status[t] = "running" /\ status'[t] \in Final /\ restarts' = restarts
                          => status'[t] = "cancelled"]_vars

\* Every accepted request ends, though a turn may hold its agent's only slot while it waits for
\* the turn of a task it delegated.
RequestSettles == \A t \in Tasks : (status[t] \in Active) ~> (status[t] \notin Active)

\* Everyone who waits for a turn is told when it ends, or is timed out.
WaitAnswered ==
  \A p \in Tasks \cup {NoTask}, c \in Tasks : (<<p, c>> \in calls) ~> (<<p, c>> \notin calls)

\* deleteTask deletes tasks "once none of them is running": no row goes while its task is
\* queued or running.
RowOutlivesTurn ==
  [][\A t \in Tasks : status[t] \in Active => status'[t] # "deleted"]_vars
===============================================================================
