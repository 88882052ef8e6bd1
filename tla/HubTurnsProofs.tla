---------------------------- MODULE HubTurnsProofs ----------------------------
(* Theorems about HubTurns, for any agents, limits and bounds. *)
EXTENDS HubTurns, FiniteSetTheorems, TLAPS

(***************************************************************************)
(* Types.  Every action is a step of its own, in the order of Next.        *)
(***************************************************************************)

\* Constants, as the steps below need them.
LEMMA Constants ==
  /\ Tasks \subseteq Nat /\ 0 \notin Tasks /\ NoTask = 0
  /\ MaxDepth \in Nat /\ MaxAsks \in Nat
  BY HubAssumption DEF Tasks, NoTask

\* enqueue() keeps the queues typed.
LEMMA EnqueueTyped ==
  ASSUME TypeOK, NEW t \in Tasks, NEW a \in Agents, Enqueue(t, a)
  PROVE  jobs' \subseteq Tasks /\ ahead' \in [Tasks -> SUBSET Tasks] /\ pumpDue' \subseteq Agents
<1>1. {u \in jobs : agentOf[u] = a} \in SUBSET Tasks
  BY DEF TypeOK
<1> QED
  BY <1>1 DEF TypeOK, Enqueue

\* So do pump() and the filter of cancelTask().
LEMMA DequeueTyped ==
  ASSUME TypeOK, NEW S, Dequeue(S)
  PROVE  jobs' \subseteq Tasks /\ ahead' \in [Tasks -> SUBSET Tasks]
<1>1. \A u \in Tasks : (IF u \in S THEN {} ELSE ahead[u] \ S) \in SUBSET Tasks
  BY DEF TypeOK
<1> QED
  BY <1>1 DEF TypeOK, Dequeue

\* finish() keeps the table and the promises typed.
LEMMA FinishTyped ==
  ASSUME TypeOK, NEW S, NEW outcome \in Final, Finish(S, outcome)
  PROVE  /\ status' \in [Tasks -> Status] /\ ended' \in [Tasks -> Nat]
         /\ calls' \subseteq (Tasks \cup {NoTask}) \X Tasks
<1>1. \A u \in Tasks : (IF u \in S THEN outcome ELSE status[u]) \in Status
  BY DEF TypeOK, Status
<1>2. \A u \in Tasks : (IF u \in S THEN ended[u] + 1 ELSE ended[u]) \in Nat
  BY DEF TypeOK
<1> QED
  BY <1>1, <1>2 DEF TypeOK, Finish

\* So does createTask() of the store, for a delegation that delegate() allowed.
LEMMA InsertTyped ==
  ASSUME TypeOK, NEW t \in Tasks, NEW a \in Agents, NEW p \in Tasks \cup {NoTask},
         p # NoTask => depth[p] < MaxDepth, Insert(t, a, p)
  PROVE  /\ status' \in [Tasks -> Status] /\ agentOf' \in [Tasks -> Agents]
         /\ parent' \in [Tasks -> Tasks \cup {NoTask}] /\ root' \in [Tasks -> Tasks]
         /\ depth' \in [Tasks -> 0..MaxDepth] /\ turns' \in [Tasks -> Nat]
         /\ asked' \in [Tasks -> 0..(MaxAsks + 1)]
<1>1. (IF p = NoTask THEN t ELSE root[p]) \in Tasks
  BY DEF TypeOK
<1>2. (IF p = NoTask THEN 0 ELSE depth[p] + 1) \in 0..MaxDepth
  <2>1. CASE p = NoTask
    BY <2>1, Constants
  <2>2. CASE p # NoTask
    <3>1. depth[p] \in 0..MaxDepth
      BY <2>2 DEF TypeOK
    <3> QED
      BY <2>2, <3>1, Constants
  <2> QED
    BY <2>1, <2>2
<1>3. 1 \in 0..(MaxAsks + 1)
  BY Constants
<1> QED
  BY <1>1, <1>2, <1>3 DEF TypeOK, Insert, Status, Active

\* A request that sendTask() accepts keeps the table typed.
LEMMA AcceptTyped ==
  ASSUME TypeOK, NEW t \in Tasks, Accept(t)
  PROVE  /\ status' \in [Tasks -> Status] /\ asked' \in [Tasks -> 0..(MaxAsks + 1)]
         /\ jobs' \subseteq Tasks /\ ahead' \in [Tasks -> SUBSET Tasks] /\ pumpDue' \subseteq Agents
<1>1. agentOf[t] \in Agents /\ Enqueue(t, agentOf[t])
  BY DEF TypeOK, Accept
<1>2. asked[t] + 1 \in 0..(MaxAsks + 1)
  <2>1. asked[t] \in 0..(MaxAsks + 1) /\ asked[t] < MaxAsks
    BY DEF TypeOK, Accept
  <2> QED
    BY <2>1, Constants
<1> QED
  BY <1>1, <1>2, EnqueueTyped DEF TypeOK, Accept, Status, Active

\* The initial table and queues of a daemon that never ran are well typed (Init).
LEMMA InitTyped == Init => TypeOK
<1> SUFFICES ASSUME Init PROVE TypeOK
  OBVIOUS
<1>1. (CHOOSE a \in Agents : TRUE) \in Agents
  BY HubAssumption
<1>2. 0 \in 0..MaxDepth /\ 0 \in 0..(MaxAsks + 1)
  BY Constants
<1>3. /\ status \in [Tasks -> Status] /\ phase \in [Tasks -> Phases]
      /\ agentOf \in [Tasks -> Agents]
      /\ config \in [Agents -> Limits \cup {Broken}]
  BY <1>1 DEF Init, Status, Phases
<1>4. /\ parent \in [Tasks -> Tasks \cup {NoTask}] /\ root \in [Tasks -> Tasks]
      /\ depth \in [Tasks -> 0..MaxDepth] /\ turns \in [Tasks -> Nat]
      /\ asked \in [Tasks -> 0..(MaxAsks + 1)] /\ ended \in [Tasks -> Nat]
  BY <1>2 DEF Init
<1>5. ahead \in [Tasks -> SUBSET Tasks]
  BY DEF Init
<1> QED
  BY <1>3, <1>4, <1>5 DEF Init, TypeOK

\* Every handler leaves the table, the queues and the promises well typed.
LEMMA NextTyped == TypeOK /\ [Next]_vars => TypeOK'
<1> SUFFICES ASSUME TypeOK, [Next]_vars PROVE TypeOK'
  OBVIOUS
<1> USE DEF TypeOK, Status, Active, Final, Phases
<1>1. ASSUME NEW t \in Tasks, NEW a \in Agents, CreateTask(t, a) PROVE TypeOK'
  <2>1. /\ Insert(t, a, NoTask) /\ Enqueue(t, a)
        /\ UNCHANGED <<config, turn, stopping, calls, doomed, ended, bounds>>
    BY <1>1 DEF CreateTask
  <2> QED
    BY <2>1, InsertTyped, EnqueueTyped DEF turn, bounds
<1>2. ASSUME NEW t \in Tasks, SendTask(t) PROVE TypeOK'
  <2>1. Accept(t) /\ UNCHANGED calls
    BY <1>2 DEF SendTask
  <2>2. UNCHANGED <<agentOf, parent, root, depth, turns, config, turn, stopping, doomed, ended, bounds>>
    BY <2>1 DEF Accept
  <2> QED
    BY <2>1, <2>2, AcceptTyped DEF turn, bounds
<1>3. ASSUME NEW t \in Tasks, RetryTask(t) PROVE TypeOK'
  BY <1>3, <1>2 DEF RetryTask
<1>4. ASSUME NEW t \in Tasks, CancelTask(t) PROVE TypeOK'
  <2> DEFINE hit == {u \in CancelWalk(t) : status[u] \in Active}
             inTurn == {u \in hit : InTurn(u)}
  <2>1. Dequeue(hit) /\ Finish(hit \ inTurn, "cancelled") /\ aborted' = aborted \cup inTurn
    BY <1>4 DEF CancelTask
  <2>2. UNCHANGED <<agentOf, parent, root, depth, turns, config, phase, timedOut, pumpDue,
                    stopping, doomed, asked, bounds>>
    BY <1>4 DEF CancelTask
  <2>3. inTurn \subseteq Tasks
    BY DEF CancelWalk
  <2>4. jobs' \subseteq Tasks /\ ahead' \in [Tasks -> SUBSET Tasks]
    BY <2>1, DequeueTyped
  <2>5. /\ status' \in [Tasks -> Status] /\ ended' \in [Tasks -> Nat]
        /\ calls' \subseteq (Tasks \cup {NoTask}) \X Tasks
    BY <2>1, FinishTyped DEF Final
  <2> QED
    BY <2>1, <2>2, <2>3, <2>4, <2>5 DEF bounds
<1>5. ASSUME NEW t \in Tasks, Wait(t) PROVE TypeOK'
  BY <1>5 DEF Wait, bounds, turn, table, queues
<1>6. ASSUME NEW t \in Tasks, DropJob(t) PROVE TypeOK'
  BY <1>6 DEF DropJob, Shift, Dequeue, bounds, turn, table
<1>7. ASSUME NEW t \in Tasks, StartUnloaded(t) PROVE TypeOK'
  BY <1>7 DEF StartUnloaded, Shift, Dequeue, bounds, table
<1>8. ASSUME NEW t \in Tasks, StartRefused(t) PROVE TypeOK'
  BY <1>8 DEF StartRefused, Shift, Dequeue, Finish, bounds
<1>9. ASSUME NEW t \in Tasks, StartTurn(t) PROVE TypeOK'
  BY <1>9 DEF StartTurn, Shift, Dequeue, bounds
<1>10. ASSUME NEW t \in Tasks, CellReady(t) PROVE TypeOK'
  BY <1>10 DEF CellReady, bounds, table, queues
<1>11. ASSUME NEW t \in Tasks, TurnTimeout(t) PROVE TypeOK'
  BY <1>11 DEF TurnTimeout, bounds, table, queues
<1>12. ASSUME NEW t \in Tasks, RunEnds(t) PROVE TypeOK'
  BY <1>12 DEF RunEnds, PumpAfter, bounds, table, queues
<1>13. ASSUME NEW t \in Tasks, DeleteTask(t) PROVE TypeOK'
  BY <1>13 DEF DeleteTask, Tree, Rows, table, queues, turn
<1>14. ASSUME NEW t \in Tasks, Purge(t) PROVE TypeOK'
  BY <1>14 DEF Purge, DeleteRows, queues, turn
<1>15. ASSUME NEW t \in Tasks, NEW said \in {"done", "failed"}, EndTurn(t, said) PROVE TypeOK'
  BY <1>15 DEF EndTurn, Finish, Outcome, bounds, queues
<1>16. ASSUME NEW p \in Tasks, NEW c \in Tasks, NEW wait \in BOOLEAN, SendToChild(p, c, wait)
       PROVE TypeOK'
  <2>1. Accept(c) /\ Await(p, c, wait)
    BY <1>16 DEF SendToChild
  <2>2. UNCHANGED <<agentOf, parent, root, depth, turns, config, turn, stopping, doomed, ended, bounds>>
    BY <2>1 DEF Accept
  <2>3. calls' \subseteq (Tasks \cup {NoTask}) \X Tasks
    BY <2>1 DEF Await
  <2> QED
    BY <2>1, <2>2, <2>3, AcceptTyped DEF turn, bounds
<1>17. ASSUME NEW p \in Tasks, NEW t \in Tasks, NEW a \in Agents, NEW wait \in BOOLEAN,
              Delegate(p, t, a, wait)
       PROVE TypeOK'
  <2>1. /\ Insert(t, a, p) /\ Enqueue(t, a) /\ Await(p, t, wait) /\ depth[p] < MaxDepth
        /\ UNCHANGED <<config, turn, stopping, doomed, ended, bounds>>
    BY <1>17 DEF Delegate, WithinLimits
  <2>2. calls' \subseteq (Tasks \cup {NoTask}) \X Tasks
    BY <2>1 DEF Await
  <2> QED
    BY <2>1, <2>2, InsertTyped, EnqueueTyped DEF turn, bounds
<1>18. ASSUME NEW p \in Tasks, NEW c \in Tasks, WaitTimeout(p, c) PROVE TypeOK'
  BY <1>18 DEF WaitTimeout, bounds, turn, table, queues
<1>19. ASSUME NEW a \in Agents, PumpStops(a) PROVE TypeOK'
  BY <1>19 DEF PumpStops, bounds, turn, table, queues
<1>20. ASSUME NEW S \in doomed, DeleteRest(S) PROVE TypeOK'
  BY <1>20 DEF DeleteRest, DeleteRows, bounds, queues, turn
<1>21. ASSUME NEW a \in Agents, NEW c \in Limits \cup {Broken}, EditAgent(a, c) PROVE TypeOK'
  BY <1>21 DEF EditAgent, table, queues, turn
<1>22. ASSUME Suspend PROVE TypeOK'
  BY <1>22 DEF Suspend, bounds, turn, table, queues
<1>23. ASSUME Restart PROVE TypeOK'
  <2>1. status' \in [Tasks -> Status] /\ ended' \in [Tasks -> Nat]
    BY <1>23 DEF Restart
  <2>2. /\ jobs' = {} /\ aborted' = {} /\ timedOut' = {} /\ pumpDue' = {} /\ calls' = {}
        /\ doomed' = {} /\ stopping' = FALSE /\ restarts' = restarts + 1
        /\ UNCHANGED <<agentOf, parent, root, depth, turns, config, asked, deletions, edits>>
    BY <1>23 DEF Restart
  <2>3. ahead' \in [Tasks -> SUBSET Tasks] /\ phase' \in [Tasks -> Phases]
    BY <1>23 DEF Restart
  <2>4. /\ jobs' \subseteq Tasks /\ aborted' \subseteq Tasks /\ timedOut' \subseteq Tasks
        /\ pumpDue' \subseteq Agents /\ calls' \subseteq (Tasks \cup {NoTask}) \X Tasks
        /\ doomed' \subseteq SUBSET Tasks /\ stopping' \in BOOLEAN
    BY <2>2
  <2>5. restarts' \in Nat
    BY <2>2
  <2> QED
    BY <2>1, <2>2, <2>3, <2>4, <2>5
<1>24. ASSUME UNCHANGED vars PROVE TypeOK'
  BY <1>24 DEF vars, table, queues, turn, bounds
<1> QED
  BY <1>1, <1>2, <1>3, <1>4, <1>5, <1>6, <1>7, <1>8, <1>9, <1>10, <1>11, <1>12, <1>13, <1>14,
     <1>15, <1>16, <1>17, <1>18, <1>19, <1>20, <1>21, <1>22, <1>23, <1>24 DEF Next

\* The task table, the queues and the promises keep their types; in particular a delegation
\* is never deeper than DELEGATION.maxDepth, however requests, cancels and restarts mix.
THEOREM TypeCorrect == Spec => []TypeOK
<1>1. Init => TypeOK
  BY InitTyped
<1>2. TypeOK /\ [Next]_vars => TypeOK'
  BY NextTyped
<1> QED
  BY <1>1, <1>2, PTL DEF Spec
-------------------------------------------------------------------------------
(***************************************************************************)
(* The queues.  JobsInLine is inductive next to the fact that a row which  *)
(* does not exist yet is in no queue and in no turn, so that a new task    *)
(* joins its agent's line as a newcomer.                                   *)
(***************************************************************************)

\* The relation `ahead` stands for the code's arrays: of two jobs of an agent exactly one is in
\* front of the other, and only jobs still waiting hold back the ones behind them (enqueue, pump,
\* cancelTask's filter).
JobsInLine ==
  /\ \A t \in jobs : phase[t] = "none" /\ t \notin ahead[t]
  /\ \A t \in Tasks : ahead[t] \subseteq {u \in jobs : agentOf[u] = agentOf[t]}
  /\ \A t, u \in jobs : t # u /\ agentOf[t] = agentOf[u] => (t \in ahead[u] <=> u \notin ahead[t])

\* Before its row is created a task is nowhere (the id of a row is never used again).
FreeUnused ==
  \A t \in Tasks : status[t] = "free" => phase[t] = "none" /\ t \notin jobs /\ ended[t] = 0

LineInv == TypeOK /\ JobsInLine /\ FreeUnused

\* enqueue() of a task that is in no queue and in no turn keeps every queue in line.
LEMMA EnqueueInLine ==
  ASSUME TypeOK, JobsInLine, NEW t \in Tasks, NEW a \in Agents,
         t \notin jobs, phase[t] = "none", UNCHANGED phase,
         agentOf' = [agentOf EXCEPT ![t] = a], Enqueue(t, a)
  PROVE  JobsInLine'
<1>1. /\ jobs' = jobs \cup {t}
      /\ ahead' = [ahead EXCEPT ![t] = {u \in jobs : agentOf[u] = a}]
  BY DEF Enqueue
<1>2. /\ agentOf'[t] = a
      /\ \A u \in Tasks \ {t} : agentOf'[u] = agentOf[u] /\ ahead'[u] = ahead[u]
      /\ ahead'[t] = {u \in jobs : agentOf'[u] = a}
  BY <1>1 DEF TypeOK
<1>3. \A u \in jobs' : phase'[u] = "none" /\ u \notin ahead'[u]
  BY <1>1, <1>2 DEF JobsInLine, TypeOK
<1>4. \A u \in Tasks : ahead'[u] \subseteq {v \in jobs' : agentOf'[v] = agentOf'[u]}
  BY <1>1, <1>2 DEF JobsInLine, TypeOK
<1>5. ASSUME NEW u \in jobs', NEW v \in jobs', u # v, agentOf'[u] = agentOf'[v]
      PROVE  u \in ahead'[v] <=> v \notin ahead'[u]
  <2>1. CASE u = t
    BY <2>1, <1>1, <1>2, <1>5 DEF JobsInLine, TypeOK
  <2>2. CASE v = t
    BY <2>2, <1>1, <1>2, <1>5 DEF JobsInLine, TypeOK
  <2>3. CASE u # t /\ v # t
    BY <2>3, <1>1, <1>2, <1>5 DEF JobsInLine, TypeOK
  <2> QED
    BY <2>1, <2>2, <2>3
<1> QED
  BY <1>3, <1>4, <1>5 DEF JobsInLine

\* Jobs that leave, shifted by pump() or filtered out by cancelTask(), leave the rest in line.
LEMMA DequeueInLine ==
  ASSUME TypeOK, JobsInLine, NEW S, Dequeue(S), UNCHANGED agentOf,
         \A u \in jobs \ S : phase'[u] = phase[u]
  PROVE  JobsInLine'
<1>1. /\ jobs' = jobs \ S
      /\ \A u \in Tasks : ahead'[u] = IF u \in S THEN {} ELSE ahead[u] \ S
  BY DEF Dequeue
<1>2. ASSUME NEW u \in Tasks
      PROVE  /\ ahead'[u] \subseteq ahead[u] \ S
             /\ u \notin S => ahead'[u] = ahead[u] \ S
  BY <1>1
<1>3. agentOf' = agentOf /\ jobs \subseteq Tasks
  BY DEF TypeOK
<1>4. \A u \in jobs' : phase'[u] = "none" /\ u \notin ahead'[u]
  BY <1>1, <1>2, <1>3 DEF JobsInLine
<1>5. \A u \in Tasks : ahead'[u] \subseteq {v \in jobs' : agentOf'[v] = agentOf'[u]}
  BY <1>1, <1>2, <1>3 DEF JobsInLine
<1>6. ASSUME NEW u \in jobs', NEW v \in jobs', u # v, agentOf'[u] = agentOf'[v]
      PROVE  u \in ahead'[v] <=> v \notin ahead'[u]
  <2>1. u \in ahead[v] <=> v \notin ahead[u]
    BY <1>1, <1>3, <1>6 DEF JobsInLine
  <2> QED
    BY <2>1, <1>1, <1>2, <1>3
<1> QED
  BY <1>4, <1>5, <1>6 DEF JobsInLine

\* Turns that go on or end do not touch a queue.
LEMMA PhaseInLine ==
  ASSUME TypeOK, JobsInLine, UNCHANGED <<jobs, ahead, agentOf>>,
         \A u \in jobs : phase'[u] = "none"
  PROVE  JobsInLine'
BY DEF JobsInLine, TypeOK

\* Every handler keeps each agent's queue in line.
LEMMA NextInLine == LineInv /\ [Next]_vars => LineInv'
<1> SUFFICES ASSUME LineInv, [Next]_vars PROVE JobsInLine' /\ FreeUnused'
  BY NextTyped DEF LineInv
<1>t. TypeOK /\ TypeOK' /\ JobsInLine /\ FreeUnused
  BY NextTyped DEF LineInv
<1>1. ASSUME NEW t \in Tasks, NEW a \in Agents, NEW p \in Tasks \cup {NoTask},
             Insert(t, a, p), Enqueue(t, a), UNCHANGED <<phase, ended>>
      PROVE  JobsInLine' /\ FreeUnused'
  <2>1. /\ status[t] = "free" /\ agentOf' = [agentOf EXCEPT ![t] = a]
        /\ status' = [status EXCEPT ![t] = "queued"] /\ jobs' = jobs \cup {t}
    BY <1>1 DEF Insert, Enqueue
  <2>2. t \notin jobs /\ phase[t] = "none"
    BY <1>t, <2>1 DEF FreeUnused
  <2>3. JobsInLine'
    BY <1>1, <1>t, <2>1, <2>2, EnqueueInLine
  <2>4. FreeUnused'
    BY <1>1, <1>t, <2>1 DEF FreeUnused, TypeOK
  <2> QED
    BY <2>3, <2>4
<1>2. ASSUME NEW t \in Tasks, Accept(t) PROVE JobsInLine' /\ FreeUnused'
  <2>1. /\ agentOf[t] \in Agents /\ agentOf' = [agentOf EXCEPT ![t] = agentOf[t]]
        /\ Enqueue(t, agentOf[t]) /\ t \notin jobs /\ phase[t] = "none"
        /\ UNCHANGED <<phase, ended>>
    BY <1>2, <1>t DEF Accept, Idle, TypeOK, turn
  <2>2. JobsInLine'
    BY <1>t, <2>1, EnqueueInLine
  <2>3. status' = [status EXCEPT ![t] = "queued"] /\ jobs' = jobs \cup {t}
    BY <1>2 DEF Accept, Enqueue
  <2>4. FreeUnused'
    BY <1>t, <2>1, <2>3 DEF FreeUnused, TypeOK
  <2> QED
    BY <2>2, <2>4
<1>3. ASSUME NEW t \in Tasks, NEW a \in Agents, CreateTask(t, a) PROVE JobsInLine' /\ FreeUnused'
  BY <1>1, <1>3 DEF CreateTask, turn
<1>4. ASSUME NEW t \in Tasks, SendTask(t) \/ RetryTask(t) PROVE JobsInLine' /\ FreeUnused'
  BY <1>2, <1>4 DEF SendTask, RetryTask
<1>5. ASSUME NEW p \in Tasks, NEW c \in Tasks, NEW wait \in BOOLEAN, SendToChild(p, c, wait)
      PROVE  JobsInLine' /\ FreeUnused'
  BY <1>2, <1>5 DEF SendToChild
<1>6. ASSUME NEW p \in Tasks, NEW t \in Tasks, NEW a \in Agents, NEW wait \in BOOLEAN,
             Delegate(p, t, a, wait)
      PROVE  JobsInLine' /\ FreeUnused'
  BY <1>1, <1>6 DEF Delegate, turn
<1>7. ASSUME NEW t \in Tasks, CancelTask(t) PROVE JobsInLine' /\ FreeUnused'
  <2> DEFINE hit == {u \in CancelWalk(t) : status[u] \in Active}
             inTurn == {u \in hit : InTurn(u)}
  <2>1. /\ Dequeue(hit) /\ Finish(hit \ inTurn, "cancelled") /\ UNCHANGED <<agentOf, phase>>
    BY <1>7 DEF CancelTask
  <2>2. JobsInLine'
    BY <1>t, <2>1, DequeueInLine
  <2>3. \A u \in hit : status[u] # "free"
    BY DEF Active
  <2>4. FreeUnused'
    BY <1>t, <2>1, <2>3 DEF FreeUnused, TypeOK, Dequeue, Finish
  <2> QED
    BY <2>2, <2>4
<1>8. ASSUME NEW t \in Tasks, TurnStarts(t) PROVE JobsInLine' /\ FreeUnused'
  <2>1. /\ Dequeue({t}) /\ UNCHANGED agentOf /\ t \in jobs
        /\ \A u \in Tasks \ {t} : phase'[u] = phase[u]
    BY <1>8, <1>t DEF TurnStarts, StartTurn, StartRefused, StartUnloaded, DropJob, Shift, Head,
                      table, turn, TypeOK
  <2>2. JobsInLine'
    BY <1>t, <2>1, DequeueInLine DEF TypeOK
  <2>3. /\ status[t] # "free"
        /\ \A u \in Tasks : status'[u] = "free" => status[u] = "free" /\ ended'[u] = ended[u]
    BY <1>8, <1>t, <2>1 DEF TurnStarts, StartTurn, StartRefused, StartUnloaded, DropJob, Finish,
                            table, TypeOK, FreeUnused
  <2>4. FreeUnused'
    BY <1>t, <2>1, <2>3 DEF FreeUnused, TypeOK, Dequeue
  <2> QED
    BY <2>2, <2>4
<1>9. ASSUME NEW t \in Tasks, CellReady(t) \/ RunEnds(t) PROVE JobsInLine' /\ FreeUnused'
  <2>1. /\ UNCHANGED <<jobs, ahead, agentOf, status, ended>> /\ phase[t] # "none"
        /\ \A u \in Tasks \ {t} : phase'[u] = phase[u]
    BY <1>9, <1>t DEF CellReady, RunEnds, table, queues, TypeOK
  <2>2. \A u \in jobs : phase'[u] = "none"
    BY <1>t, <2>1 DEF JobsInLine, TypeOK
  <2>3. FreeUnused'
    BY <1>t, <2>1 DEF FreeUnused
  <2> QED
    BY <1>t, <2>1, <2>2, <2>3, PhaseInLine
<1>10. ASSUME NEW t \in Tasks, NEW said \in {"done", "failed"}, EndTurn(t, said)
       PROVE  JobsInLine' /\ FreeUnused'
  <2>1. /\ UNCHANGED <<jobs, ahead, agentOf>> /\ phase[t] # "none"
        /\ phase' = [phase EXCEPT ![t] = "over"]
    BY <1>10 DEF EndTurn, queues
  <2>2. \A u \in jobs : phase'[u] = "none"
    BY <1>t, <2>1 DEF JobsInLine, TypeOK
  <2>3. \A u \in Tasks \ {t} : status'[u] = status[u] /\ ended'[u] = ended[u]
    BY <1>10, <1>t DEF EndTurn, Finish, TypeOK
  <2>4. status[t] # "free" /\ status'[t] # "free"
    BY <1>10, <1>t, <2>1 DEF EndTurn, Finish, Outcome, FreeUnused, TypeOK
  <2>5. FreeUnused'
    BY <1>t, <2>1, <2>3, <2>4 DEF FreeUnused, TypeOK
  <2> QED
    BY <1>t, <2>1, <2>2, <2>5, PhaseInLine
<1>11. ASSUME UNCHANGED <<queues, agentOf, phase, ended>>,
              \A u \in Tasks : status'[u] = "free" => status[u] = "free"
       PROVE  JobsInLine' /\ FreeUnused'
  <2>1. JobsInLine'
    BY <1>t, <1>11, PhaseInLine DEF queues, JobsInLine
  <2>2. FreeUnused'
    BY <1>t, <1>11 DEF FreeUnused, queues
  <2> QED
    BY <2>1, <2>2
<1>12. ASSUME NEW t \in Tasks, DeleteTask(t) \/ Wait(t) \/ TurnTimeout(t)
       PROVE  JobsInLine' /\ FreeUnused'
  BY <1>11, <1>12 DEF DeleteTask, Wait, TurnTimeout, table, turn
<1>13. ASSUME NEW t \in Tasks, Purge(t) PROVE JobsInLine' /\ FreeUnused'
  BY <1>11, <1>13 DEF Purge, DeleteRows, turn
<1>14. ASSUME NEW S \in doomed, DeleteRest(S) PROVE JobsInLine' /\ FreeUnused'
  BY <1>11, <1>14 DEF DeleteRest, DeleteRows, turn
<1>15. ASSUME NEW p \in Tasks, NEW c \in Tasks, WaitTimeout(p, c) PROVE JobsInLine' /\ FreeUnused'
  BY <1>11, <1>15 DEF WaitTimeout, table, turn
<1>16. ASSUME NEW a \in Agents, PumpStops(a) PROVE JobsInLine' /\ FreeUnused'
  BY <1>11, <1>16 DEF PumpStops, table, turn
<1>17. ASSUME NEW a \in Agents, NEW c \in Limits \cup {Broken}, EditAgent(a, c)
       PROVE  JobsInLine' /\ FreeUnused'
  BY <1>11, <1>17 DEF EditAgent, table, turn
<1>18. ASSUME Suspend \/ UNCHANGED vars PROVE JobsInLine' /\ FreeUnused'
  BY <1>11, <1>18 DEF Suspend, vars, table, turn
<1>19. ASSUME Restart PROVE JobsInLine' /\ FreeUnused'
  <2>1. JobsInLine'
    BY <1>19 DEF Restart, JobsInLine
  <2>2. \A u \in Tasks : status'[u] = "free" => status[u] = "free" /\ ended'[u] = ended[u]
    BY <1>19 DEF Restart, Active
  <2>3. FreeUnused'
    BY <1>t, <1>19, <2>2 DEF Restart, FreeUnused
  <2> QED
    BY <2>1, <2>3
<1> QED
  BY <1>3, <1>4, <1>5, <1>6, <1>7, <1>8, <1>9, <1>10, <1>12, <1>13, <1>14, <1>15, <1>16, <1>17,
     <1>18, <1>19 DEF Next, TurnStarts

\* An agent's queue stays one line through every mix of enqueues, shifts, cancels and
\* restarts: no job is behind itself, lost between two others or held back by one that left.
LEMMA QueuesInLine == Spec => []JobsInLine
<1>1. Init => LineInv
  <2>1. Init => JobsInLine /\ FreeUnused
    BY DEF Init, JobsInLine, FreeUnused
  <2> QED
    BY <2>1, InitTyped DEF LineInv
<1>2. LineInv /\ [Next]_vars => LineInv'
  BY NextInLine
<1>3. LineInv => JobsInLine
  BY DEF LineInv
<1> QED
  BY <1>1, <1>2, <1>3, PTL DEF Spec
-------------------------------------------------------------------------------
(***************************************************************************)
(* The table.  The proof goes row by row: RowStep lists what a handler may *)
(* do to one row, and what holds of a row is shown once for that list.     *)
(* An agent file that does not load costs a row its outcome (its turn ends *)
(* before execute() sets a status), so there are two results: RowKept      *)
(* holds whatever the files are edited to, RowOK while all of them load.   *)
(***************************************************************************)

\* The turn is inside execute(): what is left of it writes the row's outcome.
InExecute == {"begin", "turn"}

RowKept(t) ==
  Exists(t) => /\ status[t] = "running" <=> phase[t] \in InExecute
               /\ t \in jobs => status[t] = "queued"
               /\ ended[t] + (IF status[t] \in Active THEN 1 ELSE 0) <= asked[t]

RowOK(t) ==
  Exists(t) => /\ status[t] = "running" <=> phase[t] \in InExecute
               /\ status[t] = "queued" <=> t \in jobs
               /\ asked[t] - ended[t] = IF status[t] \in Active THEN 1 ELSE 0

\* No agent file is broken, so no turn starts and ends without a status (StartUnloaded).
AllLoaded == \A a \in Agents : Loaded(a)

\* Nothing of the row changes, or it is deleted.
RowSame(u) ==
  /\ status'[u] \in {status[u], "deleted"} /\ (phase'[u] \in InExecute <=> phase[u] \in InExecute)
  /\ (u \in jobs' <=> u \in jobs) /\ asked'[u] = asked[u] /\ ended'[u] = ended[u]

\* A request for it is accepted: its first one, or a follow-up.
RowAsked(u) ==
  /\ \/ status[u] = "free" /\ ended[u] = 0 /\ asked'[u] = 1
     \/ Exists(u) /\ asked'[u] = asked[u] + 1
  /\ phase[u] = "none" /\ u \notin jobs
  /\ status'[u] = "queued" /\ phase'[u] = "none" /\ u \in jobs' /\ ended'[u] = ended[u]

\* pump() takes its job: the turn begins, the job is of no use, or the file does not load.
RowShifted(u) ==
  /\ u \in jobs /\ u \notin jobs' /\ asked'[u] = asked[u] /\ ended'[u] = ended[u]
  /\ \/ status[u] = "queued" /\ status'[u] = "running" /\ phase'[u] = "begin"
     \/ status[u] # "queued" /\ status'[u] = status[u] /\ phase'[u] = phase[u]
     \/ status[u] = "queued" /\ status'[u] = "queued" /\ phase'[u] = "over" /\ ~AllLoaded

\* finish(): a request that was queued or running gets its outcome.
RowFinished(u) ==
  /\ Exists(u) /\ (status[u] \in Active \/ phase[u] \in InExecute)
  /\ status'[u] \in Final /\ ended'[u] = ended[u] + 1 /\ asked'[u] = asked[u]
  /\ phase'[u] \notin InExecute /\ u \notin jobs'

\* A restart finds the row at rest, or there is no row.
RowAtRest(u) ==
  /\ status'[u] = status[u] /\ status[u] \notin Active
  /\ phase'[u] = "none" /\ u \notin jobs' /\ asked'[u] = asked[u] /\ ended'[u] = ended[u]
RowGone(u) == ~Exists(u) /\ status'[u] = status[u]

RowStep(u) ==
  RowSame(u) \/ RowAsked(u) \/ RowShifted(u) \/ RowFinished(u) \/ RowAtRest(u) \/ RowGone(u)

\* RowOK is the two invariants of the runs, taken together.
LEMMA TableMeansRows ==
  ASSUME TypeOK PROVE (TableMatchesQueues /\ FinishedOnce) <=> \A t \in Tasks : RowOK(t)
BY DEF TableMatchesQueues, FinishedOnce, RowOK, Rows, InExecute

\* Every handler does to each row one of the things RowStep lists.
LEMMA NextRows == ASSUME LineInv, [Next]_vars PROVE \A u \in Tasks : RowStep(u)
<1>t. TypeOK /\ JobsInLine /\ FreeUnused
  BY DEF LineInv
<1> USE DEF InExecute
<1>s. ASSUME NEW u \in Tasks, status'[u] \in {status[u], "deleted"}, phase'[u] = phase[u],
             u \in jobs' <=> u \in jobs, asked'[u] = asked[u], ended'[u] = ended[u]
      PROVE  RowStep(u)
  BY <1>s DEF RowStep, RowSame
<1>1. ASSUME NEW t \in Tasks, NEW a \in Agents, NEW p \in Tasks \cup {NoTask},
             Insert(t, a, p), Enqueue(t, a), UNCHANGED <<phase, ended>>
      PROVE  \A u \in Tasks : RowStep(u)
  <2>1. /\ status[t] = "free" /\ status' = [status EXCEPT ![t] = "queued"]
        /\ asked' = [asked EXCEPT ![t] = 1] /\ jobs' = jobs \cup {t}
    BY <1>1 DEF Insert, Enqueue
  <2>2. RowAsked(t)
    BY <1>1, <1>t, <2>1 DEF FreeUnused, RowAsked, TypeOK
  <2>3. ASSUME NEW u \in Tasks, u # t PROVE RowStep(u)
    BY <1>1, <1>t, <1>s, <2>1, <2>3 DEF TypeOK
  <2> QED
    BY <2>2, <2>3 DEF RowStep
<1>2. ASSUME NEW t \in Tasks, Accept(t) PROVE \A u \in Tasks : RowStep(u)
  <2>1. /\ Exists(t) /\ phase[t] = "none" /\ t \notin jobs /\ UNCHANGED <<phase, ended>>
        /\ status' = [status EXCEPT ![t] = "queued"] /\ jobs' = jobs \cup {t}
        /\ asked' = [asked EXCEPT ![t] = @ + 1]
    BY <1>2 DEF Accept, Idle, Enqueue, turn
  <2>2. RowAsked(t)
    BY <1>t, <2>1 DEF RowAsked, TypeOK
  <2>3. ASSUME NEW u \in Tasks, u # t PROVE RowStep(u)
    BY <1>t, <1>s, <2>1, <2>3 DEF TypeOK
  <2> QED
    BY <2>2, <2>3 DEF RowStep
<1>3. ASSUME NEW t \in Tasks, CancelTask(t) PROVE \A u \in Tasks : RowStep(u)
  <2> DEFINE hit == {u \in CancelWalk(t) : status[u] \in Active}
             inTurn == {u \in hit : InTurn(u)}
  <2>1. /\ Dequeue(hit) /\ Finish(hit \ inTurn, "cancelled") /\ UNCHANGED <<phase, asked>>
    BY <1>3 DEF CancelTask
  <2>2. ASSUME NEW u \in Tasks, u \in hit \ inTurn PROVE RowStep(u)
    <3>1. phase[u] = "none" /\ status[u] \in Active
      BY <2>2 DEF InTurn
    <3>2. /\ status'[u] = "cancelled" /\ ended'[u] = ended[u] + 1 /\ u \notin jobs'
          /\ phase'[u] = phase[u] /\ asked'[u] = asked[u]
      BY <2>1, <2>2 DEF Finish, Dequeue
    <3> QED
      BY <3>1, <3>2 DEF RowStep, RowFinished, Exists, Active, Final
  <2>3. ASSUME NEW u \in Tasks, u \notin hit \ inTurn PROVE RowStep(u)
    <3>1. u \in inTurn => u \notin jobs
      BY <1>t DEF JobsInLine, InTurn
    <3>2. u \in jobs' <=> u \in jobs
      BY <2>1, <2>3, <3>1 DEF Dequeue
    <3>3. status'[u] = status[u] /\ ended'[u] = ended[u]
      BY <2>1, <2>3 DEF Finish
    <3> QED
      BY <2>1, <3>2, <3>3, <1>s
  <2> QED
    BY <2>2, <2>3
<1>4. ASSUME NEW t \in Tasks, TurnStarts(t) PROVE \A u \in Tasks : RowStep(u)
  <2>1. t \in jobs /\ jobs' = jobs \ {t} /\ asked' = asked
    BY <1>4 DEF TurnStarts, StartTurn, StartRefused, StartUnloaded, DropJob, Shift, Head, Dequeue, table
  <2>2. CASE StartTurn(t)
    <3>1. /\ status[t] = "queued" /\ ended' = ended
          /\ status' = [status EXCEPT ![t] = "running"] /\ phase' = [phase EXCEPT ![t] = "begin"]
      BY <2>2 DEF StartTurn
    <3>2. RowShifted(t)
      BY <1>t, <2>1, <3>1 DEF RowShifted, TypeOK
    <3>3. ASSUME NEW u \in Tasks, u # t PROVE RowStep(u)
      BY <1>t, <1>s, <2>1, <3>1, <3>3 DEF TypeOK
    <3> QED
      BY <3>2, <3>3 DEF RowStep
  <2>3. CASE StartRefused(t)
    <3>1. status[t] = "queued" /\ Finish({t}, "failed") /\ phase' = [phase EXCEPT ![t] = "over"]
      BY <2>3 DEF StartRefused
    <3>2. RowFinished(t)
      BY <1>t, <2>1, <3>1 DEF RowFinished, Finish, Exists, Active, Final, TypeOK
    <3>3. ASSUME NEW u \in Tasks, u # t PROVE RowStep(u)
      BY <1>t, <1>s, <2>1, <3>1, <3>3 DEF Finish, TypeOK
    <3> QED
      BY <3>2, <3>3 DEF RowStep
  <2>4. CASE StartUnloaded(t)
    <3>1. /\ status[t] = "queued" /\ ~Loaded(agentOf[t]) /\ phase' = [phase EXCEPT ![t] = "over"]
          /\ UNCHANGED <<status, ended>>
      BY <2>4 DEF StartUnloaded, table
    <3>2. RowShifted(t)
      BY <1>t, <2>1, <3>1 DEF RowShifted, AllLoaded, TypeOK
    <3>3. ASSUME NEW u \in Tasks, u # t PROVE RowStep(u)
      BY <1>t, <1>s, <2>1, <3>1, <3>3 DEF TypeOK
    <3> QED
      BY <3>2, <3>3 DEF RowStep
  <2>5. CASE DropJob(t)
    <3>1. status[t] # "queued" /\ UNCHANGED <<status, phase, ended>>
      BY <2>5 DEF DropJob, table, turn
    <3>2. RowShifted(t)
      BY <2>1, <3>1 DEF RowShifted
    <3>3. ASSUME NEW u \in Tasks, u # t PROVE RowStep(u)
      BY <1>s, <2>1, <3>1, <3>3
    <3> QED
      BY <3>2, <3>3 DEF RowStep
  <2> QED
    BY <1>4, <2>2, <2>3, <2>4, <2>5 DEF TurnStarts
<1>5. ASSUME NEW t \in Tasks, CellReady(t) \/ RunEnds(t) PROVE \A u \in Tasks : RowStep(u)
  <2>1. /\ UNCHANGED <<status, jobs, asked, ended>>
        /\ \A u \in Tasks : phase'[u] \in InExecute <=> phase[u] \in InExecute
    BY <1>5, <1>t DEF CellReady, RunEnds, table, queues, TypeOK
  <2> QED
    BY <2>1 DEF RowStep, RowSame
<1>6. ASSUME NEW t \in Tasks, NEW said \in {"done", "failed"}, EndTurn(t, said)
      PROVE  \A u \in Tasks : RowStep(u)
  <2>1. /\ phase[t] \in {"begin", "turn"} /\ phase' = [phase EXCEPT ![t] = "over"]
        /\ UNCHANGED <<jobs, asked>>
    BY <1>6 DEF EndTurn, queues
  <2>2. \/ Exists(t) /\ Finish({t}, Outcome(t, said))
        \/ ~Exists(t) /\ UNCHANGED <<status, ended>>
    BY <1>6 DEF EndTurn
  <2>3. ASSUME NEW u \in Tasks, u # t PROVE RowStep(u)
    BY <1>t, <1>s, <2>1, <2>2, <2>3 DEF Finish, TypeOK
  <2>4. Outcome(t, said) \in Final
    BY DEF Outcome, Final
  <2>5. t \notin jobs
    BY <1>t, <2>1 DEF JobsInLine
  <2>6. RowFinished(t) \/ RowGone(t)
    BY <1>t, <2>1, <2>2, <2>4, <2>5 DEF RowFinished, RowGone, Finish, TypeOK
  <2> QED
    BY <2>3, <2>6 DEF RowStep
<1>7. ASSUME Restart PROVE \A u \in Tasks : RowStep(u)
  <2> SUFFICES ASSUME NEW u \in Tasks PROVE RowStep(u)
    OBVIOUS
  <2>1. /\ phase'[u] = "none" /\ jobs' = {} /\ asked'[u] = asked[u]
        /\ status'[u] = IF status[u] \in Active THEN "failed" ELSE status[u]
        /\ ended'[u] = IF status[u] \in Active THEN ended[u] + 1 ELSE ended[u]
    BY <1>7 DEF Restart
  <2>2. CASE status[u] \in Active
    BY <2>1, <2>2 DEF RowStep, RowFinished, Exists, Active, Final
  <2>3. CASE status[u] \notin Active
    BY <2>1, <2>3 DEF RowStep, RowAtRest
  <2> QED
    BY <2>2, <2>3
<1>8. ASSUME UNCHANGED <<jobs, phase, asked, ended>>,
             \A u \in Tasks : status'[u] \in {status[u], "deleted"}
      PROVE  \A u \in Tasks : RowStep(u)
  BY <1>8, <1>s
<1>9. CASE \E t \in Tasks, a \in Agents : CreateTask(t, a)
  BY <1>1, <1>9 DEF CreateTask, turn
<1>10. CASE \E t \in Tasks : SendTask(t) \/ RetryTask(t)
  BY <1>2, <1>10 DEF SendTask, RetryTask
<1>11. CASE \E t \in Tasks : CancelTask(t)
  BY <1>3, <1>11
<1>12. CASE \E t \in Tasks : Wait(t) \/ TurnTimeout(t) \/ DeleteTask(t) \/ Purge(t)
  BY <1>t, <1>8, <1>12 DEF Wait, TurnTimeout, DeleteTask, Purge, DeleteRows, table, queues, turn, TypeOK
<1>13. CASE \E t \in Tasks : TurnStarts(t)
  BY <1>4, <1>13
<1>14. CASE \E t \in Tasks : CellReady(t) \/ RunEnds(t)
  BY <1>5, <1>14
<1>15. CASE \E t \in Tasks, said \in {"done", "failed"} : EndTurn(t, said)
  BY <1>6, <1>15
<1>16. CASE \E p, c \in Tasks, wait \in BOOLEAN : SendToChild(p, c, wait)
  BY <1>2, <1>16 DEF SendToChild
<1>17. CASE \E p, t \in Tasks, a \in Agents, wait \in BOOLEAN : Delegate(p, t, a, wait)
  BY <1>1, <1>17 DEF Delegate, turn
<1>18. CASE (\E p, c \in Tasks : WaitTimeout(p, c)) \/ (\E a \in Agents : PumpStops(a))
            \/ (\E a \in Agents, c \in Limits \cup {Broken} : EditAgent(a, c))
  BY <1>8, <1>18 DEF WaitTimeout, PumpStops, EditAgent, table, queues, turn
<1>19. CASE Suspend \/ UNCHANGED vars
  BY <1>8, <1>19 DEF Suspend, vars, table, queues, turn
<1>20. CASE \E S \in doomed : DeleteRest(S)
  BY <1>t, <1>8, <1>20 DEF DeleteRest, DeleteRows, queues, turn, TypeOK
<1>21. CASE \E t \in Tasks : \/ SendTask(t) \/ RetryTask(t) \/ CancelTask(t) \/ Wait(t)
                              \/ DropJob(t) \/ StartUnloaded(t) \/ StartRefused(t) \/ StartTurn(t)
                              \/ CellReady(t) \/ TurnTimeout(t) \/ RunEnds(t)
                              \/ DeleteTask(t) \/ Purge(t)
  BY <1>10, <1>11, <1>12, <1>13, <1>14, <1>21, Zenon DEF TurnStarts
<1> QED
  BY <1>7, <1>9, <1>15, <1>16, <1>17, <1>18, <1>19, <1>20, <1>21 DEF Next

\* What a step may do to a row leaves it kept.
LEMMA RowKeptNext ==
  ASSUME TypeOK, NEW u \in Tasks, RowKept(u), RowStep(u)
  PROVE  RowKept(u)'
<1>t. asked[u] \in Int /\ ended[u] \in Int
  BY DEF TypeOK
<1> USE DEF RowKept, Exists, Active, Final, InExecute
<1>1. CASE RowSame(u)
  BY <1>1 DEF RowSame
<1>2. CASE RowAsked(u)
  BY <1>t, <1>2 DEF RowAsked
<1>3. CASE RowShifted(u)
  BY <1>3 DEF RowShifted
<1>4. CASE RowFinished(u)
  BY <1>t, <1>4 DEF RowFinished
<1>5. CASE RowAtRest(u)
  BY <1>5 DEF RowAtRest
<1>6. CASE RowGone(u)
  BY <1>6 DEF RowGone
<1> QED
  BY <1>1, <1>2, <1>3, <1>4, <1>5, <1>6 DEF RowStep

\* While all agent files load, it leaves the row in order.
LEMMA RowOKNext ==
  ASSUME TypeOK, AllLoaded, NEW u \in Tasks, RowOK(u), RowStep(u)
  PROVE  RowOK(u)'
<1>t. asked[u] \in Int /\ ended[u] \in Int
  BY DEF TypeOK
<1> USE DEF RowOK, Exists, Active, Final, InExecute
<1>1. CASE RowSame(u)
  BY <1>1 DEF RowSame
<1>2. CASE RowAsked(u)
  BY <1>t, <1>2 DEF RowAsked
<1>3. CASE RowShifted(u)
  BY <1>3 DEF RowShifted
<1>4. CASE RowFinished(u)
  BY <1>t, <1>4 DEF RowFinished
<1>5. CASE RowAtRest(u)
  BY <1>5 DEF RowAtRest
<1>6. CASE RowGone(u)
  BY <1>6 DEF RowGone
<1> QED
  BY <1>1, <1>2, <1>3, <1>4, <1>5, <1>6 DEF RowStep

\* The first state of the daemon has no rows and only agent files that load.
LEMMA InitTable == Init => LineInv /\ AllLoaded /\ \A t \in Tasks : RowKept(t) /\ RowOK(t)
<1> SUFFICES ASSUME Init PROVE LineInv /\ AllLoaded /\ \A t \in Tasks : RowKept(t) /\ RowOK(t)
  OBVIOUS
<1>1. LineInv
  BY InitTyped DEF Init, JobsInLine, FreeUnused, LineInv
<1>2. AllLoaded
  BY HubAssumption DEF Init, AllLoaded, Loaded, Broken
<1>3. \A t \in Tasks : RowKept(t) /\ RowOK(t)
  BY DEF Init, RowKept, RowOK, Exists
<1> QED
  BY <1>1, <1>2, <1>3

\* Whatever the agent files are edited to: a row is `running` exactly while a turn will finish
\* it, a job of a row that still exists starts it, and no request is finished twice (execute,
\* pump, cancelTask, recoverInterrupted).
THEOREM NeverFinishedTwice ==
  Spec => [](\A t \in Rows : /\ status[t] = "running" <=> phase[t] \in {"begin", "turn"}
                             /\ t \in jobs => status[t] = "queued"
                             /\ ended[t] + (IF status[t] \in Active THEN 1 ELSE 0) <= asked[t])
<1> DEFINE Kept == \A t \in Tasks : RowKept(t)
<1>1. Init => LineInv /\ Kept
  BY InitTable
<1>2. LineInv /\ Kept /\ [Next]_vars => LineInv' /\ Kept'
  BY NextInLine, NextRows, RowKeptNext DEF LineInv
<1>3. Kept => \A t \in Rows : /\ status[t] = "running" <=> phase[t] \in {"begin", "turn"}
                              /\ t \in jobs => status[t] = "queued"
                              /\ ended[t] + (IF status[t] \in Active THEN 1 ELSE 0) <= asked[t]
  BY DEF RowKept, InExecute, Rows
<1> HIDE DEF Kept
<1> QED
  BY <1>1, <1>2, <1>3, PTL DEF Spec

TableInv == LineInv /\ \A t \in Tasks : RowOK(t)

\* Every handler keeps every row in order while all agent files load.
LEMMA NextTable == TableInv /\ AllLoaded /\ [Next]_vars => TableInv'
BY NextInLine, NextRows, RowOKNext DEF TableInv, LineInv

\* While every agent file loads, whatever limits it is edited to, a row is `running` exactly
\* while a turn will finish it, `queued` exactly while a job will start it, and every accepted
\* request is finished exactly once.
THEOREM LoadedTableAgrees == Spec /\ []AllLoaded => [](TableMatchesQueues /\ FinishedOnce)
<1>1. Init => TableInv
  BY InitTable DEF TableInv
<1>2. TableInv => TableMatchesQueues /\ FinishedOnce
  BY TableMeansRows DEF TableInv, LineInv
<1> QED
  BY <1>1, <1>2, NextTable, PTL DEF Spec

\* Only an edit changes what is loaded of an agent's file.
LEMMA ConfigStays == ASSUME MaxEdits = 0, TypeOK, [Next]_vars PROVE config' = config
<1>1. ASSUME NEW a \in Agents, NEW c, EditAgent(a, c) PROVE FALSE
  BY <1>1 DEF EditAgent, TypeOK
<1>2. CASE (\E t \in Tasks, a \in Agents : CreateTask(t, a))
           \/ (\E p, t \in Tasks, a \in Agents, wait \in BOOLEAN : Delegate(p, t, a, wait))
           \/ (\E t \in Tasks : SendTask(t) \/ RetryTask(t))
           \/ (\E p, c \in Tasks, wait \in BOOLEAN : SendToChild(p, c, wait))
  BY <1>2 DEF CreateTask, Delegate, SendTask, RetryTask, SendToChild, Accept
<1>3. CASE \E t \in Tasks : TurnStarts(t) \/ CellReady(t) \/ RunEnds(t) \/ CancelTask(t)
                             \/ \E said \in {"done", "failed"} : EndTurn(t, said)
  BY <1>3 DEF TurnStarts, StartTurn, StartRefused, StartUnloaded, DropJob, CellReady, RunEnds,
              CancelTask, EndTurn
<1>4. CASE \E t \in Tasks : Wait(t) \/ TurnTimeout(t) \/ DeleteTask(t) \/ Purge(t)
  BY <1>4 DEF Wait, TurnTimeout, DeleteTask, Purge
<1>5. CASE (\E p, c \in Tasks : WaitTimeout(p, c)) \/ (\E a \in Agents : PumpStops(a))
           \/ (\E S \in doomed : DeleteRest(S)) \/ Suspend \/ Restart \/ UNCHANGED vars
  BY <1>5 DEF WaitTimeout, PumpStops, DeleteRest, Suspend, Restart, vars
<1> QED
  BY <1>1, <1>2, <1>3, <1>4, <1>5 DEF Next, TurnStarts

\* Files that are never edited load for ever.
LEMMA UneditedLoaded == ASSUME MaxEdits = 0 PROVE Spec => []AllLoaded
<1>1. TypeOK /\ AllLoaded /\ [Next]_vars => AllLoaded'
  BY ConfigStays DEF AllLoaded, Loaded
<1>2. Init => AllLoaded
  BY InitTable
<1> QED
  BY <1>1, <1>2, TypeCorrect, PTL DEF Spec

\* While no agent file changes, a row is `running` exactly while a turn will finish it and
\* `queued` exactly while a job will start it (sendTask, pump, execute, cancelTask, recovery).
THEOREM TableAgrees == ASSUME MaxEdits = 0 PROVE Spec => []TableMatchesQueues
BY LoadedTableAgrees, UneditedLoaded, PTL

\* While no agent file changes, every accepted request is finished exactly once: by its turn,
\* by a cancel, by the budget of its tree or by the recovery after a restart.
THEOREM FinishesOnce == ASSUME MaxEdits = 0 PROVE Spec => []FinishedOnce
BY LoadedTableAgrees, UneditedLoaded, PTL
-------------------------------------------------------------------------------
(***************************************************************************)
(* Free slots, and turns that were cancelled.                              *)
(***************************************************************************)

\* The agents' slots are as they were when no task changes its agent or its turn's existence.
LEMMA SameRunning ==
  ASSUME NEW a, \A u \in Tasks : /\ agentOf'[u] = a /\ phase'[u] # "none"
                                  <=> agentOf[u] = a /\ phase[u] # "none"
  PROVE  Running(a)' = Running(a)
BY DEF Running

\* A handler that leaves an agent's jobs, slots and file alone, or asks for a pump(), forgets
\* no job of it.
LEMMA StillNotForgotten ==
  ASSUME NoJobForgotten, stopping' = stopping, pumpDue \subseteq pumpDue',
         \A a \in Agents \ pumpDue' :
           /\ config'[a] = config[a]
           /\ \A u \in jobs' : agentOf'[u] = a => u \in jobs /\ agentOf[u] = a
           /\ Running(a)' = Running(a)
  PROVE  NoJobForgotten'
BY DEF NoJobForgotten, MaxTasks

SlotInv == LineInv /\ NoJobForgotten

\* Every handler that frees a slot, adds a job or changes a limit asks for a pump().
LEMMA NextForgetsNoJob == SlotInv /\ [Next]_vars => SlotInv'
<1> SUFFICES ASSUME SlotInv, [Next]_vars PROVE NoJobForgotten'
  BY NextInLine DEF SlotInv
<1>t. TypeOK /\ JobsInLine /\ FreeUnused /\ NoJobForgotten
  BY DEF SlotInv, LineInv
<1>1. ASSUME NEW t \in Tasks, NEW a \in Agents, NEW p \in Tasks \cup {NoTask},
             Insert(t, a, p), Enqueue(t, a), UNCHANGED <<phase, config, stopping>>
      PROVE  NoJobForgotten'
  <2>1. /\ phase[t] = "none" /\ agentOf' = [agentOf EXCEPT ![t] = a]
        /\ jobs' = jobs \cup {t} /\ pumpDue' = pumpDue \cup {a}
    BY <1>1, <1>t DEF Insert, Enqueue, FreeUnused
  <2>2. agentOf'[t] = a /\ \A u \in Tasks : u # t => agentOf'[u] = agentOf[u]
    BY <1>t, <2>1 DEF TypeOK
  <2>3. \A b \in Agents : Running(b)' = Running(b)
    BY <1>1, <2>1, <2>2, SameRunning
  <2>4. \A b \in Agents \ pumpDue' : \A u \in jobs' : agentOf'[u] = b => u \in jobs /\ agentOf[u] = b
    BY <1>t, <2>1, <2>2 DEF TypeOK
  <2> QED
    BY <1>1, <1>t, <2>1, <2>3, <2>4, StillNotForgotten
<1>2. ASSUME NEW t \in Tasks, Accept(t) PROVE NoJobForgotten'
  <2>1. /\ jobs' = jobs \cup {t} /\ pumpDue' = pumpDue \cup {agentOf[t]}
        /\ UNCHANGED <<agentOf, phase, config, stopping>>
    BY <1>2 DEF Accept, Enqueue, turn
  <2>2. \A b \in Agents : Running(b)' = Running(b)
    BY <2>1, SameRunning
  <2> QED
    BY <1>t, <2>1, <2>2, StillNotForgotten
<1>3. ASSUME UNCHANGED <<agentOf, config, stopping>>, jobs' \subseteq jobs, pumpDue \subseteq pumpDue',
             \A u \in Tasks : phase'[u] # "none" <=> phase[u] # "none"
      PROVE  NoJobForgotten'
  <2>1. \A b \in Agents : Running(b)' = Running(b)
    BY <1>3, SameRunning
  <2> QED
    BY <1>t, <1>3, <2>1, StillNotForgotten
<1>4. ASSUME NEW t \in Tasks, TurnStarts(t) PROVE NoJobForgotten'
  <2>1. /\ agentOf[t] \in pumpDue /\ jobs' \subseteq jobs
        /\ UNCHANGED <<agentOf, config, stopping, pumpDue>>
        /\ \A u \in Tasks \ {t} : phase'[u] = phase[u]
    BY <1>4, <1>t DEF TurnStarts, StartTurn, StartRefused, StartUnloaded, DropJob, Shift, Dequeue,
                      table, turn, TypeOK
  <2>2. \A b \in Agents \ pumpDue' : Running(b)' = Running(b)
    BY <2>1, SameRunning
  <2> QED
    BY <1>t, <2>1, <2>2, StillNotForgotten
<1>5. ASSUME NEW t \in Tasks, RunEnds(t) PROVE NoJobForgotten'
  <2>1. /\ pumpDue' = pumpDue \cup {agentOf[t]} /\ UNCHANGED <<agentOf, config, stopping, jobs>>
        /\ \A u \in Tasks \ {t} : phase'[u] = phase[u]
    BY <1>5, <1>t DEF RunEnds, PumpAfter, table, queues, TypeOK
  <2>2. \A b \in Agents \ pumpDue' : Running(b)' = Running(b)
    BY <2>1, SameRunning
  <2> QED
    BY <1>t, <2>1, <2>2, StillNotForgotten
<1>6. ASSUME NEW a \in Agents, PumpStops(a) PROVE NoJobForgotten'
  <2>1. /\ UNCHANGED <<agentOf, config, stopping, jobs, phase>> /\ pumpDue' = pumpDue \ {a}
        /\ stopping \/ ~(Cardinality(Running(a)) < MaxTasks(a)) \/ {t \in jobs : agentOf[t] = a} = {}
    BY <1>6 DEF PumpStops, CanStart, table, queues, turn
  <2>2. /\ \A b \in Agents : Running(b)' = Running(b)
        /\ \A b \in Agents : MaxTasks(b)' = MaxTasks(b)
    BY <2>1, SameRunning DEF MaxTasks
  <2>3. /\ Cardinality(Running(a)) \in Int /\ MaxTasks(a) \in Int
    <3>1. IsFiniteSet(Tasks)
      BY HubAssumption, FS_Interval DEF Tasks
    <3>2. IsFiniteSet(Running(a)) /\ Cardinality(Running(a)) \in Nat
      BY <3>1, FS_Subset, FS_CardinalityType DEF Running
    <3>3. config[a] \in Limits \cup {Broken} /\ Limits \subseteq Int /\ DefaultMaxTasks \in Int
      BY <1>t, HubAssumption DEF TypeOK
    <3>4. MaxTasks(a) \in Int
      BY <3>3 DEF MaxTasks
    <3> QED
      BY <3>2, <3>4
  <2>4. ASSUME ~stopping, \E t \in jobs : agentOf[t] = a
        PROVE  Cardinality(Running(a)) >= MaxTasks(a)
    BY <2>1, <2>3, <2>4
  <2> QED
    BY <1>t, <2>1, <2>2, <2>4 DEF NoJobForgotten
<1>7. ASSUME NEW a \in Agents, NEW c \in Limits \cup {Broken}, EditAgent(a, c) PROVE NoJobForgotten'
  BY <1>7 DEF EditAgent, NoJobForgotten
<1>8. ASSUME Suspend \/ Restart PROVE NoJobForgotten'
  BY <1>8 DEF Suspend, Restart, NoJobForgotten
<1>9. CASE \E t \in Tasks, a \in Agents : CreateTask(t, a)
  BY <1>1, <1>9 DEF CreateTask, turn
<1>10. CASE \E t \in Tasks : SendTask(t) \/ RetryTask(t)
  BY <1>2, <1>10 DEF SendTask, RetryTask
<1>11. CASE \E t \in Tasks : CancelTask(t)
  BY <1>3, <1>11 DEF CancelTask, Dequeue
<1>12. CASE \E t \in Tasks : \/ Wait(t) \/ DeleteTask(t) \/ TurnTimeout(t) \/ Purge(t)
  BY <1>3, <1>12 DEF Wait, DeleteTask, TurnTimeout, Purge, table, queues, turn
<1>13. CASE \E t \in Tasks : TurnStarts(t)
  BY <1>4, <1>13
<1>14. CASE \E t \in Tasks : CellReady(t) \/ \E said \in {"done", "failed"} : EndTurn(t, said)
  BY <1>3, <1>t, <1>14 DEF CellReady, EndTurn, table, queues, TypeOK
<1>15. CASE \E t \in Tasks : RunEnds(t)
  BY <1>5, <1>15
<1>16. CASE \E p, c \in Tasks, wait \in BOOLEAN : SendToChild(p, c, wait)
  BY <1>2, <1>16 DEF SendToChild
<1>17. CASE \E p, t \in Tasks, a \in Agents, wait \in BOOLEAN : Delegate(p, t, a, wait)
  BY <1>1, <1>17 DEF Delegate, turn
<1>18. CASE (\E p, c \in Tasks : WaitTimeout(p, c)) \/ (\E S \in doomed : DeleteRest(S)) \/ UNCHANGED vars
  BY <1>3, <1>18 DEF WaitTimeout, DeleteRest, vars, table, queues, turn
<1>19. CASE \E a \in Agents : PumpStops(a)
  BY <1>6, <1>19
<1>20. CASE \E a \in Agents, c \in Limits \cup {Broken} : EditAgent(a, c)
  BY <1>7, <1>20
<1> QED
  BY <1>8, <1>9, <1>10, <1>11, <1>12, <1>13, <1>14, <1>15, <1>16, <1>17, <1>18, <1>19, <1>20
  DEF Next, TurnStarts

\* No job waits next to a free slot unless a pump() is due: for every number of agents, slots
\* and tasks, and whatever agent files are changed to.
THEOREM ForgetsNoJob == Spec => []NoJobForgotten
<1>1. Init => SlotInv
  BY InitTyped DEF Init, JobsInLine, FreeUnused, LineInv, NoJobForgotten, SlotInv
<1>2. SlotInv /\ [Next]_vars => SlotInv'
  BY NextForgetsNoJob
<1>3. SlotInv => NoJobForgotten
  BY DEF SlotInv
<1> QED
  BY <1>1, <1>2, <1>3, PTL DEF Spec
-------------------------------------------------------------------------------
\* The tasks of an agent that are in a turn are finitely many.
LEMMA RunningFinite ==
  ASSUME NEW a
  PROVE  IsFiniteSet(Running(a)) /\ Cardinality(Running(a)) \in Nat
<1>1. IsFiniteSet(Tasks)
  BY HubAssumption, FS_Interval DEF Tasks
<1> QED
  BY <1>1, FS_Subset, FS_CardinalityType DEF Running

\* A limit is a number, whatever the agent's file says.
LEMMA LimitTyped == ASSUME TypeOK, NEW a \in Agents PROVE MaxTasks(a) \in Nat
<1>1. config[a] \in Limits \cup {Broken} /\ Limits \subseteq Nat /\ DefaultMaxTasks \in Nat
  BY HubAssumption DEF TypeOK
<1> QED
  BY <1>1 DEF MaxTasks

\* An agent's turns after a step: none it did not have, or as many as its slots allow.
SlotStep(a) == Running(a)' \subseteq Running(a) \/ Cardinality(Running(a)') <= MaxTasks(a)'

\* pump() gives a turn to one task of an agent with a free slot.
LEMMA OneMoreRunning ==
  ASSUME TypeOK, NEW t \in Tasks, TurnStarts(t), NEW a \in Agents
  PROVE  SlotStep(a)
<1>1. /\ CanStart(agentOf[t]) /\ agentOf[t] \in Agents /\ UNCHANGED <<agentOf, config>>
      /\ \A u \in Tasks \ {t} : phase'[u] = phase[u]
  BY DEF TurnStarts, StartTurn, StartRefused, StartUnloaded, DropJob, Shift, table, turn, TypeOK
<1>2. CASE a # agentOf[t]
  BY <1>1, <1>2 DEF Running, SlotStep
<1>3. CASE a = agentOf[t]
  <2>1. Running(a)' \subseteq Running(a) \cup {t}
    BY <1>1, <1>3 DEF Running
  <2>2. /\ IsFiniteSet(Running(a) \cup {t}) /\ Cardinality(Running(a) \cup {t}) \in Nat
        /\ Cardinality(Running(a) \cup {t}) <= Cardinality(Running(a)) + 1
    <3> DEFINE R == Running(a)
    <3>1. IsFiniteSet(R) /\ Cardinality(R) \in Nat
      BY RunningFinite
    <3> HIDE DEF R
    <3>2. /\ IsFiniteSet(R \cup {t})
          /\ Cardinality(R \cup {t}) = IF t \in R THEN Cardinality(R) ELSE Cardinality(R) + 1
      BY <3>1, FS_AddElement
    <3>3. /\ Cardinality(R \cup {t}) \in Nat
          /\ Cardinality(R \cup {t}) <= Cardinality(R) + 1
      BY <3>1, <3>2
    <3> QED
      BY <3>2, <3>3 DEF R
  <2>3. Cardinality(Running(a)') <= Cardinality(Running(a) \cup {t}) /\ Cardinality(Running(a)') \in Nat
    BY <2>1, <2>2, FS_Subset, FS_CardinalityType
  <2>4. Cardinality(Running(a)) < MaxTasks(a) /\ MaxTasks(a)' = MaxTasks(a)
    BY <1>1, <1>3 DEF CanStart, MaxTasks
  <2> QED
    BY <2>2, <2>3, <2>4, RunningFinite, LimitTyped DEF SlotStep
<1> QED
  BY <1>2, <1>3

\* Only pump() gives a task a turn.
LEMMA NextSlotStep ==
  ASSUME TypeOK, FreeUnused, [Next]_vars, NEW a \in Agents
  PROVE  SlotStep(a)
<1>1. ASSUME \A u \in Tasks : phase'[u] # "none" => phase[u] # "none" /\ agentOf'[u] = agentOf[u]
      PROVE  SlotStep(a)
  BY <1>1 DEF Running, SlotStep
<1>2. ASSUME NEW t \in Tasks, NEW b \in Agents, NEW p, Insert(t, b, p), UNCHANGED phase
      PROVE  SlotStep(a)
  <2>1. phase[t] = "none" /\ \A u \in Tasks \ {t} : agentOf'[u] = agentOf[u]
    BY <1>2 DEF Insert, FreeUnused, TypeOK
  <2> QED
    BY <1>1, <1>2, <2>1
<1>3. ASSUME UNCHANGED <<agentOf, phase>> PROVE SlotStep(a)
  BY <1>1, <1>3
<1>4. CASE (\E t \in Tasks, b \in Agents : CreateTask(t, b))
           \/ (\E p, t \in Tasks, b \in Agents, wait \in BOOLEAN : Delegate(p, t, b, wait))
  BY <1>2, <1>4 DEF CreateTask, Delegate, turn
<1>5. CASE (\E t \in Tasks : SendTask(t) \/ RetryTask(t))
           \/ (\E p, c \in Tasks, wait \in BOOLEAN : SendToChild(p, c, wait))
  BY <1>3, <1>5 DEF SendTask, RetryTask, SendToChild, Accept, turn
<1>6. CASE \E t \in Tasks : CancelTask(t) \/ Wait(t) \/ DeleteTask(t) \/ Purge(t) \/ TurnTimeout(t)
  BY <1>3, <1>6 DEF CancelTask, Wait, DeleteTask, Purge, TurnTimeout, table, turn
<1>7. CASE \E t \in Tasks : TurnStarts(t)
  BY <1>7, OneMoreRunning
<1>8. CASE \E t \in Tasks : CellReady(t) \/ RunEnds(t) \/ \E said \in {"done", "failed"} : EndTurn(t, said)
  BY <1>1, <1>8 DEF CellReady, RunEnds, EndTurn, table, TypeOK
<1>9. CASE (\E p, c \in Tasks : WaitTimeout(p, c)) \/ (\E S \in doomed : DeleteRest(S))
           \/ (\E b \in Agents : PumpStops(b)) \/ Suspend \/ UNCHANGED vars
           \/ (\E b \in Agents, c \in Limits \cup {Broken} : EditAgent(b, c))
  BY <1>3, <1>9 DEF WaitTimeout, DeleteRest, PumpStops, EditAgent, Suspend, vars, table, turn
<1>10. CASE Restart
  BY <1>1, <1>10 DEF Restart
<1> QED
  BY <1>4, <1>5, <1>6, <1>7, <1>8, <1>9, <1>10 DEF Next, TurnStarts

\* Whatever the agent files are edited to, and while a lowered limit is still exceeded: a step
\* that gives an agent a turn it did not have leaves it within its `maxTasks` (pump, run).
THEOREM TurnsStartWithinLimits ==
  Spec => [][\A a \in Agents : \/ Running(a)' \subseteq Running(a)
                               \/ Cardinality(Running(a)') <= MaxTasks(a)']_vars
<1>1. Init => LineInv
  BY InitTable
<1>2. LineInv /\ [Next]_vars => LineInv'
  BY NextInLine
<1>3. LineInv /\ [Next]_vars =>
        [\A a \in Agents : \/ Running(a)' \subseteq Running(a)
                           \/ Cardinality(Running(a)') <= MaxTasks(a)']_vars
  BY NextSlotStep DEF LineInv, SlotStep
<1> QED
  BY <1>1, <1>2, <1>3, PTL DEF Spec

\* While no limit is lowered below the turns that run, every agent stays within its slots.
LEMMA NextSlots ==
  ASSUME TypeOK, FreeUnused, SlotsHold, [Next]_vars,
         \A a \in Agents : MaxTasks(a) <= MaxTasks(a)'
  PROVE  SlotsHold'
<1> SUFFICES ASSUME NEW a \in Agents PROVE Cardinality(Running(a)') <= MaxTasks(a)'
  BY DEF SlotsHold
<1>1. CASE Running(a)' \subseteq Running(a)
  <2>1. Cardinality(Running(a)') <= Cardinality(Running(a)) /\ Cardinality(Running(a)') \in Nat
    BY <1>1, RunningFinite, FS_Subset, FS_CardinalityType
  <2>2. /\ MaxTasks(a) \in Nat /\ Cardinality(Running(a)) \in Nat
        /\ Cardinality(Running(a)) <= MaxTasks(a) /\ MaxTasks(a) <= MaxTasks(a)'
    BY LimitTyped, RunningFinite DEF SlotsHold
  <2>3. MaxTasks(a)' \in Nat
    <3>1. TypeOK'
      BY NextTyped
    <3>2. config'[a] \in Limits \cup {Broken} /\ Limits \subseteq Nat /\ DefaultMaxTasks \in Nat
      BY <3>1, HubAssumption DEF TypeOK
    <3> QED
      BY <3>2 DEF MaxTasks
  <2> QED
    BY <2>1, <2>2, <2>3
<1> QED
  BY <1>1, NextSlotStep DEF SlotStep

\* While no agent file changes, an agent never has more tasks in a turn than its `maxTasks`,
\* over cancels, follow-ups, deletions and restarts (pump, run).
THEOREM SlotsAreKept == ASSUME MaxEdits = 0 PROVE Spec => []SlotsHold
<1>1. Init => SlotsHold
  <2> SUFFICES ASSUME Init, NEW a \in Agents PROVE Cardinality(Running(a)) <= MaxTasks(a)
    BY DEF SlotsHold
  <2>1. Running(a) = {}
    BY DEF Init, Running
  <2> QED
    BY <2>1, FS_EmptySet, InitTyped, LimitTyped
<1>2. Init => LineInv
  BY InitTable
<1>3. LineInv /\ [Next]_vars => LineInv'
  BY NextInLine
<1>4. LineInv /\ SlotsHold /\ [Next]_vars => SlotsHold'
  <2> SUFFICES ASSUME LineInv, SlotsHold, [Next]_vars PROVE SlotsHold'
    OBVIOUS
  <2>1. \A a \in Agents : MaxTasks(a)' = MaxTasks(a) /\ MaxTasks(a) \in Nat
    BY ConfigStays, LimitTyped DEF MaxTasks, LineInv
  <2>2. \A a \in Agents : MaxTasks(a) <= MaxTasks(a)'
    BY <2>1
  <2> QED
    BY <2>2, NextSlots DEF LineInv
<1> QED
  BY <1>1, <1>2, <1>3, <1>4, PTL DEF Spec
-------------------------------------------------------------------------------
\* Once the abort of a turn was signalled, the row ends as `cancelled` or is failed by the
\* recovery after a restart; no timer and no late answer of the runner outranks it (execute).
THEOREM CancelIsFinal == Spec => CancelSticks
<1>1. TypeOK /\ [Next]_vars =>
        [\A t \in aborted : status[t] = "running" /\ status'[t] \in Final /\ restarts' = restarts
                              => status'[t] = "cancelled"]_vars
  <2> SUFFICES ASSUME TypeOK, Next, NEW t \in aborted,
                      status[t] = "running", status'[t] \in Final, restarts' = restarts
               PROVE  status'[t] = "cancelled"
    OBVIOUS
  <2>t. t \in Tasks /\ status \in [Tasks -> Status]
    BY DEF TypeOK
  <2> USE DEF Final
  <2>1. ASSUME UNCHANGED status PROVE FALSE
    BY <2>1
  <2>2. ASSUME NEW u \in Tasks, status' = [status EXCEPT ![u] = "queued"] \/ StartTurn(u) PROVE FALSE
    BY <2>2, <2>t DEF StartTurn
  <2>3. ASSUME NEW S, DeleteRows(S) PROVE FALSE
    BY <2>3, <2>t DEF DeleteRows
  <2>4. ASSUME NEW u \in Tasks, StartRefused(u) PROVE FALSE
    BY <2>4, <2>t DEF StartRefused, Finish
  <2>5. ASSUME NEW u \in Tasks, NEW said \in {"done", "failed"}, EndTurn(u, said)
        PROVE  status'[t] = "cancelled"
    BY <2>5, <2>t DEF EndTurn, Finish, Outcome
  <2>6. ASSUME NEW u \in Tasks, CancelTask(u) PROVE status'[t] = "cancelled"
    BY <2>6, <2>t DEF CancelTask, Finish
  <2>7. ASSUME Restart PROVE FALSE
    BY <2>7 DEF Restart, TypeOK
  <2>8. CASE (\E u \in Tasks, a \in Agents : CreateTask(u, a))
             \/ (\E p, u \in Tasks, a \in Agents, wait \in BOOLEAN : Delegate(p, u, a, wait))
    BY <2>2, <2>8 DEF CreateTask, Delegate, Insert
  <2>9. CASE (\E u \in Tasks : SendTask(u) \/ RetryTask(u))
             \/ (\E p, c \in Tasks, wait \in BOOLEAN : SendToChild(p, c, wait))
    BY <2>2, <2>9 DEF SendTask, RetryTask, SendToChild, Accept
  <2>10. CASE (\E u \in Tasks : Purge(u)) \/ (\E S \in doomed : DeleteRest(S))
    BY <2>3, <2>10 DEF Purge, DeleteRest
  <2>11. CASE \E u \in Tasks : Wait(u) \/ DropJob(u) \/ StartUnloaded(u) \/ CellReady(u)
                                \/ TurnTimeout(u) \/ RunEnds(u) \/ DeleteTask(u)
    BY <2>1, <2>11 DEF Wait, DropJob, StartUnloaded, CellReady, TurnTimeout, RunEnds, DeleteTask, table
  <2>12. CASE (\E p, c \in Tasks : WaitTimeout(p, c)) \/ (\E a \in Agents : PumpStops(a)) \/ Suspend
              \/ (\E a \in Agents, c \in Limits \cup {Broken} : EditAgent(a, c))
    BY <2>1, <2>12 DEF WaitTimeout, PumpStops, Suspend, EditAgent, table
  <2> QED
    BY <2>2, <2>4, <2>5, <2>6, <2>7, <2>8, <2>9, <2>10, <2>11, <2>12 DEF Next
<1> QED
  BY <1>1, TypeCorrect, PTL DEF Spec, CancelSticks
-------------------------------------------------------------------------------
(***************************************************************************)
(* Delegations.  Rows are created in order and a delegated row is written  *)
(* once, so what delegate() checked and wrote stays true of it, however    *)
(* rows are cancelled, finished and deleted after that.                    *)
(***************************************************************************)

\* A delegated task comes after the task that delegated it, one level deeper, in its tree.
Below(t) == parent[t] # NoTask => /\ parent[t] < t /\ status[parent[t]] # "free"
                                  /\ depth[t] = depth[parent[t]] + 1 /\ root[t] = root[parent[t]]

ForestInv ==
  /\ \A t, u \in Tasks : t < u /\ status[t] = "free" => status[u] = "free"
  /\ \A t \in Tasks : Below(t)
  /\ \A w \in calls : status[w[2]] # "free" /\ (w[1] # NoTask => parent[w[2]] = w[1])
  /\ \A p \in Tasks : Cardinality(Children(p)) <= MaxChildren

\* A new row: for a client, or below a task that may delegate once more.
NewRow(t, p) ==
  /\ \E a \in Agents : Insert(t, a, p)
  /\ p # NoTask => Exists(p) /\ Cardinality(Children(p)) < MaxChildren
  /\ calls' \subseteq calls \cup ({<<p, t>>} \cap (Tasks \X Tasks))

\* No new row: what rows exist and what was written of their delegations can only go.
NoNewRow ==
  /\ UNCHANGED <<parent, root, depth>>
  /\ \A u \in Tasks : (status'[u] = "free" <=> status[u] = "free") /\ (Exists(u)' => Exists(u))
  /\ \A w \in calls' \ calls : Exists(w[2]) /\ (w[1] # NoTask => parent[w[2]] = w[1])

\* Every handler creates one row or none.
LEMMA NextRow ==
  ASSUME TypeOK, [Next]_vars
  PROVE  NoNewRow \/ \E t \in Tasks, p \in Tasks \cup {NoTask} : NewRow(t, p)
<1> USE DEF Exists
<1>1. ASSUME NEW t \in Tasks, Accept(t)
      PROVE  UNCHANGED <<parent, root, depth>> /\ \A u \in Tasks :
               (status'[u] = "free" <=> status[u] = "free") /\ (Exists(u)' => Exists(u))
  BY <1>1 DEF Accept, TypeOK
<1>2. CASE \E t \in Tasks, a \in Agents : CreateTask(t, a)
  BY <1>2 DEF CreateTask, NewRow
<1>3. CASE \E p, t \in Tasks, a \in Agents, wait \in BOOLEAN : Delegate(p, t, a, wait)
  <2>1. PICK p \in Tasks, t \in Tasks, a \in Agents, wait \in BOOLEAN : Delegate(p, t, a, wait)
    BY <1>3
  <2>2. calls' \subseteq calls \cup ({<<p, t>>} \cap (Tasks \X Tasks))
    BY <2>1 DEF Delegate, Await
  <2>3. NewRow(t, p)
    BY <2>1, <2>2 DEF Delegate, WithinLimits, NewRow
  <2> QED
    BY <2>3
<1>4. CASE \E t \in Tasks : SendTask(t) \/ RetryTask(t)
  BY <1>1, <1>4 DEF SendTask, RetryTask, NoNewRow
<1>5. CASE \E p, c \in Tasks, wait \in BOOLEAN : SendToChild(p, c, wait)
  <2>1. PICK p \in Tasks, c \in Tasks, wait \in BOOLEAN : SendToChild(p, c, wait)
    BY <1>5
  <2>2. \A w \in calls' \ calls : w = <<p, c>>
    BY <2>1 DEF SendToChild, Await
  <2>3. Exists(c) /\ parent[c] = p /\ Accept(c)
    BY <2>1 DEF SendToChild, Children, Rows
  <2> QED
    BY <1>1, <2>2, <2>3 DEF NoNewRow
<1>6. CASE \E c \in Tasks : Wait(c)
  BY <1>6 DEF Wait, table, NoNewRow, Active, NoTask
<1>7. CASE \E t \in Tasks : CancelTask(t)
  BY <1>7 DEF CancelTask, Finish, NoNewRow, Active, TypeOK
<1>8. CASE \E t \in Tasks : TurnStarts(t)
  BY <1>8 DEF TurnStarts, StartTurn, StartRefused, StartUnloaded, DropJob, Finish, table, NoNewRow, TypeOK
<1>9. CASE \E t \in Tasks, said \in {"done", "failed"} : EndTurn(t, said)
  BY <1>9 DEF EndTurn, Finish, Outcome, NoNewRow, TypeOK
<1>10. CASE \E t \in Tasks : CellReady(t) \/ RunEnds(t) \/ TurnTimeout(t) \/ DeleteTask(t)
  BY <1>10 DEF CellReady, RunEnds, TurnTimeout, DeleteTask, table, NoNewRow
<1>11. ASSUME NEW S, DeleteRows(S), \A u \in S \cap Tasks : status[u] # "free",
              UNCHANGED <<parent, root, depth, calls>>
       PROVE  NoNewRow
  BY <1>11 DEF DeleteRows, NoNewRow
<1>12. CASE \E k \in Tasks : Purge(k)
  BY <1>11, <1>12 DEF Purge, Final
<1>13. CASE \E S \in doomed : DeleteRest(S)
  BY <1>11, <1>13 DEF DeleteRest, Rows
<1>14. CASE (\E p, c \in Tasks : WaitTimeout(p, c)) \/ (\E a \in Agents : PumpStops(a))
            \/ (\E a \in Agents, c \in Limits \cup {Broken} : EditAgent(a, c)) \/ Suspend \/ UNCHANGED vars
  BY <1>14 DEF WaitTimeout, PumpStops, EditAgent, Suspend, vars, table, NoNewRow
<1>15. CASE Restart
  BY <1>15 DEF Restart, NoNewRow, Active
<1> QED
  BY <1>2, <1>3, <1>4, <1>5, <1>6, <1>7, <1>8, <1>9, <1>10, <1>12, <1>13, <1>14, <1>15
  DEF Next, TurnStarts

\* The children of a task are finitely many.
LEMMA ChildrenFinite ==
  ASSUME NEW p
  PROVE  IsFiniteSet(Children(p)) /\ Cardinality(Children(p)) \in Nat
<1>1. IsFiniteSet(Tasks)
  BY HubAssumption, FS_Interval DEF Tasks
<1> QED
  BY <1>1, FS_Subset, FS_CardinalityType DEF Children, Rows

\* Fewer children, or one more where there was room for it, are within the limit.
LEMMA ChildrenWithin ==
  ASSUME NEW p, NEW C, C \subseteq Tasks, NEW t,
         \/ C \subseteq Children(p) /\ Cardinality(Children(p)) <= MaxChildren
         \/ C \subseteq Children(p) \cup {t} /\ Cardinality(Children(p)) < MaxChildren
  PROVE  Cardinality(C) <= MaxChildren
<1> DEFINE D == Children(p)
<1>1. IsFiniteSet(D) /\ Cardinality(D) \in Nat /\ MaxChildren \in Nat
  BY ChildrenFinite, HubAssumption
<1>2. \/ C \subseteq D /\ Cardinality(D) <= MaxChildren
      \/ C \subseteq D \cup {t} /\ Cardinality(D) < MaxChildren
  OBVIOUS
<1> HIDE DEF D
<1>3. /\ IsFiniteSet(D \cup {t})
      /\ Cardinality(D \cup {t}) = IF t \in D THEN Cardinality(D) ELSE Cardinality(D) + 1
  BY <1>1, FS_AddElement
<1>4. CASE C \subseteq D /\ Cardinality(D) <= MaxChildren
  <2>1. Cardinality(C) <= Cardinality(D) /\ Cardinality(C) \in Nat
    BY <1>1, <1>4, FS_Subset, FS_CardinalityType
  <2> QED
    BY <1>1, <1>4, <2>1
<1>5. CASE C \subseteq D \cup {t} /\ Cardinality(D) < MaxChildren
  <2>1. Cardinality(C) <= Cardinality(D \cup {t}) /\ Cardinality(C) \in Nat
    BY <1>3, <1>5, FS_Subset, FS_CardinalityType
  <2> QED
    BY <1>1, <1>3, <1>5, <2>1
<1> QED
  BY <1>2, <1>4, <1>5

\* What a handler does to the rows keeps the delegations a forest.
LEMMA NextForest == TypeOK /\ ForestInv /\ [Next]_vars => ForestInv'
<1> SUFFICES ASSUME TypeOK, ForestInv, [Next]_vars PROVE ForestInv'
  OBVIOUS
<1>n. NoTask \notin Tasks /\ Tasks \subseteq Int
  BY Constants DEF NoTask
<1>1. CASE NoNewRow
  <2>1. \A t, u \in Tasks : t < u /\ status'[t] = "free" => status'[u] = "free"
    BY <1>1 DEF NoNewRow, ForestInv
  <2>2. ASSUME NEW t \in Tasks PROVE Below(t)'
    BY <1>1, <2>2 DEF NoNewRow, ForestInv, Below, TypeOK
  <2>3. ASSUME NEW w \in calls' PROVE status'[w[2]] # "free" /\ (w[1] # NoTask => parent'[w[2]] = w[1])
    <3>1. w[2] \in Tasks
      BY NextTyped DEF TypeOK
    <3>2. status[w[2]] # "free" /\ (w[1] # NoTask => parent[w[2]] = w[1])
      BY <1>1, <2>3 DEF NoNewRow, ForestInv, Exists
    <3> QED
      BY <1>1, <3>1, <3>2 DEF NoNewRow
  <2>4. ASSUME NEW p \in Tasks PROVE Cardinality(Children(p)') <= MaxChildren
    <3>1. Children(p)' \subseteq Children(p) /\ Children(p)' \subseteq Tasks
      BY <1>1 DEF NoNewRow, Children, Rows
    <3> QED
      BY <3>1, ChildrenWithin DEF ForestInv
  <2> QED
    BY <2>1, <2>2, <2>3, <2>4 DEF ForestInv
<1>2. ASSUME NEW t \in Tasks, NEW p \in Tasks \cup {NoTask}, NewRow(t, p) PROVE ForestInv'
  <2>1. PICK a \in Agents : Insert(t, a, p)
    BY <1>2 DEF NewRow
  <2>2. /\ status[t] = "free" /\ \A u \in Tasks : u < t => status[u] # "free"
        /\ status'[t] = "queued" /\ parent'[t] = p
        /\ root'[t] = IF p = NoTask THEN t ELSE root[p]
        /\ depth'[t] = IF p = NoTask THEN 0 ELSE depth[p] + 1
        /\ \A u \in Tasks : u # t => /\ status'[u] = status[u] /\ parent'[u] = parent[u]
                                     /\ root'[u] = root[u] /\ depth'[u] = depth[u]
    BY <2>1 DEF Insert, TypeOK
  <2>3. p # NoTask => p \in Tasks /\ p # t /\ status[p] # "free" /\ Cardinality(Children(p)) < MaxChildren
    BY <1>2, <2>2 DEF NewRow, Exists
  <2>4. p # NoTask => p < t
    <3>1. p # NoTask => ~(t < p)
      BY <2>2, <2>3 DEF ForestInv
    <3> QED
      BY <1>n, <2>3, <3>1
  <2>5. \A u, v \in Tasks : u < v /\ status'[u] = "free" => status'[v] = "free"
    <3> SUFFICES ASSUME NEW u \in Tasks, NEW v \in Tasks, u < v, status'[u] = "free"
                 PROVE  status'[v] = "free"
      OBVIOUS
    <3>1. u # t /\ status[u] = "free" /\ ~(u < t)
      BY <2>2
    <3>2. v # t
      BY <3>1
    <3> QED
      BY <2>2, <3>1, <3>2 DEF ForestInv
  <2>6. ASSUME NEW u \in Tasks PROVE Below(u)'
    <3>1. CASE u = t
      BY <2>2, <2>3, <2>4, <3>1 DEF Below
    <3>2. CASE u # t
      <4>1. parent[u] # NoTask => parent[u] # t /\ parent[u] \in Tasks
        BY <2>2, <2>6 DEF ForestInv, Below, TypeOK
      <4> QED
        BY <2>2, <3>2, <4>1 DEF ForestInv, Below
    <3> QED
      BY <3>1, <3>2
  <2>7. ASSUME NEW w \in calls' PROVE status'[w[2]] # "free" /\ (w[1] # NoTask => parent'[w[2]] = w[1])
    <3>1. CASE w \in calls
      <4>1. w[2] \in Tasks /\ w[2] # t
        BY <2>2, <3>1 DEF ForestInv, TypeOK
      <4> QED
        BY <2>2, <3>1, <4>1 DEF ForestInv
    <3>2. CASE w = <<p, t>>
      BY <2>2, <3>2
    <3> QED
      BY <1>2, <3>1, <3>2 DEF NewRow
  <2>8. ASSUME NEW q \in Tasks PROVE Cardinality(Children(q)') <= MaxChildren
    <3>0. /\ Children(q)' \subseteq Tasks
          /\ \A u \in Children(q)' : u # t => u \in Children(q)
      BY <2>2 DEF Children, Rows, Exists
    <3>1. CASE q = p
      <4>1. Children(q)' \subseteq Children(q) \cup {t}
        BY <3>0
      <4>2. Cardinality(Children(q)) < MaxChildren
        BY <1>n, <2>3, <3>1
      <4> QED
        BY <3>0, <4>1, <4>2, ChildrenWithin
    <3>2. CASE q # p
      <4>1. t \notin Children(q)'
        BY <2>2, <3>2 DEF Children
      <4>2. Children(q)' \subseteq Children(q)
        BY <3>0, <4>1
      <4> QED
        BY <3>0, <4>2, ChildrenWithin DEF ForestInv
    <3> QED
      BY <3>1, <3>2
  <2> QED
    BY <2>5, <2>6, <2>7, <2>8 DEF ForestInv
<1> QED
  BY <1>1, <1>2, NextRow

\* Delegations form a forest: a task is delegated by an earlier one, one level above it in the
\* same tree, and a turn only ever waits for a task it delegated.  So calls that wait never form
\* a circle, and no task has more children than DELEGATION.maxChildren (delegate,
\* sendToChild, createTask of the store).
THEOREM DelegationsFormForest ==
  Spec => [](/\ \A t \in Tasks : parent[t] # NoTask =>
                  parent[t] < t /\ depth[t] = depth[parent[t]] + 1 /\ root[t] = root[parent[t]]
             /\ \A w \in calls : w[1] # NoTask => parent[w[2]] = w[1] /\ w[1] < w[2]
             /\ \A p \in Tasks : Cardinality(Children(p)) <= MaxChildren)
<1> DEFINE Forest == /\ \A t \in Tasks : parent[t] # NoTask =>
                          parent[t] < t /\ depth[t] = depth[parent[t]] + 1 /\ root[t] = root[parent[t]]
                     /\ \A w \in calls : w[1] # NoTask => parent[w[2]] = w[1] /\ w[1] < w[2]
                     /\ \A p \in Tasks : Cardinality(Children(p)) <= MaxChildren
<1>1. Init => ForestInv
  <2> SUFFICES ASSUME Init PROVE ForestInv
    OBVIOUS
  <2>1. \A p : Children(p) = {}
    BY DEF Init, Children, Rows, Exists
  <2>2. \A p \in Tasks : Cardinality(Children(p)) <= MaxChildren
    <3>1. Cardinality({}) = 0 /\ MaxChildren \in Nat
      BY FS_EmptySet, HubAssumption
    <3> QED
      BY <2>1, <3>1
  <2>3. \A t \in Tasks : Below(t) /\ status[t] = "free"
    BY DEF Init, Below
  <2> QED
    BY <2>2, <2>3 DEF Init, ForestInv
<1>2. TypeOK /\ ForestInv => Forest
  <2> SUFFICES ASSUME TypeOK, ForestInv PROVE Forest
    OBVIOUS
  <2>1. \A w \in calls : w[2] \in Tasks
    BY DEF TypeOK
  <2> QED
    BY <2>1 DEF ForestInv, Below
<1> HIDE DEF Forest
<1>3. Spec => []Forest
  BY <1>1, <1>2, NextForest, TypeCorrect, PTL DEF Spec
<1> QED
  BY <1>3 DEF Forest
===============================================================================
