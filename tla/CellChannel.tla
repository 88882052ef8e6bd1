------------------------------ MODULE CellChannel ------------------------------
(***************************************************************************)
(* One cell and its two ends: Hub.execute and CellSession in the daemon    *)
(* (hub.ts, cell.ts), the runner in the cell (cell-runner/src/runner.ts),  *)
(* and the pipe of frames in either direction between them.  Turns follow  *)
(* each other in the cell; each may call tools of the daemon, be cancelled *)
(* or time out, while frames of either side are still under way.           *)
(*                                                                         *)
(* Two timers of the same length watch a turn: the hub's cancels it and    *)
(* closes the cell ten seconds later, the session's, which starts a moment *)
(* later, cancels it and ends the turn for the daemon at once.             *)
(***************************************************************************)
EXTENDS Naturals, Sequences, FiniteSets

CONSTANTS
  MaxPending,    \* MAX_PENDING_TOOLS of the runner
  MaxToolCalls,  \* TURN_MAX_TOOL_CALLS of the session
  MaxTurns,      \* bound: turns
  MaxCalls,      \* bound: tool calls of all turns
  MaxEvents,     \* bound: events of one turn
  MaxRare        \* bound: cancels, crashes, invalid frames and turns that time out

ASSUME ChannelAssumption ==
  {MaxPending, MaxToolCalls, MaxTurns, MaxCalls, MaxEvents, MaxRare} \subseteq Nat

Turns  == 1..MaxTurns
NoTurn == 0

VARIABLES
  \* ---- Hub.execute ----
  hub,       \* where it is, its turn, what was signalled; whether the cell is still in its map
  killer,    \* the ten-second timer of a timed-out turn
  outcome,   \* [Turns -> how finish() was called]
  recorded,  \* [Turns -> events it recorded]
  \* ---- CellSession ----
  session,   \* ready, current, turnToolCalls, closed, exitReason; whether stdin was ended
  done,      \* what run() was told of its turn
  queue,     \* events run() has yet to hand on
  serving,   \* tool calls whose handler runs
  \* ---- the pipes ----
  down, up,
  \* ---- the runner ----
  runner,    \* whether it runs, its current turn, whether that was aborted, its call counter
  pending,   \* tool calls that wait for the daemon
  \* ---- history and bounds ----
  sent,      \* [Turns -> events the runner sent]
  ranOk,     \* turns the runner ended well
  overtaken, \* the session's own timer, or a frame that is none, may have ended a turn for it
  rare

daemon == <<hub, killer, outcome, recorded>>
ends   == <<session, done, queue, serving>>
cell   == <<runner, pending, sent, ranOk>>
vars   == <<daemon, ends, down, up, cell, overtaken, rare>>

Init ==
  /\ hub = [at |-> "idle", turn |-> NoTurn, mapped |-> TRUE, aborted |-> FALSE,
            timedOut |-> FALSE]
  /\ killer = FALSE
  /\ outcome = [t \in Turns |-> "none"] /\ recorded = [t \in Turns |-> 0]
  /\ session = [ready |-> "waiting", current |-> NoTurn, calls |-> 0, closed |-> FALSE,
                exitReason |-> "none", ended |-> FALSE]
  /\ done = "no" /\ queue = <<>> /\ serving = {}
  /\ down = <<>> /\ up = <<>>
  /\ runner = [is |-> "boot", current |-> NoTurn, aborted |-> FALSE, nextCall |-> 0]
  /\ pending = {}
  /\ sent = [t \in Turns |-> 0] /\ ranOk = {}
  /\ overtaken = FALSE /\ rare = 0

Rarely == rare < MaxRare /\ rare' = rare + 1

-------------------------------------------------------------------------------
(* CellSession. *)

\* send(): nothing goes to a runner that exited, or whose input was ended.
Sent(s, cmd) == IF s.closed \/ s.ended THEN down ELSE Append(down, cmd)

\* end(): the last word counts, and run() hears it in its next step.
Ended(s, how) == IF s.current # NoTurn THEN how ELSE done

\* fail(): input ended, the process told to stop; it may still run on and write.
Failed(s, reason) ==
  [s EXCEPT !.exitReason = reason, !.ended = TRUE,
            !.ready = IF @ = "waiting" THEN "rejected" ELSE @]

Fail(reason) ==
  /\ session' = Failed(session, reason) /\ done' = Ended(session, "reason")
  /\ UNCHANGED <<queue, serving>>

Heard(kind) == up # <<>> /\ Head(up).type = kind /\ up' = Tail(up)

\* Events, calls and ends must be of the turn in progress.
OfAnyTurn(frame) == session.current # NoTurn
InTurn(frame) == session.current # NoTurn /\ frame.turn = session.current

HearsReady ==
  /\ Heard("ready")
  /\ session' = [session EXCEPT !.ready = IF @ = "waiting" THEN "yes" ELSE @]
  /\ UNCHANGED <<daemon, done, queue, serving, down, cell, overtaken, rare>>

\* The cell manager's own error, or a frame that is none.
HearsError ==
  /\ Heard("error") /\ Fail("error") /\ overtaken' = TRUE
  /\ UNCHANGED <<daemon, down, cell, rare>>

HearsStray ==
  /\ up # <<>> /\ Head(up).type \in {"event", "tool.request", "turn.end"} /\ up' = Tail(up)
  /\ ~InTurn(Head(up))
  /\ Fail("stray")
  /\ UNCHANGED <<daemon, down, cell, overtaken, rare>>

HearsEvent ==
  /\ Heard("event") /\ InTurn(Head(up))
  /\ queue' = Append(queue, Head(up).fatal)
  /\ UNCHANGED <<daemon, session, done, serving, down, cell, overtaken, rare>>

HearsEnd ==
  /\ Heard("turn.end") /\ InTurn(Head(up))
  /\ done' = "ended"
  /\ UNCHANGED <<daemon, session, queue, serving, down, cell, overtaken, rare>>

\* onTool(): a call over the limit is answered at once, others by their handler.
Response(call) == [type |-> "tool.response", id |-> call.id, turn |-> call.turn]

SilentRefusal(call) == down
Refusal(call) == Sent(session, Response(call))

HearsCall ==
  /\ Heard("tool.request") /\ InTurn(Head(up))
  /\ LET call == [id |-> Head(up).id, turn |-> Head(up).turn] IN
     /\ session' = [session EXCEPT !.calls = @ + 1]
     /\ IF session.calls >= MaxToolCalls
        THEN down' = Refusal(call) /\ UNCHANGED serving
        ELSE serving' = serving \cup {call} /\ UNCHANGED down
  /\ UNCHANGED <<daemon, done, queue, cell, overtaken, rare>>

HandlerAnswers(call) ==
  /\ call \in serving /\ serving' = serving \ {call}
  /\ down' = Sent(session, Response(call))
  /\ UNCHANGED <<daemon, session, done, queue, up, cell, overtaken, rare>>

\* The ninety seconds a runner has to start.
ReadyTimeout ==
  /\ session.ready = "waiting" /\ Rarely
  /\ Fail("error")
  /\ UNCHANGED <<daemon, down, up, cell, overtaken>>

\* The process is gone and its output was read: onExit(), and the hub drops the cell.
ExitTold(s) == Ended(s, "reason")

OnExit ==
  /\ runner.is = "gone" /\ up = <<>> /\ ~session.closed
  /\ session' = [session EXCEPT !.closed = TRUE,
                                !.ready = IF @ = "waiting" THEN "rejected" ELSE @]
  /\ done' = ExitTold(session)
  /\ hub' = [hub EXCEPT !.mapped = FALSE]
  /\ UNCHANGED <<killer, outcome, recorded, queue, serving, down, up, cell, overtaken, rare>>

-------------------------------------------------------------------------------
(* Hub.execute. *)

\* finish(); closeCell() of a cancelled task, whose cell may be out of the map already.
TurnOver(how, told) ==
  /\ hub' = [hub EXCEPT !.at = "idle", !.mapped = @ /\ ~hub.aborted]
  /\ outcome' = [outcome EXCEPT ![hub.turn] =
                   IF hub.aborted THEN "cancelled" ELSE IF hub.timedOut THEN "failed" ELSE how]
  /\ recorded' = told

\* A turn looks for its cell and finds this one.
Begin ==
  /\ hub.at = "idle" /\ hub.mapped /\ ~session.closed /\ hub.turn < MaxTurns
  /\ hub' = [hub EXCEPT !.at = "cell", !.turn = @ + 1, !.aborted = FALSE, !.timedOut = FALSE]
  /\ UNCHANGED <<killer, outcome, recorded, ends, down, up, cell, overtaken, rare>>

\* It waits for the runner, then for what goes into the prompt; the hub's timer runs from here.
CellReady ==
  /\ hub.at = "cell" /\ session.ready # "waiting"
  /\ IF session.ready = "yes" /\ ~hub.aborted
     THEN hub' = [hub EXCEPT !.at = "input"] /\ UNCHANGED <<outcome, recorded>>
     ELSE TurnOver("failed", recorded)
  /\ UNCHANGED <<killer, ends, down, up, cell, overtaken, rare>>

\* CellSession.run().
SendRun ==
  /\ hub.at = "input"
  /\ IF session.current # NoTurn \/ session.closed
     THEN TurnOver("failed", recorded) /\ UNCHANGED <<session, done, down>>
     ELSE /\ hub' = [hub EXCEPT !.at = "running"]
          /\ session' = [session EXCEPT !.current = hub.turn, !.calls = 0]
          /\ done' = "no"
          /\ down' = Sent(session, [type |-> "run", turn |-> hub.turn])
          /\ UNCHANGED <<outcome, recorded>>
  /\ UNCHANGED <<killer, queue, serving, up, cell, overtaken, rare>>

\* The next event of the loop, handed on before the end is looked at.
Records ==
  /\ hub.at = "running" /\ queue # <<>>
  /\ queue' = Tail(queue)
  /\ recorded' = [recorded EXCEPT ![hub.turn] = @ + 1]
  /\ outcome' = IF Head(queue) THEN [outcome EXCEPT ![hub.turn] = "failing"] ELSE outcome
  /\ UNCHANGED <<hub, killer, session, done, serving, down, up, cell, overtaken, rare>>

\* run() returns, or throws the reason; a fatal event has failed the turn, not `ok`.
RunEnds ==
  /\ hub.at = "running" /\ done # "no" /\ queue = <<>>
  /\ TurnOver(IF done = "ended" /\ outcome[hub.turn] # "failing" THEN "done" ELSE "failed",
              recorded)
  /\ session' = [session EXCEPT !.current = NoTurn]
  /\ done' = "no"
  /\ UNCHANGED <<killer, queue, serving, down, up, cell, overtaken, rare>>

\* cancelTask(): the abort cancels the turn, if it has begun; the cell leaves the map.
CancelTurn == Sent(session, [type |-> "cancel", turn |-> hub.turn])

Abort ==
  /\ hub.at # "idle" /\ ~hub.aborted /\ Rarely
  /\ hub' = [hub EXCEPT !.aborted = TRUE, !.mapped = FALSE]
  /\ down' = IF hub.at = "cell" THEN down ELSE CancelTurn
  /\ UNCHANGED <<killer, outcome, recorded, ends, up, cell, overtaken>>

\* The hub's timer.
HubTimer ==
  /\ hub.at \in {"input", "running"} /\ done = "no" /\ ~hub.timedOut /\ Rarely
  /\ hub' = [hub EXCEPT !.timedOut = TRUE]
  /\ down' = CancelTurn
  /\ killer' = TRUE
  /\ UNCHANGED <<outcome, recorded, ends, up, cell, overtaken>>

\* The session's timer, as long as the hub's and started after it.
SessionTimer ==
  /\ hub.at = "running" /\ done = "no" /\ hub.timedOut
  /\ down' = CancelTurn
  /\ done' = "reason" /\ overtaken' = TRUE
  /\ UNCHANGED <<daemon, session, queue, serving, up, cell, rare>>

\* "A runner that ignores the cancel loses its cell."
KillerFires ==
  /\ killer /\ killer' = FALSE
  /\ hub' = [hub EXCEPT !.mapped = FALSE]
  /\ UNCHANGED <<outcome, recorded, ends, down, up, cell, overtaken, rare>>

\* The idle timer, or an eviction.
CloseIdle ==
  /\ hub.at = "idle" /\ hub.turn # NoTurn /\ hub.mapped
  /\ hub' = [hub EXCEPT !.mapped = FALSE]
  /\ UNCHANGED <<killer, outcome, recorded, ends, down, up, cell, overtaken, rare>>

\* close(), after the scan of a cell that left the map.
Close ==
  /\ ~hub.mapped /\ ~session.closed /\ ~session.ended
  /\ session' = [session EXCEPT !.ended = TRUE, !.exitReason = "closed"]
  /\ UNCHANGED <<daemon, done, queue, serving, down, up, cell, overtaken, rare>>

-------------------------------------------------------------------------------
(* The runner. *)

Runs == runner.is = "up"
Says(frames) == up' = up \o frames

Event(t, fatal) == <<[type |-> "event", turn |-> t, fatal |-> fatal]>>
End(t)          == <<[type |-> "turn.end", turn |-> t]>>

Counted(t) == [sent EXCEPT ![t] = @ + 1]

RunnerStarts ==
  /\ runner.is = "boot"
  /\ runner' = [runner EXCEPT !.is = "up"]
  /\ Says(<<[type |-> "ready"]>>)
  /\ UNCHANGED <<daemon, ends, down, pending, sent, ranOk, overtaken, rare>>

\* The cell manager reports why there is none.
StartFails ==
  /\ runner.is = "boot" /\ Rarely
  /\ runner' = [runner EXCEPT !.is = "gone"]
  /\ Says(<<[type |-> "error"]>>)
  /\ UNCHANGED <<daemon, ends, down, pending, sent, ranOk, overtaken>>

Read(kind) == Runs /\ down # <<>> /\ Head(down).type = kind /\ down' = Tail(down)

ReadsRun ==
  /\ Read("run")
  /\ LET t == Head(down).turn IN
     IF runner.current = NoTurn
     THEN /\ runner' = [runner EXCEPT !.current = t, !.aborted = FALSE]
          /\ UNCHANGED <<up, sent>>
     ELSE /\ Says(Event(t, TRUE) \o End(t)) /\ sent' = Counted(t)
          /\ UNCHANGED runner
  /\ UNCHANGED <<daemon, ends, pending, ranOk, overtaken, rare>>

ReadsCancel ==
  /\ Read("cancel")
  /\ runner' = [runner EXCEPT !.aborted = @ \/ runner.current = Head(down).turn]
  /\ UNCHANGED <<daemon, ends, up, pending, sent, ranOk, overtaken, rare>>

\* The call that waits under this id is answered.
Answered(id) == {call \in pending : call.id = id}

ReadsResponse ==
  /\ Read("tool.response")
  /\ pending' = pending \ Answered(Head(down).id)
  /\ UNCHANGED <<daemon, ends, up, runner, sent, ranOk, overtaken, rare>>

\* execute(): an event of the runtime.
Emits ==
  /\ Runs /\ runner.current # NoTurn /\ sent[runner.current] < MaxEvents
  /\ Says(Event(runner.current, FALSE)) /\ sent' = Counted(runner.current)
  /\ UNCHANGED <<daemon, ends, down, runner, pending, ranOk, overtaken, rare>>

\* callTool(), for whoever connects to the tool socket; refused calls send nothing.
NextCallOfTurn == Cardinality(pending) + 1
NextCall == runner.nextCall + 1

MayCallAnyTime == Cardinality(pending) < MaxPending
MayCall == runner.current # NoTurn /\ Cardinality(pending) < MaxPending

CallsTool ==
  /\ Runs /\ MayCall /\ runner.nextCall < MaxCalls
  /\ runner' = [runner EXCEPT !.nextCall = @ + 1]
  /\ pending' = pending \cup {[id |-> NextCall, turn |-> runner.current]}
  /\ Says(<<[type |-> "tool.request", turn |-> runner.current, id |-> NextCall]>>)
  /\ UNCHANGED <<daemon, ends, down, sent, ranOk, overtaken, rare>>

\* The runtime ends the turn, fails, or obeys the abort.  Waiting calls end with it.
KeepsCalls == pending
LeftOver == {}

RuntimeEnds(ok) ==
  /\ Runs /\ runner.current # NoTurn
  /\ LET t == runner.current IN
     /\ IF ok THEN Says(End(t)) /\ UNCHANGED sent
        ELSE Says(Event(t, TRUE) \o End(t)) /\ sent' = Counted(t)
     /\ ranOk' = IF ok /\ ~runner.aborted THEN ranOk \cup {t} ELSE ranOk
     /\ runner' = [runner EXCEPT !.current = NoTurn]
  /\ pending' = LeftOver
  /\ UNCHANGED <<daemon, ends, down, overtaken, rare>>

\* Its input ended: it aborts the turn and exits at once.
InputEnds ==
  /\ runner.is # "gone" /\ session.ended /\ down = <<>>
  /\ runner' = [runner EXCEPT !.is = "gone"]
  /\ UNCHANGED <<daemon, ends, down, up, pending, sent, ranOk, overtaken, rare>>

\* SIGTERM, fifteen seconds after close() or from fail(), or the cell dies: what was under way
\* to the daemon is lost.
Dies ==
  /\ runner.is # "gone"
  /\ IF session.ended THEN UNCHANGED rare ELSE Rarely
  /\ runner' = [runner EXCEPT !.is = "gone"]
  /\ up' = <<>>
  /\ UNCHANGED <<daemon, ends, down, pending, sent, ranOk, overtaken>>

\* A runner that is not the one described here writes what is no frame.
Garbage ==
  /\ Runs /\ Rarely
  /\ Says(<<[type |-> "error"]>>)
  /\ UNCHANGED <<daemon, ends, down, cell, overtaken>>

-------------------------------------------------------------------------------
SessionSteps ==
  \/ HearsReady \/ HearsError \/ HearsStray \/ HearsEvent \/ HearsEnd \/ HearsCall \/ OnExit
HubSteps    == CellReady \/ SendRun \/ Records \/ RunEnds \/ Close
RunnerReads == RunnerStarts \/ ReadsRun \/ ReadsCancel \/ ReadsResponse \/ InputEnds

Calls == [id : 1..MaxCalls, turn : Turns]

Next ==
  \/ SessionSteps \/ (\E call \in Calls : HandlerAnswers(call)) \/ ReadyTimeout
  \/ Begin \/ HubSteps \/ Abort \/ HubTimer \/ SessionTimer \/ KillerFires \/ CloseIdle
  \/ RunnerReads \/ StartFails \/ Emits \/ CallsTool \/ (\E ok \in BOOLEAN : RuntimeEnds(ok))
  \/ Dies \/ Garbage

Spec == Init /\ [][Next]_vars

\* Both event loops go on and handlers return; the session's timer, the ten-second timer and the
\* SIGTERM come.  Nothing makes a runtime end its turn, or obey a cancel.
FairSpec ==
  /\ Spec
  /\ WF_vars(SessionSteps) /\ WF_vars(HubSteps) /\ WF_vars(RunnerReads)
  /\ WF_vars(\E call \in Calls : HandlerAnswers(call))
  /\ WF_vars(SessionTimer) /\ WF_vars(KillerFires) /\ WF_vars(session.ended /\ Dies)

-------------------------------------------------------------------------------
(* Properties. *)

Frames(pipe) == {pipe[i] : i \in DOMAIN pipe}

\* Every variable keeps its shape; the session's turn is the hub's, calls that wait are of the
\* runner's turn, and no more of them than MAX_PENDING_TOOLS.
TypeOK ==
  /\ hub.at \in {"idle", "cell", "input", "running"} /\ hub.turn \in 0..MaxTurns
  /\ {hub.mapped, hub.aborted, hub.timedOut, killer, overtaken} \subseteq BOOLEAN
  /\ outcome \in [Turns -> {"none", "failing", "done", "failed", "cancelled"}]
  /\ recorded \in [Turns -> Nat] /\ sent \in [Turns -> Nat]
  /\ session.ready \in {"waiting", "yes", "rejected"}
  /\ session.current = (IF hub.at = "running" THEN hub.turn ELSE NoTurn)
  /\ session.exitReason \in {"none", "closed", "error", "stray"}
  /\ {session.closed, session.ended, runner.aborted} \subseteq BOOLEAN
  /\ done \in {"no", "ended", "reason"} /\ serving \subseteq Calls
  /\ runner.is \in {"boot", "up", "gone"} /\ runner.current \in 0..MaxTurns
  /\ \A call \in pending : call \in Calls /\ call.turn = runner.current
  /\ Cardinality(pending) <= MaxPending
  /\ ranOk \subseteq Turns /\ rare \in 0..MaxRare

\* "events must belong to the turn in progress, and the first violation ends the cell": the
\* runner of this repository never breaks that rule, whatever is cancelled or answered late,
\* unless the session's own timer, or a frame that is none, ended a turn the runner still has.
HonestRunnerBelieved == session.exitReason = "stray" => overtaken

\* A turn the hub finishes as done is one the runner ended well, and all its events are recorded.
DoneIsWhole ==
  \A t \in Turns : outcome[t] = "done" => t \in ranOk /\ recorded[t] = sent[t]

\* An answer under way, whose id waits in the runner, answers that call and not one that an
\* earlier turn made.
AnswerMeetsItsCall ==
  \A frame \in Frames(down) : frame.type = "tool.response" =>
    \A call \in Answered(frame.id) : call.turn = frame.turn

\* A tool call that waits is answered, or ends with its turn or its cell; and a turn that timed
\* out, was cancelled or lost its cell is finished, whatever its runner does.
EverythingSettles ==
  /\ \A id \in 1..MaxCalls : (Answered(id) # {}) ~> (Answered(id) = {} \/ runner.is = "gone")
  /\ (hub.at # "idle" /\ (hub.timedOut \/ hub.aborted \/ runner.is = "gone")) ~> (hub.at = "idle")
===============================================================================
