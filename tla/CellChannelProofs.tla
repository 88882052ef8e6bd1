--------------------------- MODULE CellChannelProofs ---------------------------
(* Theorems about CellChannel, for any number of turns, calls, events and rare things. *)
EXTENDS CellChannel, FiniteSetTheorems, TLAPS

(***************************************************************************)
(* The inductive invariant.                                                *)
(***************************************************************************)

UpFrames ==
  [type : {"ready", "error"}] \cup [type : {"event"}, turn : Turns, fatal : BOOLEAN]
    \cup [type : {"turn.end"}, turn : Turns] \cup [type : {"tool.request"}, turn : Turns, id : 1..MaxCalls]

DownFrames ==
  [type : {"run", "cancel"}, turn : Turns] \cup [type : {"tool.response"}, id : 1..MaxCalls, turn : Turns]

\* The parts of TypeOK, with the frames of the pipes.
HubTyped ==
  /\ hub \in [at : {"idle", "cell", "input", "running"}, turn : 0..MaxTurns,
              mapped : BOOLEAN, aborted : BOOLEAN, timedOut : BOOLEAN]
  /\ killer \in BOOLEAN /\ overtaken \in BOOLEAN /\ rare \in 0..MaxRare
  /\ outcome \in [Turns -> {"none", "failing", "done", "failed", "cancelled"}]
  /\ recorded \in [Turns -> Nat] /\ sent \in [Turns -> Nat] /\ ranOk \subseteq Turns
  /\ hub.at # "idle" => hub.turn # NoTurn

SessionTyped ==
  /\ session \in [ready : {"waiting", "yes", "rejected"}, current : 0..MaxTurns, calls : Nat,
                  closed : BOOLEAN, exitReason : {"none", "closed", "error", "stray"}, ended : BOOLEAN]
  /\ session.current = (IF hub.at = "running" THEN hub.turn ELSE NoTurn)
  /\ hub.at \in {"input", "running"} => session.ready # "waiting"
  /\ done \in {"no", "ended", "reason"} /\ queue \in Seq(BOOLEAN)
  /\ session.current = NoTurn => done = "no" /\ queue = <<>>

CallsTyped ==
  /\ runner \in [is : {"boot", "up", "gone"}, current : 0..MaxTurns, aborted : BOOLEAN, nextCall : 0..MaxCalls]
  /\ serving \subseteq Calls
  /\ \A call \in pending : call \in Calls /\ call.turn = runner.current
  /\ Cardinality(pending) <= MaxPending

PipesTyped == up \in Seq(UpFrames) /\ down \in Seq(DownFrames)

OfTurn(frame) == frame.type \in {"event", "tool.request", "turn.end"}
Silent(t)     == \A i \in DOMAIN up : OfTurn(up[i]) => up[i].turn # t
NotAsked(t)   == \A i \in DOMAIN down : down[i].type = "run" => down[i].turn # t

\* The last turn that was handed to the session; nothing anywhere knows of a later one.
Begun == IF hub.at \in {"cell", "input"} THEN hub.turn - 1 ELSE hub.turn

Later ==
  /\ \A i \in DOMAIN up : OfTurn(up[i]) => up[i].turn <= Begun
  /\ \A i \in DOMAIN down : down[i].type = "run" => down[i].turn <= Begun
  /\ runner.current <= Begun
  /\ \A t \in Turns : t > Begun => recorded[t] = 0 /\ sent[t] = 0 /\ t \notin ranOk /\ outcome[t] = "none"

\* A turn is only told to stop for a reason the hub remembers.
Told(t) == t < hub.turn \/ (t = hub.turn /\ (hub.aborted \/ hub.timedOut))

Stopped ==
  /\ \A i \in DOMAIN down : down[i].type = "cancel" => Told(down[i].turn)
  /\ runner.aborted /\ runner.current # NoTurn => Told(runner.current)

\* A turn whose `run` is under way has not begun, and is asked for once.
RunOnce ==
  \A i \in DOMAIN down : down[i].type = "run" =>
    LET t == down[i].turn IN
    /\ Silent(t) /\ runner.current # t /\ t \notin ranOk /\ sent[t] = 0 /\ recorded[t] = 0
    /\ session.current = t => queue = <<>> /\ done # "ended"
    /\ \A j \in DOMAIN down : down[j].type = "run" /\ down[j].turn = t => j = i

\* Nothing of a turn follows its end.
EndLast ==
  \A i \in DOMAIN up : up[i].type = "turn.end" =>
    /\ runner.current # up[i].turn
    /\ \A j \in DOMAIN up : j > i /\ OfTurn(up[j]) => up[j].turn # up[i].turn

EndHeard == done = "ended" => Silent(session.current) /\ runner.current # session.current

\* Events of the turn in progress that are neither lost nor recorded wait in the queue or the
\* pipe; once the runner cannot end the turn any more, they no longer matter.
EventsIn(pipe, t) == {i \in DOMAIN pipe : pipe[i].type = "event" /\ pipe[i].turn = t}
Events(t)   == EventsIn(up, t)
EndComes(t) == \E i \in DOMAIN up : up[i].type = "turn.end" /\ up[i].turn = t
Whole ==
  session.current # NoTurn =>
    LET t == session.current IN
    ((runner.is # "gone" /\ runner.current = t) \/ EndComes(t) \/ done = "ended")
      => recorded[t] + Len(queue) + Cardinality(Events(t)) = sent[t]

\* A turn that comes to its end ended well, was stopped, or has told of its failure.
Fatal(t) ==
  \/ outcome[t] = "failing" \/ \E i \in DOMAIN queue : queue[i]
  \/ \E i \in DOMAIN up : up[i].type = "event" /\ up[i].turn = t /\ up[i].fatal

EndTells ==
  session.current # NoTurn /\ (EndComes(session.current) \/ done = "ended") =>
    session.current \in ranOk \/ Fatal(session.current) \/ hub.aborted \/ hub.timedOut

\* Nothing more comes of a turn that is done.
DoneStays ==
  \A t \in Turns : outcome[t] = "done" =>
    /\ t \in ranOk /\ recorded[t] = sent[t]
    /\ session.current # t /\ runner.current # t /\ NotAsked(t)

\* Unless a turn was ended for its runner, all that is under way is of the session's turn, whose
\* end has not been heard.
InStep ==
  ~overtaken =>
    /\ \A i \in DOMAIN up : OfTurn(up[i]) => up[i].turn = session.current /\ done = "no"
    /\ runner.is # "gone" =>
         /\ runner.current # NoTurn =>
              runner.current = session.current /\ done = "no" /\ \A i \in DOMAIN down : down[i].type # "run"
         /\ \A i \in DOMAIN down : down[i].type = "run" => down[i].turn = session.current /\ done = "no"

\* Whatever names a call says the same turn of it; no two calls have an id in common.
Requests  == {[id |-> up[i].id, turn |-> up[i].turn] : i \in {j \in DOMAIN up : up[j].type = "tool.request"}}
Responses == {[id |-> down[i].id, turn |-> down[i].turn] : i \in {j \in DOMAIN down : down[j].type = "tool.response"}}
Known     == pending \cup serving \cup Requests \cup Responses

IdsUnique ==
  /\ \A call \in Known : call.id <= runner.nextCall
  /\ \A a, b \in Known : a.id = b.id => a.turn = b.turn

Inv ==
  /\ HubTyped /\ SessionTyped /\ CallsTyped /\ PipesTyped
  /\ Later /\ Stopped /\ RunOnce /\ EndLast /\ EndHeard /\ Whole /\ EndTells /\ DoneStays
  /\ InStep /\ HonestRunnerBelieved /\ IdsUnique

(***************************************************************************)
(* The pipes.                                                              *)
(***************************************************************************)

\* A pipe loses the frame that is read.
LEMMA TailIs ==
  ASSUME NEW F, NEW p \in Seq(F), p # <<>>
  PROVE  /\ Tail(p) \in Seq(F) /\ Len(Tail(p)) = Len(p) - 1 /\ Len(p) \in Nat
         /\ DOMAIN p = 1..Len(p) /\ DOMAIN Tail(p) = 1..(Len(p) - 1)
         /\ 1 \in DOMAIN p /\ Head(p) = p[1] /\ p[1] \in F
         /\ \A i \in DOMAIN Tail(p) : i \in Nat /\ i + 1 > 1 /\ i + 1 \in DOMAIN p /\ Tail(p)[i] = p[i + 1]
         /\ \A i \in DOMAIN p : i # 1 => i - 1 \in DOMAIN Tail(p) /\ Tail(p)[i - 1] = p[i]
<1>1. /\ Tail(p) \in Seq(F) /\ Len(Tail(p)) = Len(p) - 1 /\ Len(p) \in Nat /\ Len(p) >= 1
      /\ DOMAIN p = 1..Len(p) /\ DOMAIN Tail(p) = 1..(Len(p) - 1)
      /\ Head(p) = p[1]
  OBVIOUS
<1>2. \A i \in 1..(Len(p) - 1) : Tail(p)[i] = p[i + 1]
  OBVIOUS
<1>3. 1 \in DOMAIN p /\ p[1] \in F
  BY <1>1
<1>4. \A i \in DOMAIN Tail(p) : i \in Nat /\ i + 1 > 1 /\ i + 1 \in DOMAIN p /\ Tail(p)[i] = p[i + 1]
  BY <1>1, <1>2
<1>5. \A i \in DOMAIN p : i # 1 => i - 1 \in 1..(Len(p) - 1) /\ (i - 1) + 1 = i
  BY <1>1
<1>6. \A i \in DOMAIN p : i # 1 => i - 1 \in DOMAIN Tail(p) /\ Tail(p)[i - 1] = p[i]
  BY <1>1, <1>2, <1>5
<1> QED
  BY <1>1, <1>3, <1>4, <1>6

\* It grows by the frame that is written.
LEMMA AppendIs ==
  ASSUME NEW F, NEW p \in Seq(F), NEW f \in F
  PROVE  /\ Append(p, f) \in Seq(F) /\ Append(p, f) = p \o <<f>> /\ Len(p) \in Nat
         /\ DOMAIN p = 1..Len(p) /\ DOMAIN Append(p, f) = 1..(Len(p) + 1)
         /\ Append(p, f)[Len(p) + 1] = f
         /\ \A i \in DOMAIN p : i \in DOMAIN Append(p, f) /\ Append(p, f)[i] = p[i] /\ i < Len(p) + 1
         /\ \A i \in DOMAIN Append(p, f) : i \in DOMAIN p \/ i = Len(p) + 1
OBVIOUS

(***************************************************************************)
(* Types.                                                                  *)
(***************************************************************************)

\* A turn that is over.
LEMMA TurnOverIs ==
  ASSUME HubTyped, hub.at # "idle", NEW how \in {"done", "failed"}, NEW told, TurnOver(how, told)
  PROVE  /\ hub' \in [at : {"idle", "cell", "input", "running"}, turn : 0..MaxTurns,
                      mapped : BOOLEAN, aborted : BOOLEAN, timedOut : BOOLEAN]
         /\ hub'.at = "idle" /\ hub'.turn = hub.turn /\ hub'.aborted = hub.aborted /\ hub'.timedOut = hub.timedOut
         /\ hub.turn \in Turns
         /\ outcome' \in [Turns -> {"none", "failing", "done", "failed", "cancelled"}]
         /\ \A t \in Turns : t # hub.turn => outcome'[t] = outcome[t]
         /\ outcome'[hub.turn] = IF hub.aborted THEN "cancelled" ELSE IF hub.timedOut THEN "failed" ELSE how
         /\ recorded' = told
<1>1. MaxTurns \in Nat /\ hub.turn \in Turns
  BY ChannelAssumption DEF HubTyped, Turns, NoTurn
<1>2. hub' = [hub EXCEPT !.at = "idle", !.mapped = hub.mapped /\ ~hub.aborted]
  BY DEF TurnOver
<1>3. outcome' = [outcome EXCEPT ![hub.turn] =
                    IF hub.aborted THEN "cancelled" ELSE IF hub.timedOut THEN "failed" ELSE how]
  BY DEF TurnOver
<1>4. /\ hub' \in [at : {"idle", "cell", "input", "running"}, turn : 0..MaxTurns,
                   mapped : BOOLEAN, aborted : BOOLEAN, timedOut : BOOLEAN]
      /\ hub'.at = "idle" /\ hub'.turn = hub.turn /\ hub'.aborted = hub.aborted /\ hub'.timedOut = hub.timedOut
  BY <1>2 DEF HubTyped
<1>5. outcome' \in [Turns -> {"none", "failing", "done", "failed", "cancelled"}]
  BY <1>1, <1>3 DEF HubTyped
<1>6. /\ \A t \in Turns : t # hub.turn => outcome'[t] = outcome[t]
      /\ outcome'[hub.turn] = IF hub.aborted THEN "cancelled" ELSE IF hub.timedOut THEN "failed" ELSE how
  BY <1>1, <1>3 DEF HubTyped
<1> QED
  BY <1>1, <1>4, <1>5, <1>6 DEF TurnOver

\* The frames that are said.
LEMMA FramesTyped ==
  /\ \A t \in Turns, fatal \in BOOLEAN : [type |-> "event", turn |-> t, fatal |-> fatal] \in UpFrames
  /\ \A t \in Turns : [type |-> "turn.end", turn |-> t] \in UpFrames
  /\ \A t \in Turns, id \in 1..MaxCalls : [type |-> "tool.request", turn |-> t, id |-> id] \in UpFrames
  /\ [type |-> "ready"] \in UpFrames /\ [type |-> "error"] \in UpFrames
  /\ \A t \in Turns : [type |-> "run", turn |-> t] \in DownFrames /\ [type |-> "cancel", turn |-> t] \in DownFrames
  /\ \A t \in Turns, id \in 1..MaxCalls : [type |-> "tool.response", id |-> id, turn |-> t] \in DownFrames
BY DEF UpFrames, DownFrames

\* What a frame of the daemon's pipe carries.
LEMMA UpFramesAre ==
  ASSUME NEW f \in UpFrames
  PROVE  /\ f.type \in {"ready", "error", "event", "turn.end", "tool.request"}
         /\ OfTurn(f) => f.turn \in Turns
         /\ f.type = "event" => f.fatal \in BOOLEAN
         /\ f.type = "tool.request" => f.id \in 1..MaxCalls
BY DEF UpFrames, OfTurn

\* And one of the runner's.
LEMMA DownFramesAre ==
  ASSUME NEW f \in DownFrames
  PROVE  /\ f.type \in {"run", "cancel", "tool.response"} /\ f.turn \in Turns
         /\ f.type = "tool.response" => f.id \in 1..MaxCalls
         /\ f.type = "run" => f = [type |-> "run", turn |-> f.turn]
BY DEF DownFrames

(***************************************************************************)
(* What a step changes, and which step it is.                              *)
(***************************************************************************)

\* The hub's turn and its flags.
LEMMA HubMoves ==
  ASSUME Inv, Next
  PROVE  \/ Begin \/ CellReady \/ SendRun \/ RunEnds \/ Abort \/ HubTimer
         \/ /\ hub' \in {hub, [hub EXCEPT !.mapped = FALSE]}
            /\ outcome' = outcome \/ Records
            /\ recorded' = recorded \/ Records
BY DEF Next, SessionSteps, HubSteps, RunnerReads, HearsReady, HearsError, HearsStray, HearsEvent, HearsEnd, HearsCall,
       OnExit, HandlerAnswers, ReadyTimeout, SessionTimer, KillerFires, CloseIdle, Close, RunnerStarts, ReadsRun, ReadsCancel,
       ReadsResponse, InputEnds, StartFails, Emits, CallsTool, RuntimeEnds, Dies, Garbage, daemon, Records

\* The runner's turn, its flags and what it counts.
LEMMA RunnerMoves ==
  ASSUME Inv, Next
  PROVE  \/ ReadsRun \/ ReadsCancel \/ Emits \/ CallsTool \/ \E ok \in BOOLEAN : RuntimeEnds(ok)
         \/ /\ sent' = sent /\ ranOk' = ranOk
            /\ runner' = runner \/ runner' = [runner EXCEPT !.is = "gone"]
               \/ (RunnerStarts /\ runner' = [runner EXCEPT !.is = "up"])
BY DEF Next, SessionSteps, HubSteps, RunnerReads, HearsReady, HearsError, HearsStray, HearsEvent, HearsEnd, HearsCall,
       OnExit, HandlerAnswers, ReadyTimeout, SessionTimer, KillerFires, CloseIdle, Close, RunnerStarts,
       ReadsResponse, InputEnds, StartFails, Dies, Garbage, cell, Records, Begin, CellReady, SendRun, RunEnds, Abort, HubTimer

\* The session's turn, its events and what run() was told.
LEMMA SessionMoves ==
  ASSUME Inv, Next
  PROVE  \/ HearsReady \/ HearsError \/ HearsStray \/ HearsEvent \/ HearsEnd \/ HearsCall \/ OnExit \/ ReadyTimeout
         \/ SendRun \/ Records \/ RunEnds \/ Close \/ SessionTimer
         \/ session' = session /\ done' = done /\ queue' = queue
BY DEF Next, SessionSteps, HubSteps, RunnerReads,
       HandlerAnswers, KillerFires, CloseIdle, RunnerStarts, ReadsRun, ReadsCancel,
       ReadsResponse, InputEnds, StartFails, Emits, CallsTool, RuntimeEnds, Dies, Garbage, ends, Begin, CellReady, Abort, HubTimer

\* The pipe to the daemon.
LEMMA UpMoves ==
  ASSUME Inv, Next
  PROVE  \/ up' = up \/ up' = <<>>
         \/ /\ HearsReady \/ HearsError \/ HearsStray \/ HearsEvent \/ HearsEnd \/ HearsCall
            /\ up # <<>> /\ up' = Tail(up)
         \/ RunnerStarts \/ StartFails \/ Garbage \/ Emits \/ CallsTool
         \/ ReadsRun /\ runner.current # NoTurn
         \/ \E ok \in BOOLEAN : RuntimeEnds(ok)
BY DEF Next, SessionSteps, HubSteps, RunnerReads, HearsReady, HearsError, HearsStray, HearsEvent, HearsEnd, HearsCall, Heard,
       OnExit, HandlerAnswers, ReadyTimeout, SessionTimer, KillerFires, CloseIdle, Close, ReadsRun, ReadsCancel,
       ReadsResponse, InputEnds, Dies, Records, Begin, CellReady, SendRun, RunEnds, Abort, HubTimer

\* The pipe to the runner.
LEMMA DownMoves ==
  ASSUME Inv, Next
  PROVE  \/ down' = down
         \/ (ReadsRun \/ ReadsCancel \/ ReadsResponse) /\ down # <<>> /\ down' = Tail(down)
         \/ \E call \in Calls : down' = Append(down, Response(call))
         \/ SendRun \/ ((Abort \/ HubTimer \/ SessionTimer) /\ hub.at # "idle" /\ down' = Append(down, [type |-> "cancel", turn |-> hub.turn]))
<1>1. CASE Abort \/ HubTimer \/ SessionTimer
  BY <1>1 DEF Abort, HubTimer, SessionTimer, CancelTurn, Sent
<1>2. CASE HearsCall
  <2>1. up \in Seq(UpFrames) /\ up # <<>> /\ Head(up).type = "tool.request"
    BY <1>2 DEF HearsCall, Heard, Inv, PipesTyped
  <2>2. Head(up) \in UpFrames
    BY <2>1
  <2>3. [id |-> Head(up).id, turn |-> Head(up).turn] \in Calls
    BY <2>1, <2>2, UpFramesAre DEF OfTurn, Calls
  <2> QED
    BY <1>2, <2>3 DEF HearsCall, Refusal, Sent
<1>3. CASE \E call \in Calls : HandlerAnswers(call)
  BY <1>3 DEF HandlerAnswers, Sent
<1>4. CASE ReadsRun \/ ReadsCancel \/ ReadsResponse
  BY <1>4 DEF ReadsRun, ReadsCancel, ReadsResponse, Read
<1>5. ~(Abort \/ HubTimer \/ SessionTimer \/ HearsCall \/ ReadsRun \/ ReadsCancel \/ ReadsResponse \/ SendRun
         \/ \E call \in Calls : HandlerAnswers(call)) => down' = down
  BY DEF Next, SessionSteps, HubSteps, RunnerReads, HearsReady, HearsError, HearsStray, HearsEvent, HearsEnd,
       OnExit, ReadyTimeout, KillerFires, CloseIdle, Close, RunnerStarts,
       InputEnds, StartFails, Emits, CallsTool, RuntimeEnds, Dies, Garbage, Records, Begin, CellReady, RunEnds
<1> QED
  BY <1>1, <1>2, <1>3, <1>4, <1>5

\* Where the hub goes from where it is.
LEMMA HubGoesOn ==
  ASSUME Inv, Next
  PROVE  \/ /\ Begin /\ hub.at = "idle" /\ hub'.at = "cell" /\ hub'.turn = hub.turn + 1
            /\ ~hub'.aborted /\ ~hub'.timedOut /\ outcome' = outcome /\ recorded' = recorded
         \/ /\ CellReady \/ SendRun \/ RunEnds
            /\ hub.at # "idle" /\ hub'.at = "idle" /\ hub'.turn = hub.turn
            /\ hub'.aborted = hub.aborted /\ hub'.timedOut = hub.timedOut /\ hub.turn \in Turns
            /\ recorded' = recorded /\ \A t \in Turns : t # hub.turn => outcome'[t] = outcome[t]
            /\ outcome'[hub.turn] = "done" => RunEnds
         \/ /\ (CellReady /\ hub.at = "cell" /\ hub'.at = "input") \/ (SendRun /\ hub.at = "input" /\ hub'.at = "running")
            /\ hub'.turn = hub.turn /\ hub'.aborted = hub.aborted /\ hub'.timedOut = hub.timedOut
            /\ outcome' = outcome /\ recorded' = recorded
         \/ /\ ~Begin /\ ~CellReady /\ ~SendRun /\ ~RunEnds
            /\ hub'.at = hub.at /\ hub'.turn = hub.turn
            /\ hub.aborted => hub'.aborted
            /\ hub.timedOut => hub'.timedOut
            /\ outcome' = outcome \/ Records
            /\ recorded' = recorded \/ Records
<1> USE DEF Inv
<1>1. hub \in [at : {"idle", "cell", "input", "running"}, turn : 0..MaxTurns,
               mapped : BOOLEAN, aborted : BOOLEAN, timedOut : BOOLEAN]
  BY DEF HubTyped
<1>2. CASE Begin
  <2>1. hub' = [hub EXCEPT !.at = "cell", !.turn = hub.turn + 1, !.aborted = FALSE, !.timedOut = FALSE]
    BY <1>2 DEF Begin
  <2> QED
    BY <1>1, <1>2, <2>1 DEF Begin
<1>3. CASE CellReady \/ SendRun \/ RunEnds
  <2>1. \/ TurnOver("failed", recorded) /\ hub.at # "idle"
        \/ TurnOver("done", recorded) /\ hub.at # "idle" /\ RunEnds
        \/ /\ (CellReady /\ hub.at = "cell" /\ hub' = [hub EXCEPT !.at = "input"])
                \/ (SendRun /\ hub.at = "input" /\ hub' = [hub EXCEPT !.at = "running"])
           /\ outcome' = outcome /\ recorded' = recorded
    BY <1>3 DEF CellReady, SendRun, RunEnds
  <2>2. CASE TurnOver("failed", recorded) /\ hub.at # "idle"
    BY <1>3, <2>2, TurnOverIs DEF HubTyped
  <2>3. CASE TurnOver("done", recorded) /\ hub.at # "idle" /\ RunEnds
    BY <1>3, <2>3, TurnOverIs DEF HubTyped
  <2>4. CASE /\ (CellReady /\ hub.at = "cell" /\ hub' = [hub EXCEPT !.at = "input"])
                  \/ (SendRun /\ hub.at = "input" /\ hub' = [hub EXCEPT !.at = "running"])
             /\ outcome' = outcome /\ recorded' = recorded
    BY <1>1, <2>4
  <2> QED
    BY <2>1, <2>2, <2>3, <2>4
<1>4. CASE ~Begin /\ ~CellReady /\ ~SendRun /\ ~RunEnds
  <2>1. CASE Abort \/ HubTimer
    BY <1>1, <1>4, <2>1 DEF Abort, HubTimer
  <2>2. CASE ~Abort /\ ~HubTimer
    <3>1. hub' \in {hub, [hub EXCEPT !.mapped = FALSE]} /\ (outcome' = outcome \/ Records) /\ (recorded' = recorded \/ Records)
      BY <1>4, <2>2, HubMoves
    <3> QED
      BY <1>1, <1>4, <3>1
  <2> QED
    BY <2>1, <2>2
<1> QED
  BY <1>2, <1>3, <1>4

\* Whatever happens, the hub's turn and its flags stay what they can be.
LEMMA HubTypedNext ==
  ASSUME Inv, Next
  PROVE  HubTyped'
<1> USE DEF Inv
<1> DEFINE Hubs == [at : {"idle", "cell", "input", "running"}, turn : 0..MaxTurns,
                    mapped : BOOLEAN, aborted : BOOLEAN, timedOut : BOOLEAN]
<1>1. MaxTurns \in Nat /\ MaxRare \in Nat /\ hub \in Hubs /\ (hub.at # "idle" => hub.turn \in Turns)
  BY ChannelAssumption DEF HubTyped, Turns, NoTurn
<1>2. /\ hub' \in Hubs /\ (hub'.at # "idle" => hub'.turn # NoTurn)
      /\ outcome' \in [Turns -> {"none", "failing", "done", "failed", "cancelled"}]
      /\ recorded' \in [Turns -> Nat]
  <2>1. CASE Begin
    <3>1. hub.turn \in 0..MaxTurns /\ hub.turn < MaxTurns
      BY <1>1, <2>1 DEF Begin
    <3>2. hub.turn + 1 \in 0..MaxTurns /\ hub.turn + 1 # NoTurn
      BY <1>1, <3>1 DEF NoTurn
    <3>3. hub' = [hub EXCEPT !.at = "cell", !.turn = hub.turn + 1, !.aborted = FALSE, !.timedOut = FALSE]
      BY <2>1 DEF Begin
    <3>4. outcome' = outcome /\ recorded' = recorded
      BY <2>1 DEF Begin
    <3> QED
      BY <1>1, <3>2, <3>3, <3>4 DEF HubTyped
  <2>2. CASE CellReady \/ SendRun \/ RunEnds
    <3>1. CASE \E how \in {"done", "failed"} : TurnOver(how, recorded) /\ hub.at # "idle"
      <4>1. PICK how \in {"done", "failed"} : TurnOver(how, recorded) /\ hub.at # "idle"
        BY <3>1
      <4> HIDE DEF Hubs
      <4> QED
        BY <4>1, TurnOverIs DEF HubTyped, Hubs
    <3>2. CASE ~\E how \in {"done", "failed"} : TurnOver(how, recorded) /\ hub.at # "idle"
      <4>1. hub' \in {[hub EXCEPT !.at = "input"], [hub EXCEPT !.at = "running"]} /\ hub.at # "idle"
        BY <2>2, <3>2 DEF CellReady, SendRun, RunEnds
      <4>2. UNCHANGED <<outcome, recorded>>
        BY <2>2, <3>2 DEF CellReady, SendRun, RunEnds
      <4> QED
        BY <1>1, <4>1, <4>2 DEF HubTyped
    <3> QED
      BY <3>1, <3>2
  <2>3. CASE Abort \/ HubTimer
    BY <1>1, <2>3 DEF Abort, HubTimer, HubTyped
  <2>4. CASE Records
    <3>1. hub' = hub /\ hub.turn \in Turns /\ recorded[hub.turn] \in Nat
      BY <1>1, <2>4 DEF Records, HubTyped
    <3>2. recorded' = [recorded EXCEPT ![hub.turn] = recorded[hub.turn] + 1]
      BY <2>4 DEF Records
    <3>3. outcome' = [outcome EXCEPT ![hub.turn] = "failing"] \/ outcome' = outcome
      BY <2>4 DEF Records
    <3> QED
      BY <3>1, <3>2, <3>3 DEF HubTyped
  <2>5. CASE hub' \in {hub, [hub EXCEPT !.mapped = FALSE]} /\ outcome' = outcome /\ recorded' = recorded
    BY <1>1, <2>5 DEF HubTyped
  <2> QED
    BY <2>1, <2>2, <2>3, <2>4, <2>5, HubMoves
<1>3. killer' \in BOOLEAN /\ overtaken' \in BOOLEAN
  BY DEF HubTyped, Next, SessionSteps, HubSteps, RunnerReads, HearsReady, HearsError, HearsStray, HearsEvent, HearsEnd,
         HearsCall, OnExit, HandlerAnswers, ReadyTimeout, SessionTimer, KillerFires, CloseIdle, Close, RunnerStarts, ReadsRun,
         ReadsCancel, ReadsResponse, InputEnds, StartFails, Emits, CallsTool, RuntimeEnds, Dies, Garbage, Records, Begin,
         CellReady, SendRun, RunEnds, Abort, HubTimer, daemon
<1>4. (rare' = rare) \/ (rare < MaxRare /\ rare' = rare + 1)
  BY DEF Next, SessionSteps, HubSteps, RunnerReads, HearsReady, HearsError, HearsStray, HearsEvent, HearsEnd,
         HearsCall, OnExit, HandlerAnswers, ReadyTimeout, SessionTimer, KillerFires, CloseIdle, Close, RunnerStarts, ReadsRun,
         ReadsCancel, ReadsResponse, InputEnds, StartFails, Emits, CallsTool, RuntimeEnds, Dies, Garbage, Records, Begin,
         CellReady, SendRun, RunEnds, Abort, HubTimer, Rarely
<1>5. rare' \in 0..MaxRare
  BY <1>1, <1>4 DEF HubTyped
<1>6. /\ sent' \in [Turns -> Nat] /\ ranOk' \subseteq Turns
  <2>1. runner.current \in 0..MaxTurns /\ (runner.current # NoTurn => runner.current \in Turns)
    BY <1>1 DEF CallsTyped, Turns, NoTurn
  <2>2. \A t \in Turns : Counted(t) \in [Turns -> Nat]
    BY DEF Counted, HubTyped
  <2>3. ReadsRun => Head(down).turn \in Turns
    <3>1. down \in Seq(DownFrames) /\ (ReadsRun => down # <<>>)
      BY DEF PipesTyped, ReadsRun, Read
    <3>2. down # <<>> => Head(down) \in DownFrames
      BY <3>1
    <3> QED
      BY <3>1, <3>2, DownFramesAre
  <2> QED
    BY <2>1, <2>2, <2>3, RunnerMoves DEF ReadsRun, ReadsCancel, Emits, CallsTool, RuntimeEnds, HubTyped
<1> QED
  BY <1>2, <1>3, <1>5, <1>6 DEF HubTyped

\* What a step that is neither the start nor the end of run() makes of the session.
LEMMA SessionKeeps ==
  ASSUME Inv, Next, ~SendRun, ~RunEnds
  PROVE  /\ session' \in [ready : {"waiting", "yes", "rejected"}, current : 0..MaxTurns, calls : Nat,
                          closed : BOOLEAN, exitReason : {"none", "closed", "error", "stray"}, ended : BOOLEAN]
         /\ session'.current = session.current
         /\ session.ready # "waiting" => session'.ready # "waiting"
         /\ session'.exitReason = "stray" => session.exitReason = "stray" \/ HearsStray
         /\ \/ done' = done \/ (HearsEnd /\ done' = "ended")
            \/ (done' = "reason" /\ session.current # NoTurn)
         /\ \/ queue' = queue
            \/ HearsEvent /\ queue' = Append(queue, Head(up).fatal)
            \/ Records /\ queue # <<>> /\ queue' = Tail(queue)
<1> DEFINE Sessions == [ready : {"waiting", "yes", "rejected"}, current : 0..MaxTurns, calls : Nat,
                        closed : BOOLEAN, exitReason : {"none", "closed", "error", "stray"}, ended : BOOLEAN]
<1> USE DEF Inv
<1>1. session \in Sessions
  BY DEF SessionTyped
<1>2. CASE HearsReady
  BY <1>1, <1>2 DEF HearsReady
<1>3. CASE HearsError \/ HearsStray \/ ReadyTimeout
  <2>1. PICK reason \in {"error", "stray"} : Fail(reason) /\ (reason = "stray" => HearsStray)
    BY <1>3 DEF HearsError, HearsStray, ReadyTimeout
  <2>2. session' = [session EXCEPT !.exitReason = reason, !.ended = TRUE,
                                   !.ready = IF session.ready = "waiting" THEN "rejected" ELSE session.ready]
    BY <2>1 DEF Fail, Failed
  <2>3. queue' = queue /\ done' = IF session.current # NoTurn THEN "reason" ELSE done
    BY <2>1 DEF Fail, Ended
  <2> QED
    BY <1>1, <2>1, <2>2, <2>3
<1>4. CASE HearsEvent \/ HearsEnd \/ SessionTimer \/ Records
  <2>1. session' = session
    BY <1>4 DEF HearsEvent, HearsEnd, SessionTimer, Records, daemon
  <2>2. SessionTimer => session.current # NoTurn
    BY DEF SessionTimer, SessionTyped, HubTyped
  <2>3. \/ done' = done \/ (HearsEnd /\ done' = "ended")
        \/ (done' = "reason" /\ session.current # NoTurn)
    BY <1>4, <2>2 DEF HearsEvent, HearsEnd, SessionTimer, Records
  <2>4. \/ queue' = queue
        \/ HearsEvent /\ queue' = Append(queue, Head(up).fatal)
        \/ Records /\ queue # <<>> /\ queue' = Tail(queue)
    BY <1>4 DEF HearsEvent, HearsEnd, SessionTimer, Records
  <2> QED
    BY <1>1, <2>1, <2>3, <2>4
<1>5. CASE HearsCall
  <2>1. session' = [session EXCEPT !.calls = session.calls + 1] /\ done' = done /\ queue' = queue
    BY <1>5 DEF HearsCall
  <2> QED
    BY <1>1, <2>1
<1>6. CASE OnExit
  <2>1. session' = [session EXCEPT !.closed = TRUE, !.ready = IF session.ready = "waiting" THEN "rejected" ELSE session.ready]
    BY <1>6 DEF OnExit
  <2>2. queue' = queue /\ done' = IF session.current # NoTurn THEN "reason" ELSE done
    BY <1>6 DEF OnExit, ExitTold, Ended
  <2> QED
    BY <1>1, <2>1, <2>2
<1>7. CASE Close
  BY <1>1, <1>7 DEF Close
<1>8. CASE session' = session /\ done' = done /\ queue' = queue
  BY <1>1, <1>8
<1> QED
  BY <1>2, <1>3, <1>4, <1>5, <1>6, <1>7, <1>8, SessionMoves

\* run() begins.
LEMMA RunBegins ==
  ASSUME Inv, SendRun, session.current = NoTurn, ~session.closed
  PROVE  /\ hub' \in [at : {"idle", "cell", "input", "running"}, turn : 0..MaxTurns,
                      mapped : BOOLEAN, aborted : BOOLEAN, timedOut : BOOLEAN]
         /\ hub.at = "input" /\ hub'.at = "running" /\ hub'.turn = hub.turn /\ hub.turn \in Turns
         /\ hub'.aborted = hub.aborted /\ hub'.timedOut = hub.timedOut
         /\ session' \in [ready : {"waiting", "yes", "rejected"}, current : 0..MaxTurns, calls : Nat,
                          closed : BOOLEAN, exitReason : {"none", "closed", "error", "stray"}, ended : BOOLEAN]
         /\ session'.current = hub.turn /\ session'.ready = session.ready /\ session'.exitReason = session.exitReason
         /\ done' = "no" /\ queue' = queue /\ outcome' = outcome /\ recorded' = recorded
         /\ down' = down \/ down' = Append(down, [type |-> "run", turn |-> hub.turn])
<1> USE DEF Inv
<1>1. MaxTurns \in Nat /\ hub.turn \in Turns /\ hub.at = "input"
  BY ChannelAssumption DEF HubTyped, SendRun, Turns, NoTurn
<1>2. hub' = [hub EXCEPT !.at = "running"] /\ session' = [session EXCEPT !.current = hub.turn, !.calls = 0]
  BY DEF SendRun
<1>3. done' = "no" /\ queue' = queue /\ outcome' = outcome /\ recorded' = recorded
  BY DEF SendRun
<1>4. down' = down \/ down' = Append(down, [type |-> "run", turn |-> hub.turn])
  BY DEF SendRun, Sent
<1> QED
  BY <1>1, <1>2, <1>3, <1>4 DEF HubTyped, SessionTyped, Turns

\* Or it does not, and the turn is over.
LEMMA RunFails ==
  ASSUME Inv, SendRun, ~(session.current = NoTurn /\ ~session.closed)
  PROVE  TurnOver("failed", recorded) /\ UNCHANGED <<session, done, down, queue>> /\ hub.at = "input"
BY DEF SendRun

\* The session's turn stays the hub's.
LEMMA SessionTypedNext ==
  ASSUME Inv, Next
  PROVE  SessionTyped'
<1> USE DEF Inv
<1> DEFINE Sessions == [ready : {"waiting", "yes", "rejected"}, current : 0..MaxTurns, calls : Nat,
                        closed : BOOLEAN, exitReason : {"none", "closed", "error", "stray"}, ended : BOOLEAN]
<1>1. session \in Sessions
  BY DEF SessionTyped
<1>2. CASE SendRun
  <2>1. CASE session.current = NoTurn /\ ~session.closed
    <3>1. queue = <<>>
      BY <2>1 DEF SessionTyped
    <3> QED
      BY <1>2, <2>1, <3>1, RunBegins DEF SessionTyped, NoTurn, Turns
  <2>2. CASE ~(session.current = NoTurn /\ ~session.closed)
    <3>1. hub'.at = "idle"
      BY <1>2, <2>2, RunFails, TurnOverIs
    <3> QED
      BY <1>2, <2>2, <3>1, RunFails DEF SessionTyped
  <2> QED
    BY <2>1, <2>2
<1>3. CASE RunEnds
  <2>1. \E how \in {"done", "failed"} : TurnOver(how, recorded)
    BY <1>3 DEF RunEnds
  <2>2. hub.at = "running" /\ queue = <<>> /\ queue' = queue /\ done' = "no" /\ session' = [session EXCEPT !.current = NoTurn]
    BY <1>3 DEF RunEnds
  <2>3. hub'.at = "idle"
    BY <2>1, <2>2, TurnOverIs
  <2>4. session' \in Sessions /\ session'.current = NoTurn
    BY <1>1, <2>2, ChannelAssumption DEF NoTurn
  <2> QED
    BY <2>2, <2>3, <2>4 DEF SessionTyped
<1>4. CASE ~SendRun /\ ~RunEnds
  <2>1. (hub.at = "running" <=> hub'.at = "running") /\ (hub.at = "running" => hub'.turn = hub.turn)
    BY <1>4, HubGoesOn DEF CellReady
  <2>2. hub'.at \in {"input", "running"} => session'.ready # "waiting"
    <3>1. hub'.at \in {"input", "running"} => hub.at \in {"input", "running"} \/ (CellReady /\ session.ready # "waiting")
      BY <1>4, HubGoesOn DEF CellReady
    <3> QED
      BY <1>4, <3>1, SessionKeeps DEF SessionTyped
  <2>3. session' \in Sessions /\ session'.current = session.current
    BY <1>4, SessionKeeps
  <2>4. done' \in {"no", "ended", "reason"} /\ queue' \in Seq(BOOLEAN)
    <3>1. HearsEvent => Head(up).fatal \in BOOLEAN
      <4>1. up \in Seq(UpFrames) /\ (HearsEvent => up # <<>> /\ Head(up).type = "event")
        BY DEF PipesTyped, HearsEvent, Heard
      <4>2. up # <<>> => Head(up) \in UpFrames
        BY <4>1
      <4> QED
        BY <4>1, <4>2, UpFramesAre
    <3>2. done \in {"no", "ended", "reason"} /\ queue \in Seq(BOOLEAN)
      BY DEF SessionTyped
    <3>3. done' \in {"no", "ended", "reason"}
      BY <1>4, <3>2, SessionKeeps
    <3>4. \/ queue' = queue
          \/ \E b \in BOOLEAN : queue' = Append(queue, b)
          \/ queue # <<>> /\ queue' = Tail(queue)
      BY <1>4, <3>1, SessionKeeps
    <3>5. queue' \in Seq(BOOLEAN)
      BY <3>2, <3>4
    <3> QED
      BY <3>3, <3>5
  <2>5. session.current = NoTurn => done' = "no" /\ queue' = <<>>
    <3>1. HearsEnd \/ HearsEvent => session.current # NoTurn
      BY DEF HearsEnd, HearsEvent, InTurn
    <3> QED
      BY <1>4, <3>1, SessionKeeps DEF SessionTyped
  <2> QED
    BY <2>1, <2>2, <2>3, <2>4, <2>5 DEF SessionTyped
<1> QED
  BY <1>2, <1>3, <1>4

\* The runner hears of a turn the daemon can name.
LEMMA ReadIs ==
  ASSUME PipesTyped, NEW kind \in {"run", "cancel", "tool.response"}, Read(kind)
  PROVE  /\ down # <<>> /\ 1 \in DOMAIN down /\ Head(down) = down[1] /\ Head(down) \in DownFrames
         /\ Head(down).type = kind /\ Head(down).turn \in Turns
<1>1. down \in Seq(DownFrames) /\ down # <<>> /\ Head(down).type = kind
  BY DEF PipesTyped, Read
<1> QED
  BY <1>1, TailIs, DownFramesAre

\* Where the runner goes from where it is.
LEMMA RunnerGoesOn ==
  ASSUME Inv, Next
  PROVE  /\ runner' \in [is : {"boot", "up", "gone"}, current : 0..MaxTurns, aborted : BOOLEAN, nextCall : 0..MaxCalls]
         /\ runner.is = "gone" => runner'.is = "gone" /\ runner'.current = runner.current
         /\ \/ /\ runner'.current = runner.current /\ (runner'.aborted = runner.aborted \/ ReadsCancel)
               /\ ~\E ok \in BOOLEAN : RuntimeEnds(ok)
            \/ ReadsRun /\ runner.current = NoTurn /\ runner'.current = Head(down).turn /\ ~runner'.aborted
            \/ (\E ok \in BOOLEAN : RuntimeEnds(ok)) /\ runner.current # NoTurn /\ runner'.current = NoTurn
         /\ (CallsTool /\ runner'.nextCall = runner.nextCall + 1) \/ (~CallsTool /\ runner'.nextCall = runner.nextCall)
<1> USE DEF Inv
<1> DEFINE Runners == [is : {"boot", "up", "gone"}, current : 0..MaxTurns, aborted : BOOLEAN, nextCall : 0..MaxCalls]
<1>1. runner \in Runners /\ MaxTurns \in Nat /\ MaxCalls \in Nat
  BY ChannelAssumption DEF CallsTyped
<1>2. CASE ReadsRun
  <2>1. Head(down).turn \in Turns /\ runner.is = "up"
    BY <1>2, ReadIs DEF ReadsRun, Read, Runs
  <2>3. ~CallsTool /\ ~\E ok \in BOOLEAN : RuntimeEnds(ok)
    <3>1. down \in Seq(DownFrames) /\ down # <<>> /\ down' = Tail(down)
      BY <1>2 DEF ReadsRun, Read, PipesTyped
    <3>2. down' # down
      BY <3>1
    <3> QED
      BY <3>2 DEF CallsTool, RuntimeEnds
  <2>4. CASE runner' = runner /\ runner.current # NoTurn
    BY <1>1, <2>1, <2>3, <2>4
  <2>5. CASE runner.current = NoTurn /\ runner' = [runner EXCEPT !.current = Head(down).turn, !.aborted = FALSE]
    <3>1. Head(down).turn \in 0..MaxTurns
      BY <1>1, <2>1 DEF Turns
    <3> QED
      BY <1>1, <1>2, <2>1, <2>3, <2>5, <3>1
  <2>6. IF runner.current = NoTurn THEN runner' = [runner EXCEPT !.current = Head(down).turn, !.aborted = FALSE]
        ELSE runner' = runner
    BY <1>2 DEF ReadsRun
  <2> QED
    BY <2>4, <2>5, <2>6
<1>3. CASE ReadsCancel
  <2>1. runner.is = "up" /\ runner' = [runner EXCEPT !.aborted = runner.aborted \/ runner.current = Head(down).turn]
    BY <1>3 DEF ReadsCancel, Read, Runs
  <2>2. ~CallsTool
    BY <1>1, <2>1 DEF CallsTool
  <2>3. ~\E ok \in BOOLEAN : RuntimeEnds(ok)
    BY <1>1, <2>1 DEF RuntimeEnds, NoTurn
  <2> QED
    BY <1>1, <1>3, <2>1, <2>2, <2>3
<1>4. CASE Emits
  <2>1. runner.is = "up" /\ runner' = runner /\ runner.current # NoTurn
    BY <1>4 DEF Emits, Runs
  <2>2. ~CallsTool
    BY <1>1, <2>1 DEF CallsTool
  <2>3. ~\E ok \in BOOLEAN : RuntimeEnds(ok)
    BY <1>1, <2>1 DEF RuntimeEnds, NoTurn
  <2> QED
    BY <1>1, <2>1, <2>2, <2>3
<1>5. CASE CallsTool
  <2>1. runner.is = "up" /\ runner' = [runner EXCEPT !.nextCall = runner.nextCall + 1] /\ runner.nextCall < MaxCalls /\ runner.current # NoTurn
    BY <1>5 DEF CallsTool, Runs, MayCall
  <2>2. runner.nextCall + 1 \in 0..MaxCalls
    BY <1>1, <2>1
  <2>3. ~\E ok \in BOOLEAN : RuntimeEnds(ok)
    BY <1>1, <2>1 DEF RuntimeEnds, NoTurn
  <2> QED
    BY <1>1, <1>5, <2>1, <2>2, <2>3
<1>6. CASE \E ok \in BOOLEAN : RuntimeEnds(ok)
  <2>1. runner.is = "up" /\ runner' = [runner EXCEPT !.current = NoTurn] /\ runner.current # NoTurn
    BY <1>6 DEF RuntimeEnds, Runs
  <2>2. ~CallsTool
    BY <1>1, <2>1 DEF CallsTool
  <2> QED
    BY <1>1, <1>6, <2>1, <2>2 DEF NoTurn
<1>7. CASE /\ ~ReadsRun /\ ~ReadsCancel /\ ~Emits /\ ~CallsTool /\ ~\E ok \in BOOLEAN : RuntimeEnds(ok)
           /\ runner' = runner \/ runner' = [runner EXCEPT !.is = "gone"]
              \/ (RunnerStarts /\ runner' = [runner EXCEPT !.is = "up"])
  BY <1>1, <1>7 DEF RunnerStarts
<1> QED
  BY <1>2, <1>3, <1>4, <1>5, <1>6, <1>7, RunnerMoves

\* What the runner counts.
LEMMA CountsGoOn ==
  ASSUME Inv, Next
  PROVE  \/ sent' = sent /\ ranOk' = ranOk /\ (~\E ok \in BOOLEAN : RuntimeEnds(ok)) /\ ~Emits
                /\ ~(ReadsRun /\ runner.current # NoTurn)
         \/ /\ Emits \/ RuntimeEnds(FALSE)
            /\ runner.current \in Turns /\ sent' = Counted(runner.current) /\ ranOk' = ranOk
         \/ RuntimeEnds(TRUE) /\ runner.current \in Turns /\ sent' = sent
              /\ ranOk' = IF runner.aborted THEN ranOk ELSE ranOk \cup {runner.current}
         \/ /\ ReadsRun /\ runner.current # NoTurn /\ Head(down).turn \in Turns
            /\ sent' = Counted(Head(down).turn) /\ ranOk' = ranOk
<1> USE DEF Inv
<1>1. runner.current # NoTurn => runner.current \in Turns
  BY ChannelAssumption DEF CallsTyped, Turns, NoTurn
<1>2. runner \in [is : {"boot", "up", "gone"}, current : 0..MaxTurns, aborted : BOOLEAN, nextCall : 0..MaxCalls] /\ MaxCalls \in Nat
  BY ChannelAssumption DEF CallsTyped
<1>3. CASE Emits
  BY <1>1, <1>3 DEF Emits
<1>4. CASE \E ok \in BOOLEAN : RuntimeEnds(ok)
  <2>1. PICK ok \in BOOLEAN : RuntimeEnds(ok)
    BY <1>4
  <2>2. CASE ok = TRUE
    BY <1>1, <2>1, <2>2 DEF RuntimeEnds
  <2>3. CASE ok = FALSE
    BY <1>1, <2>1, <2>3 DEF RuntimeEnds
  <2> QED
    BY <2>2, <2>3
<1>5. CASE ReadsRun /\ runner.current # NoTurn
  BY <1>5, ReadIs DEF ReadsRun
<1>6. CASE ~Emits /\ ~(\E ok \in BOOLEAN : RuntimeEnds(ok)) /\ ~(ReadsRun /\ runner.current # NoTurn)
  BY <1>6, RunnerMoves DEF ReadsRun, ReadsCancel, CallsTool
<1> QED
  BY <1>3, <1>4, <1>5, <1>6

\* The runner's calls, and those the daemon serves.
LEMMA CallsTypedNext ==
  ASSUME Inv, Next
  PROVE  CallsTyped'
<1> USE DEF Inv
<1>1. MaxTurns \in Nat /\ MaxCalls \in Nat /\ MaxPending \in Nat
  BY ChannelAssumption
<1>2. IsFiniteSet(pending)
  <2>1. IsFiniteSet(1..MaxCalls) /\ IsFiniteSet(1..MaxTurns)
    BY <1>1, FS_Interval
  <2>2. IsFiniteSet((1..MaxCalls) \X (1..MaxTurns))
    BY <2>1, FS_Product
  <2>3. \E f : f \in Surjection((1..MaxCalls) \X (1..MaxTurns), Calls)
    <3> DEFINE f == [p \in (1..MaxCalls) \X (1..MaxTurns) |-> [id |-> p[1], turn |-> p[2]]]
    <3>1. f \in [(1..MaxCalls) \X (1..MaxTurns) -> Calls]
      BY DEF Calls, Turns
    <3>2. ASSUME NEW call \in Calls
          PROVE  \E p \in (1..MaxCalls) \X (1..MaxTurns) : f[p] = call
      <4>1. <<call.id, call.turn>> \in (1..MaxCalls) \X (1..MaxTurns) /\ call = [id |-> call.id, turn |-> call.turn]
        BY DEF Calls, Turns
      <4>2. f[<<call.id, call.turn>>] = call
        BY <4>1
      <4> QED
        BY <4>1, <4>2
    <3> HIDE DEF f
    <3> QED
      BY <3>1, <3>2 DEF Surjection
  <2>4. IsFiniteSet(Calls)
    BY <2>2, <2>3, FS_Surjection
  <2>5. pending \subseteq Calls
    BY DEF CallsTyped
  <2> QED
    BY <2>4, <2>5, FS_Subset
<1>3. serving' \subseteq Calls
  <2>1. HearsCall => [id |-> Head(up).id, turn |-> Head(up).turn] \in Calls
    <3>1. SUFFICES ASSUME HearsCall PROVE [id |-> Head(up).id, turn |-> Head(up).turn] \in Calls
      OBVIOUS
    <3>2. up \in Seq(UpFrames) /\ up # <<>> /\ Head(up).type = "tool.request"
      BY <3>1 DEF HearsCall, Heard, PipesTyped
    <3>3. Head(up) \in UpFrames
      BY <3>2
    <3> QED
      BY <3>2, <3>3, UpFramesAre DEF OfTurn, Calls
  <2>2. serving' = serving \/ HearsCall \/ \E call \in Calls : serving' = serving \ {call}
    BY DEF Next, SessionSteps, HubSteps, RunnerReads, HearsReady, HearsError, HearsStray, HearsEvent, HearsEnd, Fail,
       OnExit, HandlerAnswers, ReadyTimeout, SessionTimer, KillerFires, CloseIdle, Close, RunnerStarts, ReadsRun, ReadsCancel,
       ReadsResponse, InputEnds, StartFails, Emits, CallsTool, RuntimeEnds, Dies, Garbage, Records, Begin, CellReady,
       SendRun, RunEnds, Abort, HubTimer, ends
  <2>3. HearsCall => serving' \in {serving, serving \cup {[id |-> Head(up).id, turn |-> Head(up).turn]}}
    BY DEF HearsCall
  <2> QED
    BY <2>1, <2>2, <2>3 DEF CallsTyped
<1>4. /\ \A call \in pending' : call \in Calls /\ call.turn = runner'.current
      /\ Cardinality(pending') <= MaxPending
  <2>1. CASE CallsTool
    <3>1. /\ pending' = pending \cup {[id |-> NextCall, turn |-> runner.current]} /\ runner.nextCall < MaxCalls
          /\ runner.current # NoTurn /\ Cardinality(pending) < MaxPending
      BY <2>1 DEF CallsTool, MayCall
    <3>2. NextCall \in 1..MaxCalls /\ runner.current \in Turns
      BY <1>1, <3>1 DEF NextCall, CallsTyped, Turns, NoTurn
    <3>3. [id |-> NextCall, turn |-> runner.current] \in Calls
      BY <3>2 DEF Calls
    <3>4. runner'.current = runner.current
      <4>1. ~ReadsRun
        <5>1. ReadsRun => down' # down
          <6>1. SUFFICES ASSUME ReadsRun PROVE down' # down
            OBVIOUS
          <6>2. down \in Seq(DownFrames) /\ down # <<>> /\ down' = Tail(down)
            BY <6>1 DEF ReadsRun, Read, PipesTyped
          <6> QED
            BY <6>2
        <5> QED
          BY <2>1, <5>1 DEF CallsTool
      <4>2. runner' = [runner EXCEPT !.nextCall = runner.nextCall + 1]
        BY <2>1 DEF CallsTool
      <4> QED
        BY <4>2 DEF CallsTyped
    <3>5. Cardinality(pending') <= MaxPending
      <4>1. Cardinality(pending) \in Nat
        BY <1>2, FS_CardinalityType
      <4>2. Cardinality(pending') \in {Cardinality(pending), Cardinality(pending) + 1}
        BY <1>2, <3>1, FS_AddElement
      <4> QED
        BY <1>1, <3>1, <4>1, <4>2
    <3> QED
      BY <3>1, <3>3, <3>4, <3>5 DEF CallsTyped
  <2>2. CASE \E ok \in BOOLEAN : RuntimeEnds(ok)
    <3>1. pending' = {}
      BY <2>2 DEF RuntimeEnds, LeftOver
    <3> QED
      BY <1>1, <3>1, FS_EmptySet
  <2>3. CASE ~CallsTool /\ ~\E ok \in BOOLEAN : RuntimeEnds(ok)
    <3>1. pending' \subseteq pending
      BY <2>3 DEF Next, SessionSteps, HubSteps, RunnerReads, HearsReady, HearsError, HearsStray, HearsEvent, HearsEnd,
         HearsCall, OnExit, HandlerAnswers, ReadyTimeout, SessionTimer, KillerFires, CloseIdle, Close, RunnerStarts, ReadsRun,
         ReadsCancel, ReadsResponse, InputEnds, StartFails, Emits, Dies, Garbage, Records, Begin, CellReady,
         SendRun, RunEnds, Abort, HubTimer, cell
    <3>2. Cardinality(pending') <= Cardinality(pending) /\ Cardinality(pending) \in Nat /\ Cardinality(pending') \in Nat
      BY <1>2, <3>1, FS_Subset, FS_CardinalityType
    <3>3. pending # {} => runner.current # NoTurn
      BY DEF CallsTyped, Calls, Turns, NoTurn
    <3>4. pending' # {} => runner'.current = runner.current
      BY <2>3, <3>1, <3>3, RunnerGoesOn
    <3> QED
      BY <1>1, <3>1, <3>2, <3>4 DEF CallsTyped
  <2> QED
    BY <2>1, <2>2, <2>3
<1> QED
  BY <1>3, <1>4, RunnerGoesOn DEF CallsTyped

(***************************************************************************)
(* What is on its way.                                                     *)
(***************************************************************************)

\* What is written to the daemon is a frame, or two of them.
LEMMA UpGrows ==
  ASSUME Inv, Next
  PROVE  \/ up' = up \/ up' = <<>>
         \/ /\ HearsReady \/ HearsError \/ HearsStray \/ HearsEvent \/ HearsEnd \/ HearsCall
            /\ up # <<>> /\ up' = Tail(up)
         \/ \E f \in [type : {"ready", "error"}] : up' = Append(up, f) /\ f \in UpFrames /\ ~OfTurn(f)
         \/ Emits /\ up' = Append(up, [type |-> "event", turn |-> runner.current, fatal |-> FALSE])
         \/ CallsTool /\ up' = Append(up, [type |-> "tool.request", turn |-> runner.current, id |-> NextCall])
         \/ RuntimeEnds(TRUE) /\ up' = Append(up, [type |-> "turn.end", turn |-> runner.current])
         \/ \E t \in Turns :
              /\ \/ RuntimeEnds(FALSE) /\ t = runner.current
                 \/ ReadsRun /\ runner.current # NoTurn /\ t = Head(down).turn
              /\ up' = Append(Append(up, [type |-> "event", turn |-> t, fatal |-> TRUE]), [type |-> "turn.end", turn |-> t])
<1>1. up \in Seq(UpFrames) /\ PipesTyped
  BY DEF Inv, PipesTyped
<1>2. runner.current # NoTurn => runner.current \in Turns
  BY ChannelAssumption DEF Inv, CallsTyped, Turns, NoTurn
<1>3. ASSUME NEW f \in UpFrames, up' = up \o <<f>>
      PROVE  up' = Append(up, f)
  BY <1>1, <1>3, AppendIs
<1>4. ASSUME NEW t \in Turns, up' = up \o (Event(t, TRUE) \o End(t))
      PROVE  up' = Append(Append(up, [type |-> "event", turn |-> t, fatal |-> TRUE]), [type |-> "turn.end", turn |-> t])
  <2> DEFINE e == [type |-> "event", turn |-> t, fatal |-> TRUE]
             f == [type |-> "turn.end", turn |-> t]
  <2>1. e \in UpFrames /\ f \in UpFrames
    BY FramesTyped
  <2>2. up' = up \o (<<e>> \o <<f>>)
    BY <1>4 DEF Event, End
  <2> HIDE DEF e, f
  <2>3. up' = Append(Append(up, e), f)
    BY <1>1, <2>1, <2>2
  <2> QED
    BY <2>3 DEF e, f
<1>5. CASE RunnerStarts \/ StartFails \/ Garbage
  <2>1. PICK f \in {[type |-> "ready"], [type |-> "error"]} : up' = up \o <<f>>
    BY <1>5 DEF RunnerStarts, StartFails, Garbage, Says
  <2>2. f \in UpFrames /\ f \in [type : {"ready", "error"}] /\ ~OfTurn(f)
    BY FramesTyped DEF OfTurn
  <2> QED
    BY <1>3, <2>1, <2>2
<1>6. CASE Emits
  <2>1. runner.current \in Turns /\ up' = up \o <<[type |-> "event", turn |-> runner.current, fatal |-> FALSE]>>
    BY <1>2, <1>6 DEF Emits, Says, Event
  <2>2. [type |-> "event", turn |-> runner.current, fatal |-> FALSE] \in UpFrames
    BY <2>1, FramesTyped
  <2> QED
    BY <1>3, <1>6, <2>1, <2>2
<1>7. CASE CallsTool
  <2>1. /\ runner.current \in Turns /\ runner.nextCall \in Nat /\ runner.nextCall < MaxCalls /\ MaxCalls \in Nat
        /\ up' = up \o <<[type |-> "tool.request", turn |-> runner.current, id |-> NextCall]>>
    BY <1>2, <1>7, ChannelAssumption DEF CallsTool, Says, MayCall, Inv, CallsTyped
  <2>2. [type |-> "tool.request", turn |-> runner.current, id |-> NextCall] \in UpFrames
    BY <2>1, FramesTyped DEF NextCall
  <2> QED
    BY <1>3, <1>7, <2>1, <2>2
<1>8. CASE ReadsRun /\ runner.current # NoTurn
  <2>1. Head(down).turn \in Turns
    BY <1>1, <1>8, ReadIs DEF ReadsRun
  <2>2. up' = up \o (Event(Head(down).turn, TRUE) \o End(Head(down).turn))
    BY <1>8 DEF ReadsRun, Says
  <2> QED
    BY <1>4, <1>8, <2>1, <2>2
<1>9. CASE RuntimeEnds(TRUE)
  <2>1. runner.current \in Turns /\ up' = up \o <<[type |-> "turn.end", turn |-> runner.current]>>
    BY <1>2, <1>9 DEF RuntimeEnds, Says, End
  <2>2. [type |-> "turn.end", turn |-> runner.current] \in UpFrames
    BY <2>1, FramesTyped
  <2> QED
    BY <1>3, <1>9, <2>1, <2>2
<1>10. CASE RuntimeEnds(FALSE)
  <2>1. runner.current \in Turns /\ up' = up \o (Event(runner.current, TRUE) \o End(runner.current))
    BY <1>2, <1>10 DEF RuntimeEnds, Says
  <2> QED
    BY <1>4, <1>10, <2>1
<1> QED
  BY <1>5, <1>6, <1>7, <1>8, <1>9, <1>10, UpMoves

\* The pipes carry frames.
LEMMA PipesTypedNext ==
  ASSUME Inv, Next
  PROVE  PipesTyped'
<1>1. up \in Seq(UpFrames) /\ down \in Seq(DownFrames)
  BY DEF Inv, PipesTyped
<1>2. runner.current # NoTurn => runner.current \in Turns
  BY ChannelAssumption DEF Inv, CallsTyped, Turns, NoTurn
<1>3. up' \in Seq(UpFrames)
  <2>1. CASE \E f \in UpFrames : up' = Append(up, f)
    BY <1>1, <2>1, AppendIs
  <2>2. CASE \E e, f \in UpFrames : up' = Append(Append(up, e), f)
    BY <1>1, <2>2, AppendIs
  <2>3. CASE up # <<>> /\ up' = Tail(up)
    BY <1>1, <2>3, TailIs
  <2>4. Emits => [type |-> "event", turn |-> runner.current, fatal |-> FALSE] \in UpFrames
    BY <1>2, FramesTyped DEF Emits
  <2>5. CallsTool => [type |-> "tool.request", turn |-> runner.current, id |-> NextCall] \in UpFrames
    <3>1. CallsTool => runner.current \in Turns /\ runner.nextCall \in Nat /\ runner.nextCall < MaxCalls /\ MaxCalls \in Nat
      BY <1>2, ChannelAssumption DEF CallsTool, MayCall, Inv, CallsTyped
    <3> QED
      BY <3>1, FramesTyped DEF NextCall
  <2>6. RuntimeEnds(TRUE) => [type |-> "turn.end", turn |-> runner.current] \in UpFrames
    BY <1>2, FramesTyped DEF RuntimeEnds
  <2>7. CASE up' = up \/ up' = <<>>
    <3>1. <<>> \in Seq(UpFrames)
      OBVIOUS
    <3> QED
      BY <1>1, <2>7, <3>1
  <2>8. \/ up' = up \/ up' = <<>> \/ (up # <<>> /\ up' = Tail(up))
        \/ (\E f \in UpFrames : up' = Append(up, f)) \/ (\E e, f \in UpFrames : up' = Append(Append(up, e), f))
    <3>1. \A t \in Turns : [type |-> "event", turn |-> t, fatal |-> TRUE] \in UpFrames /\ [type |-> "turn.end", turn |-> t] \in UpFrames
      BY FramesTyped
    <3> QED
      BY <2>4, <2>5, <2>6, <3>1, UpGrows, Zenon
  <2> QED
    BY <2>1, <2>2, <2>3, <2>7, <2>8
<1>4. down' \in Seq(DownFrames)
  <2>1. CASE \E f \in DownFrames : down' = Append(down, f)
    BY <1>1, <2>1, AppendIs
  <2>2. CASE down # <<>> /\ down' = Tail(down)
    BY <1>1, <2>2, TailIs
  <2>3. hub.at # "idle" => hub.turn \in Turns
    BY ChannelAssumption DEF Inv, HubTyped, Turns, NoTurn
  <2>4. \A call \in Calls : Response(call) \in DownFrames
    BY DEF Calls, Response, DownFrames
  <2>5. SendRun => down' = down \/ down' = Append(down, [type |-> "run", turn |-> hub.turn])
    BY DEF SendRun, Sent
  <2>6. SendRun => hub.turn \in Turns
    BY <2>3 DEF SendRun
  <2>7. down' = down \/ (down # <<>> /\ down' = Tail(down)) \/ \E f \in DownFrames : down' = Append(down, f)
    BY <2>3, <2>4, <2>5, <2>6, FramesTyped, DownMoves
  <2> QED
    BY <1>1, <2>1, <2>2, <2>7
<1> QED
  BY <1>3, <1>4 DEF PipesTyped

\* A frame about a turn is the runner's own, or says that it cannot run another.
LEMMA UpNews ==
  ASSUME Inv, Next, NEW i \in DOMAIN up', OfTurn(up'[i])
  PROVE  \/ \E j \in DOMAIN up : up[j] = up'[i]
         \/ /\ Emits \/ CallsTool \/ RuntimeEnds(TRUE) \/ RuntimeEnds(FALSE)
            /\ runner.is = "up" /\ runner.current # NoTurn /\ up'[i].turn = runner.current
         \/ ReadsRun /\ runner.is = "up" /\ runner.current # NoTurn /\ up'[i].turn = Head(down).turn
<1>1. up \in Seq(UpFrames) /\ runner.current \in 0..MaxTurns /\ MaxTurns \in Nat
  BY ChannelAssumption DEF Inv, PipesTyped, CallsTyped
<1>2. ASSUME NEW f \in UpFrames, up' = Append(up, f)
      PROVE  up'[i] = f \/ \E j \in DOMAIN up : up[j] = up'[i]
  BY <1>1, <1>2, AppendIs
<1>3. ASSUME NEW e \in UpFrames, NEW f \in UpFrames, up' = Append(Append(up, e), f)
      PROVE  up'[i] = e \/ up'[i] = f \/ \E j \in DOMAIN up : up[j] = up'[i]
  <2>1. Append(up, e) \in Seq(UpFrames)
    BY <1>1, AppendIs
  <2>2. up'[i] = f \/ \E j \in DOMAIN Append(up, e) : Append(up, e)[j] = up'[i]
    BY <1>3, <2>1, AppendIs
  <2> QED
    BY <1>1, <2>2, AppendIs
<1>4. CASE up # <<>> /\ up' = Tail(up)
  BY <1>1, <1>4, TailIs
<1>5. CASE up' = up \/ up' = <<>>
  <2>1. up' # <<>>
    OBVIOUS
  <2> QED
    BY <1>5, <2>1
<1>6. CASE \E f \in [type : {"ready", "error"}] : up' = Append(up, f) /\ f \in UpFrames /\ ~OfTurn(f)
  BY <1>2, <1>6
<1>7. CASE Emits /\ up' = Append(up, [type |-> "event", turn |-> runner.current, fatal |-> FALSE])
  <2>1. runner.is = "up" /\ runner.current \in Turns /\ runner.current # NoTurn
    BY <1>1, <1>7 DEF Emits, Runs, Turns, NoTurn
  <2>2. [type |-> "event", turn |-> runner.current, fatal |-> FALSE] \in UpFrames
    BY <2>1, FramesTyped
  <2> QED
    BY <1>2, <1>7, <2>1, <2>2
<1>8. CASE CallsTool /\ up' = Append(up, [type |-> "tool.request", turn |-> runner.current, id |-> NextCall])
  <2>1. runner.is = "up" /\ runner.current \in Turns /\ runner.current # NoTurn
    BY <1>1, <1>8 DEF CallsTool, MayCall, Runs, Turns, NoTurn
  <2>2. runner.nextCall \in Nat /\ runner.nextCall < MaxCalls /\ MaxCalls \in Nat
    BY <1>8, ChannelAssumption DEF CallsTool, Inv, CallsTyped
  <2>3. [type |-> "tool.request", turn |-> runner.current, id |-> NextCall] \in UpFrames
    BY <2>1, <2>2, FramesTyped DEF NextCall
  <2> QED
    BY <1>2, <1>8, <2>1, <2>3
<1>9. CASE RuntimeEnds(TRUE) /\ up' = Append(up, [type |-> "turn.end", turn |-> runner.current])
  <2>1. runner.is = "up" /\ runner.current \in Turns /\ runner.current # NoTurn
    BY <1>1, <1>9 DEF RuntimeEnds, Runs, Turns, NoTurn
  <2>2. [type |-> "turn.end", turn |-> runner.current] \in UpFrames
    BY <2>1, FramesTyped
  <2>3. up'[i] = [type |-> "turn.end", turn |-> runner.current] \/ \E j \in DOMAIN up : up[j] = up'[i]
    BY <1>2, <1>9, <2>2
  <2>4. [type |-> "turn.end", turn |-> runner.current].turn = runner.current
    OBVIOUS
  <2> QED
    BY <1>9, <2>1, <2>3, <2>4
<1>10. ASSUME NEW t \in Turns,
              \/ RuntimeEnds(FALSE) /\ t = runner.current
              \/ ReadsRun /\ runner.current # NoTurn /\ t = Head(down).turn,
              up' = Append(Append(up, [type |-> "event", turn |-> t, fatal |-> TRUE]), [type |-> "turn.end", turn |-> t])
       PROVE  \/ \E j \in DOMAIN up : up[j] = up'[i]
              \/ /\ RuntimeEnds(FALSE)
                 /\ runner.is = "up" /\ runner.current # NoTurn /\ up'[i].turn = runner.current
              \/ ReadsRun /\ runner.is = "up" /\ runner.current # NoTurn /\ up'[i].turn = Head(down).turn
  <2>1. [type |-> "event", turn |-> t, fatal |-> TRUE] \in UpFrames /\ [type |-> "turn.end", turn |-> t] \in UpFrames
    BY FramesTyped
  <2>2. up'[i].turn = t \/ \E j \in DOMAIN up : up[j] = up'[i]
    BY <1>3, <1>10, <2>1
  <2>3. RuntimeEnds(FALSE) => runner.is = "up" /\ runner.current # NoTurn
    BY DEF RuntimeEnds, Runs
  <2>4. ReadsRun => runner.is = "up"
    BY DEF ReadsRun, Read, Runs
  <2> QED
    BY <1>10, <2>2, <2>3, <2>4
<1> QED
  BY <1>4, <1>5, <1>6, <1>7, <1>8, <1>9, <1>10, UpGrows

\* What is new in the pipe to the runner.
LEMMA DownNews ==
  ASSUME Inv, Next, NEW i \in DOMAIN down'
  PROVE  \/ \E j \in DOMAIN down : down[j] = down'[i]
         \/ /\ SendRun /\ session.current = NoTurn /\ ~session.closed /\ down' = Append(down, down'[i])
            /\ i = Len(down) + 1 /\ down'[i] = [type |-> "run", turn |-> hub.turn]
         \/ (Abort \/ HubTimer \/ SessionTimer) /\ hub.at # "idle" /\ down'[i] = [type |-> "cancel", turn |-> hub.turn]
         \/ \E call \in Calls : down'[i] = Response(call)
<1>1. down \in Seq(DownFrames) /\ MaxTurns \in Nat
  BY ChannelAssumption DEF Inv, PipesTyped
<1>2. hub.at # "idle" => hub.turn \in Turns
  BY <1>1 DEF Inv, HubTyped, Turns, NoTurn
<1>3. ASSUME NEW f \in DownFrames, down' = Append(down, f)
      PROVE  (down'[i] = f /\ i = Len(down) + 1) \/ \E j \in DOMAIN down : down[j] = down'[i]
  BY <1>1, <1>3, AppendIs
<1>4. CASE down # <<>> /\ down' = Tail(down)
  BY <1>1, <1>4, TailIs
<1>5. CASE SendRun
  <2>1. hub.at = "input" /\ hub.turn \in Turns
    BY <1>2, <1>5 DEF SendRun
  <2>2. CASE session.current = NoTurn /\ ~session.closed
    <3>1. down' = down \/ down' = Append(down, [type |-> "run", turn |-> hub.turn])
      BY <1>5, <2>2, RunBegins
    <3>2. [type |-> "run", turn |-> hub.turn] \in DownFrames
      BY <2>1, FramesTyped
    <3> QED
      BY <1>3, <1>5, <2>2, <3>1, <3>2
  <2>3. CASE ~(session.current = NoTurn /\ ~session.closed)
    BY <1>5, <2>3, RunFails
  <2> QED
    BY <2>2, <2>3
<1>6. ASSUME hub.at # "idle", down' = Append(down, [type |-> "cancel", turn |-> hub.turn])
      PROVE  down'[i] = [type |-> "cancel", turn |-> hub.turn] \/ \E j \in DOMAIN down : down[j] = down'[i]
  <2>1. [type |-> "cancel", turn |-> hub.turn] \in DownFrames
    BY <1>2, <1>6, FramesTyped
  <2> QED
    BY <1>3, <1>6, <2>1
<1>7. ASSUME NEW call \in Calls, down' = Append(down, Response(call))
      PROVE  down'[i] = Response(call) \/ \E j \in DOMAIN down : down[j] = down'[i]
  <2>1. Response(call) \in DownFrames
    BY DEF Calls, Response, DownFrames
  <2> QED
    BY <1>3, <1>7, <2>1
<1>8. CASE down' = down
  BY <1>8
<1> QED
  BY <1>4, <1>5, <1>6, <1>7, <1>8, DownMoves

(***************************************************************************)
(* Turns that have not begun, and turns that were told to stop.            *)
(***************************************************************************)

\* A turn that has begun stays so.
LEMMA BegunGrows ==
  ASSUME Inv, Next
  PROVE  Begun \in Int /\ Begun' \in Int /\ Begun <= Begun' /\ Begun <= hub.turn /\ hub.turn \in Nat /\ hub.turn <= hub'.turn
<1>1. hub.turn \in Nat /\ hub'.turn \in Nat /\ hub.at \in {"idle", "cell", "input", "running"}
  BY HubTypedNext, ChannelAssumption DEF Inv, HubTyped
<1> QED
  BY <1>1, HubGoesOn DEF Begun

\* Only a turn that has begun is told of, ended or counted.
LEMMA LaterNext ==
  ASSUME Inv, Next
  PROVE  Later'
<1> USE DEF Inv
<1>1. Begun \in Int /\ Begun' \in Int /\ Begun <= Begun' /\ Begun <= hub.turn /\ hub.turn \in Nat
  BY BegunGrows
<1>2. /\ runner.current \in Nat /\ Turns \subseteq Nat
      /\ PipesTyped' /\ PipesTyped
  BY PipesTypedNext, ChannelAssumption DEF CallsTyped, Turns
<1>3. ReadsRun => Head(down).turn \in Nat /\ Head(down).turn <= Begun
  BY <1>2, ReadIs DEF ReadsRun, Later
<1>4. ASSUME NEW i \in DOMAIN up', OfTurn(up'[i])
      PROVE  up'[i].turn <= Begun'
  <2>1. up'[i].turn \in Nat
    <3>1. up'[i] \in UpFrames
      BY <1>2 DEF PipesTyped
    <3> QED
      BY <1>2, <1>4, <3>1, UpFramesAre
  <2>2. up'[i].turn <= Begun
    BY <1>3, <1>4, UpNews DEF Later
  <2> QED
    BY <1>1, <2>1, <2>2
<1>5. ASSUME NEW i \in DOMAIN down', down'[i].type = "run"
      PROVE  down'[i].turn <= Begun'
  <2>1. down'[i].turn \in Nat
    <3>1. down'[i] \in DownFrames
      BY <1>2 DEF PipesTyped
    <3> QED
      BY <1>2, <3>1, DownFramesAre
  <2>2. CASE \E j \in DOMAIN down : down[j] = down'[i]
    BY <1>1, <1>5, <2>1, <2>2 DEF Later
  <2>3. CASE /\ SendRun /\ session.current = NoTurn /\ ~session.closed
             /\ down'[i] = [type |-> "run", turn |-> hub.turn]
    <3>1. hub'.at = "running" /\ hub'.turn = hub.turn
      BY <2>3, RunBegins
    <3> QED
      BY <1>1, <2>3, <3>1 DEF Begun
  <2>4. \A call \in Calls : Response(call).type # "run"
    BY DEF Response
  <2> QED
    BY <1>5, <2>2, <2>3, <2>4, DownNews
<1>6. runner'.current <= Begun'
  <2>1. runner'.current \in Nat
    BY RunnerGoesOn, <1>2
  <2>2. runner'.current = NoTurn => runner'.current <= Begun'
    BY HubTypedNext, <1>1 DEF NoTurn, HubTyped, Begun
  <2> QED
    BY <1>1, <1>2, <1>3, <2>1, <2>2, RunnerGoesOn DEF Later
<1>7. ASSUME NEW t \in Turns, t > Begun'
      PROVE  recorded'[t] = 0 /\ sent'[t] = 0 /\ t \notin ranOk' /\ outcome'[t] = "none"
  <2>1. t > Begun /\ t \in Nat
    BY <1>1, <1>2, <1>7
  <2>2. recorded[t] = 0 /\ sent[t] = 0 /\ t \notin ranOk /\ outcome[t] = "none"
    BY <2>1 DEF Later
  <2>3. t # runner.current
    BY <1>1, <1>2, <2>1 DEF Later
  <2>4. ReadsRun => t # Head(down).turn
    BY <1>1, <1>3, <2>1
  <2>5. sent'[t] = sent[t] /\ t \notin ranOk'
    <3>1. \A u \in Turns : t # u => Counted(u)[t] = sent[t]
      BY DEF Counted, HubTyped
    <3> QED
      BY <2>2, <2>3, <2>4, <3>1, CountsGoOn
  <2>6. hub'.at # "idle" \/ hub'.turn # t
    <3>1. hub'.at = "idle" => Begun' = hub'.turn
      BY DEF Begun
    <3> QED
      BY <1>1, <1>2, <1>7, <3>1
  <2>7. Records => hub.turn # t
    <3>1. Records => hub.at = "running"
      BY DEF Records
    <3>2. hub.at = "running" => Begun = hub.turn
      BY DEF Begun
    <3> QED
      BY <1>1, <2>1, <3>1, <3>2
  <2>8. recorded'[t] = recorded[t] /\ outcome'[t] = outcome[t]
    <3>1. Records => recorded'[t] = recorded[t] /\ outcome'[t] = outcome[t]
      BY <2>7 DEF Records, HubTyped
    <3> QED
      BY <2>6, <3>1, HubGoesOn
  <2> QED
    BY <2>2, <2>5, <2>8
<1> QED
  BY <1>4, <1>5, <1>6, <1>7 DEF Later

\* A turn is cancelled by the hub, which remembers why until the next one.
LEMMA StoppedNext ==
  ASSUME Inv, Next
  PROVE  Stopped'
<1> USE DEF Inv
<1>1. hub.turn \in Nat /\ hub'.turn \in Nat /\ Turns \subseteq Nat /\ runner.current \in 0..MaxTurns /\ MaxTurns \in Nat /\ PipesTyped
  BY HubTypedNext, ChannelAssumption DEF HubTyped, Turns, CallsTyped
<1>2. ASSUME NEW t \in Turns, Told(t)
      PROVE  Told(t)'
  BY <1>1, <1>2, HubGoesOn DEF Told
<1>3. ASSUME NEW i \in DOMAIN down', down'[i].type = "cancel"
      PROVE  Told(down[i].turn)'
  <2>1. CASE \E j \in DOMAIN down : down[j] = down'[i]
    <3>1. PICK j \in DOMAIN down : down[j] = down'[i]
      BY <2>1
    <3>2. down[j].turn \in Turns
      <4>1. down[j] \in DownFrames
        BY <1>1 DEF PipesTyped
      <4> QED
        BY <4>1, DownFramesAre
    <3> QED
      BY <1>2, <1>3, <3>1, <3>2 DEF Stopped
  <2>2. CASE Abort \/ HubTimer
    <3>1. hub' \in {[hub EXCEPT !.aborted = TRUE, !.mapped = FALSE], [hub EXCEPT !.timedOut = TRUE]}
      BY <2>2 DEF Abort, HubTimer
    <3>2. hub'.turn = hub.turn /\ (hub'.aborted \/ hub'.timedOut)
      BY <3>1 DEF HubTyped
    <3>3. (\E j \in DOMAIN down : down[j] = down'[i]) \/ down'[i] = [type |-> "cancel", turn |-> hub.turn]
      <4>1. ~SendRun
        BY <2>2, <3>1 DEF SendRun, TurnOver, Abort, HubTimer, HubTyped
      <4>2. \A call \in Calls : Response(call).type # "cancel"
        BY DEF Response
      <4> QED
        BY <1>3, <4>1, <4>2, DownNews
    <3> QED
      BY <2>1, <3>2, <3>3 DEF Told
  <2>3. CASE SessionTimer /\ down'[i] = [type |-> "cancel", turn |-> hub.turn]
    <3>1. hub' = hub /\ hub.timedOut
      BY <2>3 DEF SessionTimer, daemon
    <3> QED
      BY <2>3, <3>1 DEF Told
  <2>4. \A call \in Calls : Response(call).type # "cancel"
    BY DEF Response
  <2> QED
    BY <1>3, <2>1, <2>2, <2>3, <2>4, DownNews
<1>4. ASSUME runner'.aborted, runner'.current # NoTurn
      PROVE  Told(runner.current)'
  <2>1. runner'.current = runner.current
    BY <1>4, RunnerGoesOn
  <2>2. runner.current \in Turns
    BY <1>1, <1>4, <2>1 DEF Turns, NoTurn
  <2>3. CASE runner.aborted
    BY <1>2, <1>4, <2>1, <2>2, <2>3 DEF Stopped
  <2>4. CASE ~runner.aborted
    <3>1. ReadsCancel
      BY <1>4, <2>4, RunnerGoesOn
    <3>2. Head(down) = down[1] /\ 1 \in DOMAIN down /\ Head(down).type = "cancel"
      BY <1>1, <3>1, ReadIs DEF ReadsCancel
    <3>3. runner' = [runner EXCEPT !.aborted = runner.aborted \/ runner.current = Head(down).turn]
      BY <3>1 DEF ReadsCancel
    <3>4. runner.current = Head(down).turn
      BY <1>4, <2>4, <3>3 DEF CallsTyped
    <3>5. Told(runner.current)
      BY <3>2, <3>4 DEF Stopped
    <3> QED
      BY <1>2, <2>1, <2>2, <3>5
  <2> QED
    BY <2>3, <2>4
<1> QED
  BY <1>3, <1>4 DEF Stopped

(***************************************************************************)
(* One run, and one end, of a turn.                                        *)
(***************************************************************************)

\* Where the runs that are under way move.
LEMMA RunsMove ==
  ASSUME Inv, Next
  PROVE  \/ /\ SendRun /\ session.current = NoTurn /\ ~session.closed
            /\ down' = Append(down, [type |-> "run", turn |-> hub.turn])
         \/ \E k \in {0, 1} :
              /\ ReadsRun => k = 1
              /\ \A i \in DOMAIN down' : down'[i].type = "run" => i \in Nat /\ i > 0 /\ i + k \in DOMAIN down /\ down[i + k] = down'[i]
<1>1. down \in Seq(DownFrames) /\ MaxTurns \in Nat
  BY ChannelAssumption DEF Inv, PipesTyped
<1>2. CASE down' = down
  <2>1. ~ReadsRun
    <3>1. ReadsRun => down # <<>> /\ down' = Tail(down)
      BY DEF ReadsRun, Read
    <3>2. down # <<>> => Tail(down) # down
      BY <1>1
    <3> QED
      BY <1>2, <3>1, <3>2
  <2>2. \A i \in DOMAIN down' : i \in Nat /\ i > 0 /\ i + 0 = i
    BY <1>1, <1>2
  <2> QED
    BY <1>2, <2>1, <2>2
<1>3. CASE down # <<>> /\ down' = Tail(down)
  <2>1. \A i \in DOMAIN down' : i \in Nat /\ i > 0 /\ i + 1 \in DOMAIN down /\ down[i + 1] = down'[i]
    BY <1>1, <1>3, TailIs
  <2> QED
    BY <2>1
<1>4. ASSUME NEW f \in DownFrames, down' = Append(down, f), f.type # "run"
      PROVE  \E k \in {0, 1} :
               /\ ReadsRun => k = 1
               /\ \A i \in DOMAIN down' : down'[i].type = "run" => i \in Nat /\ i > 0 /\ i + k \in DOMAIN down /\ down[i + k] = down'[i]
  <2>1. \A i \in DOMAIN down' : i \in Nat /\ i > 0 /\ i + 0 = i
    BY <1>1, <1>4
  <2>2. \A i \in DOMAIN down' : down'[i].type = "run" => i \in DOMAIN down /\ down[i] = down'[i]
    BY <1>1, <1>4, AppendIs
  <2>3. ~ReadsRun
    <3>1. ReadsRun => down # <<>> /\ down' = Tail(down)
      BY DEF ReadsRun, Read
    <3>2. down # <<>> => Len(Tail(down)) < Len(down) /\ Len(Append(down, f)) = Len(down) + 1 /\ Len(down) \in Nat
      BY <1>1, <1>4
    <3> QED
      BY <1>4, <3>1, <3>2
  <2> QED
    BY <2>1, <2>2, <2>3
<1>5. \A call \in Calls : Response(call) \in DownFrames /\ Response(call).type # "run"
  BY DEF Calls, Response, DownFrames
<1>6. hub.at # "idle" => [type |-> "cancel", turn |-> hub.turn] \in DownFrames
  <2>1. hub.at # "idle" => hub.turn \in Turns
    BY <1>1 DEF Inv, HubTyped, Turns, NoTurn
  <2> QED
    BY <2>1, FramesTyped
<1>7. CASE SendRun
  <2>1. CASE session.current = NoTurn /\ ~session.closed
    BY <1>2, <1>7, <2>1, RunBegins
  <2>2. CASE ~(session.current = NoTurn /\ ~session.closed)
    BY <1>2, <1>7, <2>2, RunFails
  <2> QED
    BY <2>1, <2>2
<1>8. CASE hub.at # "idle" /\ down' = Append(down, [type |-> "cancel", turn |-> hub.turn])
  BY <1>4, <1>6, <1>8
<1>9. CASE \E call \in Calls : down' = Append(down, Response(call))
  BY <1>4, <1>5, <1>9
<1> QED
  BY <1>2, <1>3, <1>7, <1>8, <1>9, DownMoves

\* A turn is asked for once, before anything is told of it.
LEMMA RunOnceNext ==
  ASSUME Inv, Next
  PROVE  RunOnce'
<1> USE DEF Inv
<1>1. /\ Turns \subseteq Nat /\ NoTurn \notin Turns /\ MaxTurns \in Nat
      /\ PipesTyped /\ down \in Seq(DownFrames) /\ up \in Seq(UpFrames)
  BY ChannelAssumption DEF Turns, NoTurn, PipesTyped
<1>2. ASSUME SendRun, session.current = NoTurn, ~session.closed,
             down' = Append(down, [type |-> "run", turn |-> hub.turn])
      PROVE  RunOnce'
  <2> DEFINE t == hub.turn
  <2>1. hub.at = "input" /\ t \in Turns /\ t > Begun
    <3>1. hub.at = "input" /\ hub.turn \in Turns
      BY <1>2, RunBegins
    <3>2. Begun = hub.turn - 1 /\ hub.turn \in Nat
      BY <1>1, <3>1 DEF Begun
    <3>3. hub.turn > hub.turn - 1
      BY <3>2
    <3> QED
      BY <3>1, <3>2, <3>3
  <2>2. /\ up' = up /\ runner' = runner /\ sent' = sent /\ ranOk' = ranOk
        /\ recorded' = recorded /\ done' = "no" /\ queue' = <<>>
    <3>1. up' = up /\ runner' = runner /\ sent' = sent /\ ranOk' = ranOk
      BY <1>2 DEF SendRun, cell
    <3>2. recorded' = recorded /\ done' = "no" /\ queue' = queue
      BY <1>2, RunBegins
    <3> QED
      BY <1>2, <3>1, <3>2 DEF SessionTyped
  <2>3. Silent(t)
    <3>1. ASSUME NEW i \in DOMAIN up, OfTurn(up[i]) PROVE up[i].turn # t
      <4>1. up[i].turn <= Begun
        BY <3>1 DEF Later
      <4> QED
        BY <1>1, <2>1, <4>1, BegunGrows
    <3> QED
      BY <3>1 DEF Silent
  <2>4. runner.current # t /\ t \notin ranOk /\ sent[t] = 0 /\ recorded[t] = 0
    <3>1. runner.current <= Begun
      BY DEF Later
    <3> QED
      BY <1>1, <2>1, <3>1, BegunGrows DEF Later
  <2>5. \A j \in DOMAIN down : down[j].type = "run" => down[j].turn # t
    <3>1. ASSUME NEW i \in DOMAIN down, down[i].type = "run" PROVE down[i].turn # t
      <4>1. down[i].turn <= Begun
        BY <3>1 DEF Later
      <4> QED
        BY <1>1, <2>1, <4>1, BegunGrows
    <3> QED
      BY <3>1
  <2>6. [type |-> "run", turn |-> t] \in DownFrames
    BY <2>1, FramesTyped
  <2> HIDE DEF t
  <2>7. /\ DOMAIN down' = DOMAIN down \cup {Len(down) + 1} /\ \A i \in DOMAIN down : down'[i] = down[i] /\ i # Len(down) + 1
        /\ down'[Len(down) + 1] = [type |-> "run", turn |-> t]
    <3>1. down' = Append(down, [type |-> "run", turn |-> t])
      BY <1>2 DEF t
    <3> QED
      BY <1>1, <2>6, <3>1, AppendIs
  <2>8. ASSUME NEW i \in DOMAIN down', down'[i].type = "run", i # Len(down) + 1
        PROVE  /\ Silent(down[i].turn)' /\ runner'.current # down'[i].turn /\ down'[i].turn \notin ranOk'
               /\ sent'[down'[i].turn] = 0 /\ recorded'[down'[i].turn] = 0
               /\ down'[i].turn # t
               /\ \A j \in DOMAIN down' : down'[j].type = "run" /\ down'[j].turn = down'[i].turn => j = i
    <3>1. i \in DOMAIN down /\ down'[i] = down[i]
      BY <2>7, <2>8
    <3>2. down[i].turn # t
      BY <2>5, <2>8, <3>1
    <3> QED
      BY <2>2, <2>7, <2>8, <3>1, <3>2 DEF RunOnce, Silent
  <2>9. session'.current = t
    BY <1>2, RunBegins DEF t
  <2>10. ASSUME NEW i \in DOMAIN down', down'[i].type = "run", i = Len(down) + 1
         PROVE  /\ Silent(down[i].turn)' /\ runner'.current # down'[i].turn /\ down'[i].turn \notin ranOk'
                /\ sent'[down'[i].turn] = 0 /\ recorded'[down'[i].turn] = 0
                /\ \A j \in DOMAIN down' : down'[j].type = "run" /\ down'[j].turn = down'[i].turn => j = i
    <3>1. down'[i].turn = t
      BY <2>7, <2>10
    <3>2. \A j \in DOMAIN down' : down'[j].type = "run" /\ down'[j].turn = t => j = i
      BY <2>5, <2>7, <2>10
    <3> QED
      BY <2>2, <2>3, <2>4, <3>1, <3>2 DEF Silent
  <2> QED
    BY <2>2, <2>8, <2>9, <2>10 DEF RunOnce
<1>3. ASSUME NEW k \in {0, 1}, ReadsRun => k = 1,
             \A i \in DOMAIN down' : down'[i].type = "run" => i \in Nat /\ i > 0 /\ i + k \in DOMAIN down /\ down[i + k] = down'[i],
             NEW i \in DOMAIN down', down'[i].type = "run", NEW t, t = down'[i].turn
      PROVE  /\ Silent(t)' /\ runner'.current # t /\ t \notin ranOk'
             /\ sent'[t] = 0 /\ recorded'[t] = 0
             /\ session'.current = t => queue' = <<>> /\ done' # "ended"
             /\ \A j \in DOMAIN down' : down'[j].type = "run" /\ down'[j].turn = t => j = i
  <2>1. /\ i + k \in DOMAIN down /\ down[i + k].type = "run" /\ down[i + k].turn = t /\ i \in Nat /\ i > 0
        /\ t \in Turns /\ t <= Begun
    <3>1. i + k \in DOMAIN down /\ down[i + k] = down'[i] /\ i \in Nat /\ i > 0
      BY <1>3
    <3>2. down[i + k] \in DownFrames
      BY <1>1, <3>1
    <3>3. down[i + k].turn \in Turns /\ down[i + k].turn <= Begun
      BY <1>3, <3>1, <3>2, DownFramesAre DEF Later
    <3> QED
      BY <1>3, <3>1, <3>3
  <2>2. /\ Silent(t) /\ runner.current # t /\ t \notin ranOk /\ sent[t] = 0 /\ recorded[t] = 0
        /\ session.current = t => queue = <<>> /\ done # "ended"
        /\ \A j \in DOMAIN down : down[j].type = "run" /\ down[j].turn = t => j = i + k
    BY <2>1 DEF RunOnce
  <2>3. ReadsRun => Head(down).turn # t
    <3>1. ReadsRun => Head(down) = down[1] /\ 1 \in DOMAIN down /\ Head(down).type = "run"
      BY <1>1, ReadIs DEF ReadsRun
    <3> QED
      BY <1>3, <2>1, <2>2, <3>1
  <2>4. Silent(t)'
    <3>1. SUFFICES ASSUME NEW j \in DOMAIN up', OfTurn(up'[j]) PROVE up'[j].turn # t
      BY DEF Silent
    <3> QED
      BY <2>2, <2>3, <3>1, UpNews DEF Silent
  <2>5. runner'.current # t
    BY <1>1, <2>1, <2>2, <2>3, RunnerGoesOn
  <2>6. t \notin ranOk' /\ sent'[t] = 0
    <3>1. \A u \in Turns : t # u => Counted(u)[t] = sent[t]
      BY <2>1 DEF Counted, HubTyped
    <3> QED
      BY <2>2, <2>3, <3>1, CountsGoOn
  <2>7. recorded'[t] = 0
    <3>1. Records => hub.turn # t
      BY <2>2 DEF Records, SessionTyped
    <3>2. Records => recorded'[t] = recorded[t]
      BY <2>1, <3>1 DEF Records, HubTyped
    <3> QED
      BY <2>2, <3>2, HubGoesOn
  <2>8. session'.current = t => queue' = <<>> /\ done' # "ended"
    <3>1. CASE SendRun
      <4>1. CASE session.current = NoTurn /\ ~session.closed
        <5>1. session'.current = hub.turn /\ hub.turn \in Turns /\ hub.at = "input"
          BY <3>1, <4>1, RunBegins
        <5>2. hub.turn # t
          BY <1>1, <2>1, <5>1 DEF Begun
        <5> QED
          BY <5>1, <5>2
      <4>2. CASE ~(session.current = NoTurn /\ ~session.closed)
        BY <2>2, <3>1, <4>2, RunFails
      <4> QED
        BY <4>1, <4>2
    <3>2. CASE RunEnds
      <4>1. session' = [session EXCEPT !.current = NoTurn]
        BY <3>2 DEF RunEnds
      <4>2. session'.current # t
        BY <1>1, <2>1, <4>1 DEF SessionTyped
      <4> QED
        BY <4>2
    <3>3. CASE ~SendRun /\ ~RunEnds
      <4>1. HearsEvent \/ HearsEnd => up # <<>> /\ Head(up).turn = session.current /\ OfTurn(Head(up))
        BY DEF HearsEvent, HearsEnd, Heard, InTurn, OfTurn
      <4>2. up # <<>> => Head(up) = up[1] /\ 1 \in DOMAIN up
        BY <1>1, TailIs
      <4>3. HearsEvent \/ HearsEnd => session.current # t
        BY <2>2, <4>1, <4>2 DEF Silent
      <4>4. session'.current = session.current /\ (Records => queue # <<>>)
        BY <3>3, SessionKeeps DEF Records
      <4> QED
        BY <2>2, <3>3, <4>3, <4>4, SessionKeeps
    <3> QED
      BY <3>1, <3>2, <3>3
  <2>9. \A j \in DOMAIN down' : down'[j].type = "run" /\ down'[j].turn = t => j = i
    <3>1. SUFFICES ASSUME NEW j \in DOMAIN down', down'[j].type = "run", down'[j].turn = t PROVE j = i
      OBVIOUS
    <3>2. j \in Nat /\ j + k \in DOMAIN down /\ down[j + k].type = "run" /\ down[j + k].turn = t
      BY <1>3, <3>1
    <3>3. j + k = i + k
      BY <2>2, <3>2
    <3> QED
      BY <2>1, <3>2, <3>3
  <2> QED
    BY <2>4, <2>5, <2>6, <2>7, <2>8, <2>9
<1>4. ASSUME NEW k \in {0, 1}, ReadsRun => k = 1,
             \A i \in DOMAIN down' : down'[i].type = "run" => i \in Nat /\ i > 0 /\ i + k \in DOMAIN down /\ down[i + k] = down'[i]
      PROVE  RunOnce'
  BY <1>3, <1>4 DEF RunOnce
<1> QED
  BY <1>2, <1>4, RunsMove

\* Where the frames that are under way move, and where new ones come to stand.
LEMMA UpIndex ==
  ASSUME Inv, Next
  PROVE  \E k \in {0, 1} : \A i \in DOMAIN up' :
           /\ i \in Nat /\ i > 0
           /\ \/ i + k \in DOMAIN up /\ up[i + k] = up'[i]
              \/ /\ k = 0 /\ i > Len(up) /\ (up'[i].type = "turn.end" => i = Len(up'))
                 /\ OfTurn(up'[i]) =>
                        \/ /\ Emits \/ CallsTool \/ RuntimeEnds(TRUE) \/ RuntimeEnds(FALSE)
                           /\ runner.is = "up" /\ runner.current # NoTurn /\ up'[i].turn = runner.current
                           /\ up'[i].type = "turn.end" => RuntimeEnds(TRUE) \/ RuntimeEnds(FALSE)
                        \/ ReadsRun /\ runner.is = "up" /\ runner.current # NoTurn /\ up'[i].turn = Head(down).turn
<1> DEFINE New(i) == OfTurn(up'[i]) =>
                       \/ /\ Emits \/ CallsTool \/ RuntimeEnds(TRUE) \/ RuntimeEnds(FALSE)
                          /\ runner.is = "up" /\ runner.current # NoTurn /\ up'[i].turn = runner.current
                          /\ up'[i].type = "turn.end" => RuntimeEnds(TRUE) \/ RuntimeEnds(FALSE)
                       \/ ReadsRun /\ runner.is = "up" /\ runner.current # NoTurn /\ up'[i].turn = Head(down).turn
           At(i, k) == /\ i \in Nat /\ i > 0
                       /\ \/ i + k \in DOMAIN up /\ up[i + k] = up'[i]
                          \/ k = 0 /\ i > Len(up) /\ (up'[i].type = "turn.end" => i = Len(up')) /\ New(i)
<1>1. up \in Seq(UpFrames) /\ Len(up) \in Nat /\ DOMAIN up = 1..Len(up) /\ up' \in Seq(UpFrames)
  BY PipesTypedNext DEF Inv, PipesTyped
<1>2. CASE up # <<>> /\ up' = Tail(up)
  <2>1. \A i \in DOMAIN up' : At(i, 1)
    BY <1>1, <1>2, TailIs
  <2> QED
    BY <2>1
<1>3. CASE up' = up
  <2>1. \A i \in DOMAIN up' : i \in Nat /\ i > 0 /\ i + 0 = i
    BY <1>1, <1>3
  <2>2. \A i \in DOMAIN up' : At(i, 0)
    BY <1>3, <2>1
  <2> QED
    BY <2>2
<1>4. CASE up' = <<>>
  <2>1. \A i \in DOMAIN up' : At(i, 0)
    <3>1. DOMAIN <<>> = {}
      OBVIOUS
    <3> QED
      BY <1>4, <3>1
  <2> QED
    BY <2>1
<1>5. ASSUME NEW f \in UpFrames, up' = Append(up, f), New(Len(up) + 1)
      PROVE  \A i \in DOMAIN up' : At(i, 0)
  <2>1. Len(up') = Len(up) + 1 /\ DOMAIN up' = 1..(Len(up) + 1) /\ \A i \in DOMAIN up : up'[i] = up[i]
    BY <1>1, <1>5, AppendIs
  <2>2. ASSUME NEW i \in DOMAIN up' PROVE At(i, 0)
    <3>1. i \in Nat /\ i > 0 /\ i + 0 = i /\ (i \in DOMAIN up \/ i = Len(up) + 1)
      BY <1>1, <2>1
    <3>2. CASE i \in DOMAIN up
      BY <2>1, <3>1, <3>2
    <3>3. CASE i = Len(up) + 1
      <4>1. i > Len(up)
        BY <1>1, <3>3
      <4> HIDE DEF New
      <4> QED
        BY <1>5, <2>1, <3>1, <3>3, <4>1
    <3> QED
      BY <3>1, <3>2, <3>3
  <2> QED
    BY <2>2
<1>6. ASSUME NEW e \in UpFrames, NEW f \in UpFrames, up' = Append(Append(up, e), f),
             New(Len(up) + 1), New(Len(up) + 2), e.type = "event"
      PROVE  \A i \in DOMAIN up' : At(i, 0)
  <2>1. /\ Append(up, e) \in Seq(UpFrames) /\ Len(Append(up, e)) = Len(up) + 1
        /\ DOMAIN Append(up, e) = 1..(Len(up) + 1) /\ \A i \in DOMAIN up : Append(up, e)[i] = up[i]
    BY <1>1, AppendIs
  <2>2. /\ Len(up') = Len(up) + 2 /\ DOMAIN up' = 1..(Len(up) + 2)
        /\ \A i \in DOMAIN Append(up, e) : up'[i] = Append(up, e)[i]
    BY <1>1, <1>6, <2>1, AppendIs
  <2>3. up'[Len(up) + 1] = e
    BY <1>1, <2>1, <2>2, AppendIs
  <2>4. ASSUME NEW i \in DOMAIN up' PROVE At(i, 0)
    <3>1. i \in Nat /\ i > 0 /\ i + 0 = i /\ (i \in DOMAIN up \/ i = Len(up) + 1 \/ i = Len(up) + 2)
      BY <1>1, <2>2
    <3>2. CASE i \in DOMAIN up
      <4>1. i \in DOMAIN Append(up, e)
        BY <1>1, <2>1, <3>2
      <4> QED
        BY <2>1, <2>2, <3>1, <3>2, <4>1
    <3>3. CASE i = Len(up) + 1
      <4>1. i > Len(up) /\ up'[i].type # "turn.end"
        BY <1>1, <1>6, <2>3, <3>3
      <4> HIDE DEF New
      <4> QED
        BY <1>6, <3>1, <3>3, <4>1
    <3>4. CASE i = Len(up) + 2
      <4>1. i > Len(up) /\ i = Len(up')
        BY <1>1, <2>2, <3>4
      <4> HIDE DEF New
      <4> QED
        BY <1>6, <3>1, <3>4, <4>1
    <3> QED
      BY <3>1, <3>2, <3>3, <3>4
  <2> QED
    BY <2>4
<1>7. CASE \E f \in [type : {"ready", "error"}] : up' = Append(up, f) /\ f \in UpFrames /\ ~OfTurn(f)
  <2>1. PICK f \in UpFrames : up' = Append(up, f) /\ ~OfTurn(f)
    BY <1>7
  <2>2. up'[Len(up) + 1] = f
    BY <1>1, <2>1, AppendIs
  <2>3. New(Len(up) + 1)
    BY <2>1, <2>2
  <2> HIDE DEF New, At
  <2>4. \A i \in DOMAIN up' : At(i, 0)
    BY <1>5, <2>1, <2>3
  <2> QED
    BY <2>4 DEF At, New
<1>8. CASE Emits /\ up' = Append(up, [type |-> "event", turn |-> runner.current, fatal |-> FALSE])
  <2> DEFINE f == [type |-> "event", turn |-> runner.current, fatal |-> FALSE]
  <2>1. f \in UpFrames /\ f.turn = runner.current /\ f.type # "turn.end" /\ runner.is = "up" /\ runner.current # NoTurn
    <3>1. runner.is = "up" /\ runner.current \in Turns /\ runner.current # NoTurn
      BY <1>8, ChannelAssumption DEF Inv, CallsTyped, Emits, Runs, Turns, NoTurn
    <3> QED
      BY <3>1, FramesTyped
  <2> HIDE DEF f
  <2>2. up' = Append(up, f) /\ up'[Len(up) + 1] = f
    BY <1>1, <1>8, <2>1, AppendIs DEF f
  <2>3. New(Len(up) + 1)
    BY <1>8, <2>1, <2>2
  <2> HIDE DEF New, At
  <2>4. \A i \in DOMAIN up' : At(i, 0)
    BY <1>5, <2>1, <2>2, <2>3
  <2> QED
    BY <2>4 DEF At, New
<1>9. CASE CallsTool /\ up' = Append(up, [type |-> "tool.request", turn |-> runner.current, id |-> NextCall])
  <2> DEFINE f == [type |-> "tool.request", turn |-> runner.current, id |-> NextCall]
  <2>1. f \in UpFrames /\ f.turn = runner.current /\ f.type # "turn.end" /\ runner.is = "up" /\ runner.current # NoTurn
    <3>1. /\ runner.is = "up" /\ runner.current \in Turns /\ runner.current # NoTurn
          /\ runner.nextCall \in Nat /\ runner.nextCall < MaxCalls /\ MaxCalls \in Nat
      BY <1>9, ChannelAssumption DEF Inv, CallsTyped, CallsTool, MayCall, Runs, Turns, NoTurn
    <3> QED
      BY <3>1, FramesTyped DEF NextCall
  <2> HIDE DEF f
  <2>2. up' = Append(up, f) /\ up'[Len(up) + 1] = f
    BY <1>1, <1>9, <2>1, AppendIs DEF f
  <2>3. New(Len(up) + 1)
    BY <1>9, <2>1, <2>2
  <2> HIDE DEF New, At
  <2>4. \A i \in DOMAIN up' : At(i, 0)
    BY <1>5, <2>1, <2>2, <2>3
  <2> QED
    BY <2>4 DEF At, New
<1>10. CASE RuntimeEnds(TRUE) /\ up' = Append(up, [type |-> "turn.end", turn |-> runner.current])
  <2> DEFINE f == [type |-> "turn.end", turn |-> runner.current]
  <2>1. f \in UpFrames /\ f.turn = runner.current /\ runner.is = "up" /\ runner.current # NoTurn
    <3>1. runner.is = "up" /\ runner.current \in Turns /\ runner.current # NoTurn
      BY <1>10, ChannelAssumption DEF Inv, CallsTyped, RuntimeEnds, Runs, Turns, NoTurn
    <3> QED
      BY <3>1, FramesTyped
  <2> HIDE DEF f
  <2>2. up' = Append(up, f) /\ up'[Len(up) + 1] = f
    BY <1>1, <1>10, <2>1, AppendIs DEF f
  <2>3. New(Len(up) + 1)
    BY <1>10, <2>1, <2>2
  <2> HIDE DEF New, At
  <2>4. \A i \in DOMAIN up' : At(i, 0)
    BY <1>5, <2>1, <2>2, <2>3
  <2> QED
    BY <2>4 DEF At, New
<1>11. ASSUME NEW t \in Turns,
              \/ RuntimeEnds(FALSE) /\ t = runner.current
              \/ ReadsRun /\ runner.current # NoTurn /\ t = Head(down).turn,
              up' = Append(Append(up, [type |-> "event", turn |-> t, fatal |-> TRUE]), [type |-> "turn.end", turn |-> t])
       PROVE  \A i \in DOMAIN up' : At(i, 0)
  <2> DEFINE e == [type |-> "event", turn |-> t, fatal |-> TRUE]
             f == [type |-> "turn.end", turn |-> t]
  <2>1. e \in UpFrames /\ e.type = "event" /\ e.turn = t /\ f \in UpFrames /\ f.turn = t
    BY FramesTyped
  <2>2. up' = Append(Append(up, e), f)
    BY <1>11
  <2> HIDE DEF e, f
  <2>3. up'[Len(up) + 1] = e /\ up'[Len(up) + 2] = f
    <3>1. /\ Append(up, e) \in Seq(UpFrames) /\ Len(Append(up, e)) = Len(up) + 1
          /\ Append(up, e)[Len(up) + 1] = e /\ Len(up) + 1 \in DOMAIN Append(up, e)
      BY <1>1, <2>1, AppendIs
    <3>2. up'[Len(up) + 1] = Append(up, e)[Len(up) + 1]
      BY <2>1, <2>2, <3>1, AppendIs
    <3>3. up'[Len(up) + 1 + 1] = f
      BY <2>1, <2>2, <3>1, AppendIs
    <3>4. Len(up) + 1 + 1 = Len(up) + 2
      BY <1>1
    <3> QED
      BY <3>1, <3>2, <3>3, <3>4
  <2>4. /\ RuntimeEnds(FALSE) => runner.is = "up" /\ runner.current # NoTurn
        /\ ReadsRun => runner.is = "up"
    BY DEF RuntimeEnds, ReadsRun, Read, Runs
  <2>5. New(Len(up) + 1) /\ New(Len(up) + 2)
    BY <1>11, <2>1, <2>3, <2>4
  <2> HIDE DEF New, At
  <2> QED
    BY <1>6, <2>1, <2>2, <2>5
<1>12. CASE \E t \in Turns :
              /\ \/ RuntimeEnds(FALSE) /\ t = runner.current
                 \/ ReadsRun /\ runner.current # NoTurn /\ t = Head(down).turn
              /\ up' = Append(Append(up, [type |-> "event", turn |-> t, fatal |-> TRUE]), [type |-> "turn.end", turn |-> t])
  BY <1>11, <1>12, Zenon
<1> QED
  BY <1>2, <1>3, <1>4, <1>7, <1>8, <1>9, <1>10, <1>12, UpGrows

\* The end of a turn stays the last that is said of it.
LEMMA EndLastNext ==
  ASSUME Inv, Next
  PROVE  EndLast'
<1> USE DEF Inv
<1>1. /\ Turns \subseteq Nat /\ NoTurn \notin Turns /\ PipesTyped /\ PipesTyped'
      /\ Len(up) \in Nat /\ DOMAIN up = 1..Len(up) /\ Len(up') \in Nat /\ DOMAIN up' = 1..Len(up')
  BY PipesTypedNext, ChannelAssumption DEF Turns, NoTurn, PipesTyped
<1>2. ReadsRun => Head(down) = down[1] /\ 1 \in DOMAIN down /\ Head(down).type = "run"
  BY <1>1, ReadIs DEF ReadsRun
<1>3. ReadsRun => Silent(Head(down).turn) /\ runner.current # Head(down).turn
  BY <1>2 DEF RunOnce
<1>4. PICK k \in {0, 1} : \A i \in DOMAIN up' :
           /\ i \in Nat /\ i > 0
           /\ \/ i + k \in DOMAIN up /\ up[i + k] = up'[i]
              \/ /\ k = 0 /\ i > Len(up) /\ (up'[i].type = "turn.end" => i = Len(up'))
                 /\ OfTurn(up'[i]) =>
                        \/ /\ Emits \/ CallsTool \/ RuntimeEnds(TRUE) \/ RuntimeEnds(FALSE)
                           /\ runner.is = "up" /\ runner.current # NoTurn /\ up'[i].turn = runner.current
                           /\ up'[i].type = "turn.end" => RuntimeEnds(TRUE) \/ RuntimeEnds(FALSE)
                        \/ ReadsRun /\ runner.is = "up" /\ runner.current # NoTurn /\ up'[i].turn = Head(down).turn
  BY UpIndex
<1>5. ASSUME NEW i \in DOMAIN up', up'[i].type = "turn.end"
      PROVE  /\ runner'.current # up'[i].turn
             /\ \A j \in DOMAIN up' : j > i /\ OfTurn(up'[j]) => up'[j].turn # up'[i].turn
  <2>1. OfTurn(up'[i]) /\ up'[i].turn \in Turns
    <3>1. up'[i] \in UpFrames
      BY <1>1 DEF PipesTyped
    <3> QED
      BY <1>5, <3>1, UpFramesAre DEF OfTurn
  <2>2. CASE i + k \in DOMAIN up /\ up[i + k] = up'[i]
    <3>1. /\ runner.current # up'[i].turn
          /\ \A j \in DOMAIN up : j > i + k /\ OfTurn(up[j]) => up[j].turn # up'[i].turn
      BY <1>5, <2>2 DEF EndLast
    <3>2. Silent(Head(down).turn) => Head(down).turn # up'[i].turn
      BY <2>1, <2>2 DEF Silent
    <3>3. runner'.current # up'[i].turn
      BY <1>1, <1>3, <2>1, <3>1, <3>2, RunnerGoesOn
    <3>4. ASSUME NEW j \in DOMAIN up', j > i, OfTurn(up'[j]) PROVE up'[j].turn # up'[i].turn
      <4>1. CASE j + k \in DOMAIN up /\ up[j + k] = up'[j]
        <5>1. j + k > i + k
          BY <1>4, <3>4
        <5> QED
          BY <3>1, <3>4, <4>1, <5>1
      <4>2. CASE up'[j].turn = runner.current \/ (ReadsRun /\ up'[j].turn = Head(down).turn)
        BY <1>3, <3>1, <3>2, <4>2
      <4> QED
        BY <1>4, <3>4, <4>1, <4>2
    <3> QED
      BY <3>3, <3>4
  <2>3. CASE k = 0 /\ i = Len(up') /\ i > Len(up)
    <3>1. \A j \in DOMAIN up' : ~(j > i)
      BY <1>1, <2>3
    <3>2. CASE RuntimeEnds(TRUE) \/ RuntimeEnds(FALSE)
      <4>1. runner' = [runner EXCEPT !.current = NoTurn]
        BY <3>2 DEF RuntimeEnds
      <4> QED
        BY <1>1, <2>1, <3>1, <4>1 DEF CallsTyped
    <3>3. CASE ReadsRun /\ runner.current # NoTurn /\ up'[i].turn = Head(down).turn
      <4>1. runner' = runner
        BY <3>3 DEF ReadsRun
      <4> QED
        BY <1>3, <3>1, <3>3, <4>1
    <3>4. ~(i + k \in DOMAIN up)
      BY <1>1, <2>3
    <3> QED
      BY <1>4, <1>5, <2>1, <3>2, <3>3, <3>4
  <2> QED
    BY <1>4, <1>5, <2>2, <2>3
<1> QED
  BY <1>5 DEF EndLast

\* Once its end was heard, nothing more comes of the turn.
LEMMA EndHeardNext ==
  ASSUME Inv, Next
  PROVE  EndHeard'
<1> USE DEF Inv
<1>1. /\ Turns \subseteq Nat /\ NoTurn \notin Turns /\ PipesTyped /\ up \in Seq(UpFrames) /\ SessionTyped'
      /\ session.current \in 0..MaxTurns /\ MaxTurns \in Nat
  BY SessionTypedNext, ChannelAssumption DEF Turns, NoTurn, PipesTyped, SessionTyped
<1>2. ReadsRun => Head(down) = down[1] /\ 1 \in DOMAIN down /\ Head(down).type = "run"
  BY <1>1, ReadIs DEF ReadsRun
<1>3. SUFFICES ASSUME done' = "ended" PROVE EndHeard'
  BY DEF EndHeard
<1>4. ~RunEnds
  BY <1>3 DEF RunEnds
<1>5. session'.current = session.current /\ (done = "ended" \/ HearsEnd)
  <2>1. CASE SendRun
    <3>1. CASE session.current = NoTurn /\ ~session.closed
      BY <1>3, <2>1, <3>1, RunBegins
    <3> QED
      BY <1>3, <2>1, <3>1, RunFails
  <2> QED
    BY <1>3, <1>4, <2>1, SessionKeeps
<1>6. session.current # NoTurn
  BY <1>1, <1>3, <1>5 DEF SessionTyped
<1>7. CASE HearsEnd
  <2>1. up # <<>> /\ up' = Tail(up) /\ Head(up).type = "turn.end" /\ Head(up).turn = session.current
    BY <1>7 DEF HearsEnd, Heard, InTurn
  <2>2. Head(up) = up[1] /\ 1 \in DOMAIN up
    BY <1>1, <2>1, TailIs
  <2>3. /\ runner.current # session.current
        /\ \A j \in DOMAIN up : j > 1 /\ OfTurn(up[j]) => up[j].turn # session.current
    BY <2>1, <2>2 DEF EndLast
  <2>4. runner' = runner
    BY <1>7 DEF HearsEnd, cell
  <2>5. \A i \in DOMAIN up' : i + 1 > 1 /\ i + 1 \in DOMAIN up /\ up'[i] = up[i + 1]
    BY <1>1, <2>1, TailIs
  <2>6. \A i \in DOMAIN up' : OfTurn(up'[i]) => up'[i].turn # session.current
    BY <2>3, <2>5
  <2> QED
    BY <1>5, <2>3, <2>4, <2>6 DEF EndHeard, Silent
<1>8. CASE done = "ended"
  <2>1. Silent(session.current) /\ runner.current # session.current
    BY <1>8 DEF EndHeard
  <2>2. ReadsRun => Head(down).turn # session.current
    BY <1>2, <1>8 DEF RunOnce
  <2>3. runner'.current # session.current
    BY <1>6, <2>1, <2>2, RunnerGoesOn
  <2>4. ASSUME NEW i \in DOMAIN up', OfTurn(up'[i]) PROVE up'[i].turn # session.current
    BY <2>1, <2>2, <2>4, UpNews DEF Silent
  <2> QED
    BY <1>5, <2>3, <2>4 DEF EndHeard, Silent
<1> QED
  BY <1>5, <1>7, <1>8

(***************************************************************************)
(* The events of a turn.                                                   *)
(***************************************************************************)

\* There are finitely many.
LEMMA EventsFinite ==
  ASSUME NEW p \in Seq(UpFrames), NEW t
  PROVE  IsFiniteSet(EventsIn(p, t)) /\ Cardinality(EventsIn(p, t)) \in Nat
<1>1. Len(p) \in Nat /\ DOMAIN p = 1..Len(p)
  OBVIOUS
<1>2. IsFiniteSet(1..Len(p)) /\ EventsIn(p, t) \subseteq 1..Len(p)
  BY <1>1, FS_Interval DEF EventsIn
<1> QED
  BY <1>2, FS_Subset, FS_CardinalityType

\* One less when one is read.
LEMMA EventsTail ==
  ASSUME NEW p \in Seq(UpFrames), p # <<>>, NEW t
  PROVE  Cardinality(EventsIn(p, t)) =
           Cardinality(EventsIn(Tail(p), t)) + (IF Head(p).type = "event" /\ Head(p).turn = t THEN 1 ELSE 0)
<1> DEFINE S == EventsIn(Tail(p), t)
           T == EventsIn(p, t) \ {1}
           f == [i \in S |-> i + 1]
<1>1. /\ Tail(p) \in Seq(UpFrames) /\ 1 \in DOMAIN p /\ Head(p) = p[1]
      /\ \A i \in DOMAIN Tail(p) : i \in Nat /\ i + 1 > 1 /\ i + 1 \in DOMAIN p /\ Tail(p)[i] = p[i + 1]
      /\ \A i \in DOMAIN p : i # 1 => i - 1 \in DOMAIN Tail(p) /\ Tail(p)[i - 1] = p[i]
      /\ DOMAIN p = 1..Len(p) /\ Len(p) \in Nat
  BY TailIs
<1>2. S \subseteq Nat /\ T \subseteq Nat
  BY <1>1 DEF EventsIn
<1>3. \A i \in S : i + 1 \in T
  BY <1>1 DEF EventsIn
<1>4. \A j \in T : j - 1 \in S /\ (j - 1) + 1 = j
  BY <1>1, <1>2 DEF EventsIn
<1> HIDE DEF S, T
<1>5. f \in Bijection(S, T)
  <2>1. f \in [S -> T]
    BY <1>3
  <2>2. \A i, j \in S : f[i] = f[j] => i = j
    BY <1>2
  <2>3. \A j \in T : \E i \in S : f[i] = j
    BY <1>4
  <2> HIDE DEF f
  <2> QED
    BY <2>1, <2>2, <2>3 DEF Bijection, Injection, Surjection, IsInjective
<1>6. ExistsBijection(S, T)
  BY <1>5 DEF ExistsBijection
<1>7. IsFiniteSet(S) /\ Cardinality(S) \in Nat
  BY <1>1, EventsFinite DEF S
<1>8. IsFiniteSet(T) /\ Cardinality(T) = Cardinality(S)
  BY <1>6, <1>7, FS_Bijection
<1>9. CASE Head(p).type = "event" /\ Head(p).turn = t
  <2>1. EventsIn(p, t) = T \cup {1} /\ 1 \notin T
    BY <1>1, <1>9 DEF T, EventsIn
  <2>2. Cardinality(EventsIn(p, t)) = Cardinality(T) + 1
    BY <1>8, <2>1, FS_AddElement
  <2> QED
    BY <1>8, <1>9, <2>2 DEF S
<1>10. CASE ~(Head(p).type = "event" /\ Head(p).turn = t)
  <2>1. EventsIn(p, t) = T
    BY <1>1, <1>10 DEF T, EventsIn
  <2> QED
    BY <1>7, <1>8, <1>10, <2>1 DEF S
<1> QED
  BY <1>9, <1>10

\* One more when one is written.
LEMMA EventsAppend ==
  ASSUME NEW p \in Seq(UpFrames), NEW f \in UpFrames, NEW t
  PROVE  Cardinality(EventsIn(Append(p, f), t)) =
           Cardinality(EventsIn(p, t)) + (IF f.type = "event" /\ f.turn = t THEN 1 ELSE 0)
<1>1. /\ Append(p, f)[Len(p) + 1] = f /\ Len(p) \in Nat /\ DOMAIN p = 1..Len(p) /\ DOMAIN Append(p, f) = 1..(Len(p) + 1)
      /\ \A i \in DOMAIN p : i \in DOMAIN Append(p, f) /\ Append(p, f)[i] = p[i] /\ i < Len(p) + 1
      /\ \A i \in DOMAIN Append(p, f) : i \in DOMAIN p \/ i = Len(p) + 1
  BY AppendIs
<1>2. IsFiniteSet(EventsIn(p, t)) /\ Cardinality(EventsIn(p, t)) \in Nat
  BY EventsFinite
<1>3. Len(p) + 1 \notin EventsIn(p, t) /\ Len(p) + 1 \in DOMAIN Append(p, f)
  BY <1>1 DEF EventsIn
<1>4. CASE f.type = "event" /\ f.turn = t
  <2>1. EventsIn(Append(p, f), t) = EventsIn(p, t) \cup {Len(p) + 1}
    BY <1>1, <1>3, <1>4 DEF EventsIn
  <2> QED
    BY <1>2, <1>3, <1>4, <2>1, FS_AddElement
<1>5. CASE ~(f.type = "event" /\ f.turn = t)
  <2>1. EventsIn(Append(p, f), t) = EventsIn(p, t)
    BY <1>1, <1>5 DEF EventsIn
  <2> QED
    BY <1>2, <1>5, <2>1
<1> QED
  BY <1>4, <1>5

\* What a step may leave alone of a turn, on either side.
RunnerStays == sent' = sent /\ ranOk' = ranOk /\ runner' = runner
HubStays    == recorded' = recorded /\ outcome' = outcome
TurnStays   == HubStays /\ queue' = queue /\ (done' = done \/ done' = "reason")

\* While a turn is with the session, what a step makes of all that counts for it.
LEMMA TurnMoves ==
  ASSUME Inv, Next, session.current # NoTurn, ~RunEnds
  PROVE  \/ Records /\ RunnerStays /\ up' = up /\ done' = done
         \/ HearsEvent /\ RunnerStays /\ HubStays /\ done' = done
         \/ HearsEnd /\ RunnerStays /\ HubStays /\ queue' = queue
         \/ (HearsReady \/ HearsError \/ HearsStray \/ HearsCall) /\ RunnerStays /\ TurnStays
         \/ Dies /\ TurnStays
         \/ (RunnerStarts \/ StartFails \/ Garbage \/ Emits \/ CallsTool) /\ TurnStays
         \/ (\E ok \in BOOLEAN : RuntimeEnds(ok)) /\ TurnStays
         \/ ReadsRun /\ TurnStays
         \/ /\ TurnStays /\ up' = up /\ sent' = sent /\ ranOk' = ranOk /\ runner'.current = runner.current
            /\ runner.is = "gone" => runner'.is = "gone"
<1> USE DEF Inv
<1>1. hub.at = "running"
  BY DEF SessionTyped
<1>2. ~SendRun /\ ~Begin /\ ~CellReady
  BY <1>1 DEF SendRun, Begin, CellReady
<1>3. CASE Records
  BY <1>3 DEF Records, cell, RunnerStays
<1>4. CASE HearsEvent \/ HearsEnd
  BY <1>4 DEF HearsEvent, HearsEnd, daemon, cell, RunnerStays, HubStays
<1>5. CASE HearsReady \/ HearsError \/ HearsStray \/ HearsCall
  BY <1>5 DEF HearsReady, HearsError, HearsStray, HearsCall, Fail, Ended, daemon, cell, RunnerStays, TurnStays, HubStays
<1>6. CASE Dies
  BY <1>6 DEF Dies, daemon, ends, TurnStays, HubStays
<1>7. CASE RunnerStarts \/ StartFails \/ Garbage \/ Emits \/ CallsTool
  BY <1>7 DEF RunnerStarts, StartFails, Garbage, Emits, CallsTool, daemon, ends, TurnStays, HubStays
<1>8. CASE \E ok \in BOOLEAN : RuntimeEnds(ok)
  BY <1>8 DEF RuntimeEnds, daemon, ends, TurnStays, HubStays
<1>9. CASE ReadsRun
  BY <1>9 DEF ReadsRun, daemon, ends, TurnStays, HubStays
<1>10. CASE OnExit \/ ReadyTimeout \/ SessionTimer \/ HubTimer \/ Abort
  <2>1. HubStays /\ queue' = queue
    BY <1>10 DEF OnExit, ReadyTimeout, SessionTimer, HubTimer, Abort, Fail, daemon, ends, HubStays
  <2>2. done' = done \/ done' = "reason"
    BY <1>10 DEF OnExit, ReadyTimeout, SessionTimer, HubTimer, Abort, Fail, Ended, ExitTold, ends
  <2>3. up' = up /\ sent' = sent /\ ranOk' = ranOk /\ runner' = runner
    BY <1>10 DEF OnExit, ReadyTimeout, SessionTimer, HubTimer, Abort, cell
  <2> QED
    BY <2>1, <2>2, <2>3 DEF TurnStays
<1>11. CASE (\E call \in Calls : HandlerAnswers(call)) \/ KillerFires \/ CloseIdle \/ Close
  <2>1. HubStays /\ queue' = queue /\ done' = done
    BY <1>11 DEF HandlerAnswers, KillerFires, CloseIdle, Close, daemon, ends, HubStays
  <2>2. up' = up /\ sent' = sent /\ ranOk' = ranOk /\ runner' = runner
    BY <1>11 DEF HandlerAnswers, KillerFires, CloseIdle, Close, cell
  <2> QED
    BY <2>1, <2>2 DEF TurnStays
<1>12. CASE ReadsCancel \/ ReadsResponse \/ InputEnds
  <2>1. HubStays /\ queue' = queue /\ done' = done
    BY <1>12 DEF ReadsCancel, ReadsResponse, InputEnds, daemon, ends, HubStays
  <2>2. up' = up /\ sent' = sent /\ ranOk' = ranOk
    BY <1>12 DEF ReadsCancel, ReadsResponse, InputEnds
  <2>3. runner'.current = runner.current /\ (runner.is = "gone" => runner'.is = "gone")
    BY <1>12 DEF ReadsCancel, ReadsResponse, InputEnds, CallsTyped
  <2> QED
    BY <2>1, <2>2, <2>3 DEF TurnStays
<1> QED
  BY <1>2, <1>3, <1>4, <1>5, <1>6, <1>7, <1>8, <1>9, <1>10, <1>11, <1>12 DEF Next, SessionSteps, HubSteps, RunnerReads

\* No event of the turn in progress is lost or counted twice.
LEMMA WholeNext ==
  ASSUME Inv, Next
  PROVE  Whole'
<1> USE DEF Inv
<1>1. /\ Turns \subseteq Nat /\ NoTurn \notin Turns /\ PipesTyped /\ up \in Seq(UpFrames) /\ down \in Seq(DownFrames)
      /\ runner.current # NoTurn => runner.current \in Turns
      /\ queue \in Seq(BOOLEAN) /\ Len(queue) \in Nat
  BY ChannelAssumption DEF Turns, NoTurn, PipesTyped, CallsTyped, SessionTyped
<1>2. CASE SendRun
  <2>1. CASE session.current = NoTurn /\ ~session.closed
    <3> DEFINE t == hub.turn
    <3>1. /\ hub.at = "input" /\ t \in Turns /\ session'.current = t /\ done' = "no" /\ queue' = queue
          /\ recorded' = recorded /\ hub'.turn = hub.turn
      BY <1>2, <2>1, RunBegins
    <3>2. up' = up /\ runner' = runner /\ sent' = sent
      BY <1>2 DEF SendRun, cell
    <3>3. queue = <<>> /\ Len(queue) = 0
      BY <2>1 DEF SessionTyped
    <3>4. Begun = t - 1 /\ t \in Nat
      BY <1>1, <3>1 DEF Begun
    <3>5. recorded[t] = 0 /\ sent[t] = 0
      BY <3>1, <3>4 DEF Later
    <3>6. Events(t) = {}
      <4>1. \A i \in DOMAIN up : OfTurn(up[i]) => up[i].turn # t
        BY <3>4 DEF Later
      <4> QED
        BY <4>1 DEF Events, EventsIn, OfTurn
    <3>7. Cardinality(Events(t)) = 0
      BY <3>6, FS_EmptySet
    <3>8. (recorded[t] + Len(queue) + Cardinality(Events(t)) = sent[t])'
      BY <3>1, <3>2, <3>3, <3>5, <3>7 DEF Events
    <3> QED
      BY <3>1, <3>8 DEF Whole
  <2>2. CASE ~(session.current = NoTurn /\ ~session.closed)
    <3>1. session.current = NoTurn
      BY <1>2 DEF SendRun, SessionTyped
    <3> QED
      BY <1>2, <2>2, <3>1, RunFails DEF Whole
  <2> QED
    BY <2>1, <2>2
<1>3. CASE RunEnds
  <2>1. session' = [session EXCEPT !.current = NoTurn]
    BY <1>3 DEF RunEnds
  <2> QED
    BY <2>1 DEF Whole, SessionTyped
<1>4. CASE session.current = NoTurn /\ ~SendRun /\ ~RunEnds
  BY <1>4, SessionKeeps DEF Whole
<1>5. ASSUME session.current # NoTurn, ~SendRun, ~RunEnds, NEW t, t = session.current,
             ((runner'.is # "gone" /\ runner'.current = t) \/ EndComes(session.current)' \/ done' = "ended")
      PROVE  recorded'[t] + Len(queue') + Cardinality(Events(session.current)') = sent'[t]
  <2> DEFINE N  == Cardinality(Events(t))
             Ends == EndComes(t)
             Cond == (runner.is # "gone" /\ runner.current = t) \/ Ends \/ done = "ended"
  <2>1. /\ hub.at = "running" /\ hub.turn = t /\ t \in Turns /\ recorded[t] \in Nat /\ sent[t] \in Nat
        /\ session'.current = t /\ recorded \in [Turns -> Nat] /\ sent \in [Turns -> Nat]
    <3>1. hub.at = "running" /\ hub.turn = t
      BY <1>5 DEF SessionTyped
    <3>2. t \in Turns
      BY <3>1, ChannelAssumption DEF HubTyped, Turns, NoTurn
    <3>3. session'.current = t
      BY <1>5, SessionKeeps
    <3> QED
      BY <3>1, <3>2, <3>3 DEF HubTyped
  <2>2. Cond => recorded[t] + Len(queue) + N = sent[t]
    BY <1>5 DEF Whole
  <2>3. N \in Nat
    BY <1>1, EventsFinite DEF Events
  <2>4. Events(session.current)' = EventsIn(up', t) /\ Events(t) = EventsIn(up, t)
    BY <2>1 DEF Events
  <2>5. EndComes(session.current)' = \E i \in DOMAIN up' : up'[i].type = "turn.end" /\ up'[i].turn = t
    BY <2>1 DEF EndComes
  <2>6. (runner'.is # "gone" /\ runner'.current = t) \/ (\E i \in DOMAIN up' : up'[i].type = "turn.end" /\ up'[i].turn = t) \/ done' = "ended"
    BY <1>5, <2>5
  <2>7. SUFFICES recorded'[t] + Len(queue') + Cardinality(EventsIn(up', t)) = sent'[t]
    BY <2>4
  <2>8. ASSUME Cond, recorded'[t] = recorded[t], Len(queue') = Len(queue), Cardinality(EventsIn(up', t)) = N, sent'[t] = sent[t]
        PROVE  recorded'[t] + Len(queue') + Cardinality(EventsIn(up', t)) = sent'[t]
    BY <2>2, <2>8
  <2>9. Ends <=> \E i \in DOMAIN up : up[i].type = "turn.end" /\ up[i].turn = t
    BY DEF EndComes
  <2>10. N = Cardinality(EventsIn(up, t))
    BY <2>4
  <2> HIDE DEF N, Ends
  <2>11. CASE Records /\ RunnerStays /\ up' = up /\ done' = done
    <3>1. Cond
      BY <2>6, <2>9, <2>11 DEF RunnerStays
    <3>2. recorded'[t] = recorded[t] + 1 /\ Len(queue') = Len(queue) - 1
      <4>1. queue # <<>> /\ queue' = Tail(queue)
        BY <2>11 DEF Records
      <4>2. Len(queue') = Len(queue) - 1
        BY <1>1, <4>1
      <4>3. recorded' = [recorded EXCEPT ![t] = recorded[t] + 1]
        BY <2>1, <2>11 DEF Records
      <4> QED
        BY <2>1, <4>2, <4>3
    <3>3. sent' = sent
      BY <2>11 DEF RunnerStays
    <3> QED
      BY <1>1, <2>1, <2>2, <2>3, <2>10, <2>11, <3>1, <3>2, <3>3
  <2>12. ASSUME up # <<>>, up' = Tail(up), runner' = runner, done' = "ended" => (done = "ended" \/ HearsEnd)
         PROVE  /\ Cond
                /\ N = Cardinality(EventsIn(up', t)) + (IF Head(up).type = "event" /\ Head(up).turn = t THEN 1 ELSE 0)
                /\ Cardinality(EventsIn(up', t)) \in Nat
    <3>1. Head(up) = up[1] /\ 1 \in DOMAIN up /\ Tail(up) \in Seq(UpFrames)
      BY <1>1, <2>12, TailIs
    <3>2. HearsEnd => Ends
      <4>1. HearsEnd => Head(up).type = "turn.end" /\ Head(up).turn = t
        BY <1>5 DEF HearsEnd, Heard, InTurn
      <4> QED
        BY <2>9, <3>1, <4>1
    <3>3. ASSUME NEW i \in DOMAIN up', up'[i].type = "turn.end", up'[i].turn = t PROVE Ends
      <4>1. i + 1 \in DOMAIN up /\ up'[i] = up[i + 1]
        BY <1>1, <2>12, TailIs
      <4> QED
        BY <2>9, <3>3, <4>1
    <3> QED
      BY <1>1, <2>6, <2>10, <2>12, <3>1, <3>2, <3>3, EventsTail, EventsFinite
  <2>13. CASE HearsEvent /\ RunnerStays /\ HubStays /\ done' = done
    <3>1. /\ up # <<>> /\ up' = Tail(up) /\ Head(up).type = "event" /\ Head(up).turn = t
          /\ queue' = Append(queue, Head(up).fatal)
      BY <1>5, <2>13 DEF HearsEvent, Heard, InTurn
    <3>2. Len(queue') = Len(queue) + 1
      BY <1>1, <3>1
    <3>3. runner' = runner /\ sent' = sent /\ recorded' = recorded /\ done' = done
      BY <2>13 DEF RunnerStays, HubStays
    <3>4. Cond /\ N = Cardinality(EventsIn(up', t)) + 1 /\ Cardinality(EventsIn(up', t)) \in Nat
      BY <2>12, <3>1, <3>3
    <3> QED
      BY <1>1, <2>1, <2>2, <3>2, <3>3, <3>4
  <2>14. CASE HearsEnd /\ RunnerStays /\ HubStays /\ queue' = queue
    <3>1. up # <<>> /\ up' = Tail(up) /\ Head(up).type = "turn.end"
      BY <2>14 DEF HearsEnd, Heard
    <3>2. runner' = runner /\ sent' = sent /\ recorded' = recorded
      BY <2>14 DEF RunnerStays, HubStays
    <3>3. Cond /\ N = Cardinality(EventsIn(up', t)) + 0 /\ Cardinality(EventsIn(up', t)) \in Nat
      BY <2>12, <2>14, <3>1, <3>2
    <3> QED
      BY <2>8, <2>14, <3>2, <3>3
  <2>15. CASE (HearsReady \/ HearsError \/ HearsStray \/ HearsCall) /\ RunnerStays /\ TurnStays
    <3>1. up # <<>> /\ up' = Tail(up) /\ ~(Head(up).type = "event" /\ Head(up).turn = t)
      BY <1>5, <2>15 DEF HearsReady, HearsError, HearsStray, HearsCall, Heard, InTurn
    <3>2. runner' = runner /\ sent' = sent /\ recorded' = recorded /\ queue' = queue /\ (done' = "ended" => done = "ended")
      BY <2>15 DEF RunnerStays, HubStays, TurnStays
    <3>3. Cond /\ N = Cardinality(EventsIn(up', t)) + 0 /\ Cardinality(EventsIn(up', t)) \in Nat
      BY <2>12, <3>1, <3>2
    <3> QED
      BY <2>8, <3>2, <3>3
  <2>16. CASE Dies /\ TurnStays
    <3>1. up' = <<>> /\ runner' = [runner EXCEPT !.is = "gone"] /\ sent' = sent
      BY <2>16 DEF Dies
    <3>2. runner'.is = "gone" /\ DOMAIN up' = {}
      BY <3>1 DEF CallsTyped
    <3>3. done = "ended" /\ recorded' = recorded /\ queue' = queue
      BY <2>6, <2>16, <3>2 DEF TurnStays, HubStays
    <3>4. EventsIn(up, t) = {} /\ EventsIn(up', t) = {}
      BY <1>5, <3>2, <3>3 DEF EndHeard, Silent, EventsIn, OfTurn
    <3> QED
      BY <2>8, <2>10, <3>1, <3>3, <3>4
  <2>17. ASSUME TurnStays, NEW f \in UpFrames, up' = Append(up, f), NEW d \in {0, 1},
                d = (IF f.type = "event" /\ f.turn = t THEN 1 ELSE 0), sent'[t] = sent[t] + d,
                runner'.is # "gone" /\ runner'.current = t => runner.is # "gone" /\ runner.current = t,
                (f.type = "turn.end" \/ f.type = "event") /\ f.turn = t => runner.is # "gone" /\ runner.current = t
         PROVE  recorded'[t] + Len(queue') + Cardinality(EventsIn(up', t)) = sent'[t]
    <3>1. Cardinality(EventsIn(up', t)) = N + d
      BY <1>1, <2>10, <2>17, EventsAppend
    <3>2. recorded' = recorded /\ queue' = queue /\ (done' = "ended" => done = "ended")
      BY <2>17 DEF TurnStays, HubStays
    <3>3. ASSUME NEW i \in DOMAIN up', up'[i].type = "turn.end", up'[i].turn = t
          PROVE  Ends \/ (runner.is # "gone" /\ runner.current = t)
      <4>1. (i \in DOMAIN up /\ up'[i] = up[i]) \/ up'[i] = f
        BY <1>1, <2>17, AppendIs
      <4> QED
        BY <2>9, <2>17, <3>3, <4>1
    <3>4. Cond
      BY <2>6, <2>17, <3>2, <3>3
    <3> QED
      BY <1>1, <2>1, <2>2, <2>3, <2>17, <3>1, <3>2, <3>4
  <2>18. CASE (RunnerStarts \/ StartFails \/ Garbage) /\ TurnStays
    <3>1. PICK f \in {[type |-> "ready"], [type |-> "error"]} : up' = up \o <<f>>
      BY <2>18 DEF RunnerStarts, StartFails, Garbage, Says
    <3>2. f \in UpFrames /\ f.type # "event" /\ f.type # "turn.end"
      BY FramesTyped
    <3>3. up' = Append(up, f)
      BY <1>1, <3>1, <3>2, AppendIs
    <3>4. runner'.is # "gone" => runner.is # "gone" /\ runner'.current = runner.current
      BY <2>18 DEF RunnerStarts, StartFails, Garbage, CallsTyped, Runs, cell
    <3>5. sent' = sent
      BY <2>18 DEF RunnerStarts, StartFails, Garbage, cell
    <3>6. sent'[t] = sent[t] + 0
      BY <2>1, <3>5
    <3> QED
      BY <2>17, <2>18, <3>2, <3>3, <3>4, <3>6
  <2>19. CASE Emits /\ TurnStays
    <3> DEFINE f == [type |-> "event", turn |-> runner.current, fatal |-> FALSE]
               d == IF f.type = "event" /\ f.turn = t THEN 1 ELSE 0
    <3>1. runner.is = "up" /\ runner.current \in Turns /\ runner' = runner /\ up' = up \o <<f>> /\ sent' = Counted(runner.current)
      BY <1>1, <2>19 DEF Emits, Says, Event, Runs
    <3>2. f \in UpFrames
      BY <3>1, FramesTyped
    <3>3. up' = Append(up, f)
      BY <1>1, <3>1, <3>2, AppendIs
    <3>4. d \in {0, 1} /\ sent'[t] = sent[t] + d
      BY <2>1, <3>1 DEF Counted
    <3>5. f.turn = t => runner.is # "gone" /\ runner.current = t
      BY <3>1
    <3> HIDE DEF f
    <3> QED
      BY <2>17, <2>19, <3>1, <3>2, <3>3, <3>4, <3>5
  <2>20. CASE CallsTool /\ TurnStays
    <3> DEFINE f == [type |-> "tool.request", turn |-> runner.current, id |-> NextCall]
    <3>1. /\ runner.is = "up" /\ runner.current \in Turns /\ up' = up \o <<f>> /\ sent' = sent
          /\ runner.nextCall \in Nat /\ runner.nextCall < MaxCalls /\ MaxCalls \in Nat
      BY <1>1, <2>20, ChannelAssumption DEF CallsTool, MayCall, Says, Runs, CallsTyped
    <3>2. f \in UpFrames /\ f.type # "event" /\ f.type # "turn.end"
      BY <3>1, FramesTyped DEF NextCall
    <3>3. runner'.current = runner.current /\ runner'.is = runner.is
      BY <2>20 DEF CallsTool, CallsTyped
    <3> HIDE DEF f
    <3>4. up' = Append(up, f)
      BY <1>1, <3>1, <3>2, AppendIs
    <3>5. sent'[t] = sent[t] + 0
      BY <2>1, <3>1
    <3> QED
      BY <2>17, <2>20, <3>2, <3>3, <3>4, <3>5
  <2>21. CASE RuntimeEnds(TRUE) /\ TurnStays
    <3> DEFINE f == [type |-> "turn.end", turn |-> runner.current]
    <3>1. runner.is = "up" /\ runner.current \in Turns /\ up' = up \o <<f>> /\ sent' = sent /\ runner' = [runner EXCEPT !.current = NoTurn]
      BY <1>1, <2>21 DEF RuntimeEnds, Says, End, Runs
    <3>2. f \in UpFrames /\ f.type # "event" /\ f.turn = runner.current
      BY <3>1, FramesTyped
    <3>3. runner'.current # t
      BY <1>1, <2>1, <3>1 DEF CallsTyped
    <3> HIDE DEF f
    <3>4. up' = Append(up, f)
      BY <1>1, <3>1, <3>2, AppendIs
    <3>5. sent'[t] = sent[t] + 0
      BY <2>1, <3>1
    <3> QED
      BY <2>17, <2>21, <3>1, <3>2, <3>3, <3>4, <3>5
  <2>22. ASSUME NEW u \in Turns, TurnStays, sent' = Counted(u),
                up' = Append(Append(up, [type |-> "event", turn |-> u, fatal |-> TRUE]), [type |-> "turn.end", turn |-> u]),
                runner'.is # "gone" /\ runner'.current = t => runner.is # "gone" /\ runner.current = t,
                u = t => recorded[t] + Len(queue) + N = sent[t]
         PROVE  recorded'[t] + Len(queue') + Cardinality(EventsIn(up', t)) = sent'[t]
    <3> DEFINE e == [type |-> "event", turn |-> u, fatal |-> TRUE]
               f == [type |-> "turn.end", turn |-> u]
    <3>1. e \in UpFrames /\ e.type = "event" /\ e.turn = u /\ f \in UpFrames /\ f.type = "turn.end" /\ f.turn = u
      BY FramesTyped
    <3>2. up' = Append(Append(up, e), f)
      BY <2>22
    <3> HIDE DEF e, f
    <3>3. Append(up, e) \in Seq(UpFrames)
      BY <1>1, <3>1, AppendIs
    <3>4. Cardinality(EventsIn(Append(up, e), t)) = N + (IF u = t THEN 1 ELSE 0)
      BY <1>1, <2>10, <3>1, EventsAppend
    <3>5. Cardinality(EventsIn(up', t)) = Cardinality(EventsIn(Append(up, e), t)) + 0
      BY <3>1, <3>2, <3>3, EventsAppend
    <3>6. recorded' = recorded /\ queue' = queue /\ (done' = "ended" => done = "ended")
      BY <2>22 DEF TurnStays, HubStays
    <3>7. sent'[t] = sent[t] + (IF u = t THEN 1 ELSE 0)
      BY <2>1, <2>22 DEF Counted
    <3>8. recorded[t] + Len(queue) + N = sent[t]
      <4>1. ASSUME u # t, NEW i \in DOMAIN up', up'[i].type = "turn.end", up'[i].turn = t PROVE Ends
        <5>1. i \in DOMAIN Append(up, e) /\ Append(up, e)[i] = up'[i]
          BY <3>1, <3>2, <3>3, <4>1, AppendIs
        <5>2. i \in DOMAIN up /\ up[i] = up'[i]
          BY <1>1, <3>1, <4>1, <5>1, AppendIs
        <5> QED
          BY <2>9, <4>1, <5>2
      <4>2. u # t => Cond
        BY <2>6, <2>22, <3>6, <4>1
      <4> QED
        BY <2>2, <2>22, <4>2
    <3> QED
      BY <1>1, <2>1, <2>3, <3>4, <3>5, <3>6, <3>7, <3>8
  <2>23. CASE RuntimeEnds(FALSE) /\ TurnStays
    <3>1. runner.is = "up" /\ runner.current \in Turns /\ sent' = Counted(runner.current) /\ runner' = [runner EXCEPT !.current = NoTurn]
      BY <1>1, <2>23 DEF RuntimeEnds, Runs
    <3>2. up' = up \o (Event(runner.current, TRUE) \o End(runner.current))
      BY <2>23 DEF RuntimeEnds, Says
    <3>3. up' = Append(Append(up, [type |-> "event", turn |-> runner.current, fatal |-> TRUE]), [type |-> "turn.end", turn |-> runner.current])
      <4> DEFINE e == [type |-> "event", turn |-> runner.current, fatal |-> TRUE]
                 f == [type |-> "turn.end", turn |-> runner.current]
      <4>1. e \in UpFrames /\ f \in UpFrames
        BY <3>1, FramesTyped
      <4>2. up' = up \o (<<e>> \o <<f>>)
        BY <3>2 DEF Event, End
      <4> HIDE DEF e, f
      <4>3. up' = Append(Append(up, e), f)
        BY <1>1, <4>1, <4>2
      <4> QED
        BY <4>3 DEF e, f
    <3>4. runner'.current # t
      BY <1>1, <2>1, <3>1 DEF CallsTyped
    <3>5. runner.current = t => recorded[t] + Len(queue) + N = sent[t]
      BY <2>2, <3>1
    <3> QED
      BY <2>22, <2>23, <3>1, <3>3, <3>4, <3>5
  <2>24. CASE ReadsRun /\ TurnStays
    <3> DEFINE u == Head(down).turn
    <3>1. Head(down) = down[1] /\ 1 \in DOMAIN down /\ Head(down).type = "run" /\ u \in Turns
      BY <1>1, <2>24, ReadIs DEF ReadsRun
    <3>2. u = t => recorded[t] + Len(queue) + N = sent[t]
      <4>1. SUFFICES ASSUME u = t PROVE recorded[t] + Len(queue) + N = sent[t]
        OBVIOUS
      <4>2. Silent(t) /\ sent[t] = 0 /\ recorded[t] = 0 /\ queue = <<>>
        BY <1>5, <3>1, <4>1 DEF RunOnce
      <4>3. EventsIn(up, t) = {}
        BY <4>2 DEF Silent, EventsIn, OfTurn
      <4>4. N = 0 /\ Len(queue) = 0
        BY <2>10, <4>2, <4>3, FS_EmptySet
      <4> QED
        BY <4>2, <4>4
    <3>3. CASE runner.current # NoTurn
      <4>1. sent' = Counted(u) /\ runner' = runner /\ up' = up \o (Event(u, TRUE) \o End(u))
        BY <2>24, <3>3 DEF ReadsRun, Says
      <4>2. up' = Append(Append(up, [type |-> "event", turn |-> u, fatal |-> TRUE]), [type |-> "turn.end", turn |-> u])
        <5> DEFINE e == [type |-> "event", turn |-> u, fatal |-> TRUE]
                   f == [type |-> "turn.end", turn |-> u]
        <5>1. e \in UpFrames /\ f \in UpFrames
          BY <3>1, FramesTyped
        <5>2. up' = up \o (<<e>> \o <<f>>)
          BY <4>1 DEF Event, End
        <5> HIDE DEF e, f
        <5>3. up' = Append(Append(up, e), f)
          BY <1>1, <5>1, <5>2
        <5> QED
          BY <5>3 DEF e, f
      <4> HIDE DEF u
      <4> QED
        BY <2>22, <2>24, <3>1, <3>2, <4>1, <4>2
    <3>4. CASE runner.current = NoTurn
      <4>1. up' = up /\ sent' = sent /\ recorded' = recorded /\ queue' = queue /\ (done' = "ended" => done = "ended")
        BY <2>24, <3>4 DEF ReadsRun, TurnStays, HubStays
      <4>2. runner'.current = u /\ runner.is = "up"
        BY <2>24, <3>4 DEF ReadsRun, Read, Runs, CallsTyped
      <4>3. recorded[t] + Len(queue) + N = sent[t]
        <5>1. u = t \/ Cond
          BY <2>6, <2>9, <4>1, <4>2
        <5> QED
          BY <2>2, <3>2, <5>1
      <4> QED
        BY <2>10, <4>1, <4>3
    <3> QED
      BY <3>3, <3>4
  <2>25. CASE /\ TurnStays /\ up' = up /\ sent' = sent /\ ranOk' = ranOk /\ runner'.current = runner.current
              /\ runner.is = "gone" => runner'.is = "gone"
    <3>1. recorded' = recorded /\ queue' = queue /\ (done' = "ended" => done = "ended")
      BY <2>25 DEF TurnStays, HubStays
    <3>2. Cond
      BY <2>6, <2>9, <2>25, <3>1
    <3> QED
      BY <2>8, <2>10, <2>25, <3>1, <3>2
  <2>26. CASE (\E ok \in BOOLEAN : RuntimeEnds(ok)) /\ TurnStays
    <3>1. RuntimeEnds(TRUE) \/ RuntimeEnds(FALSE)
      BY <2>26
    <3> QED
      BY <2>21, <2>23, <2>26, <3>1
  <2> QED
    BY <1>5, <2>11, <2>13, <2>14, <2>15, <2>16, <2>18, <2>19, <2>20, <2>24, <2>25, <2>26, TurnMoves
<1>6. CASE session.current # NoTurn /\ ~SendRun /\ ~RunEnds
  <2>1. session'.current = session.current
    BY <1>6, SessionKeeps
  <2> QED
    BY <1>5, <1>6, <2>1 DEF Whole
<1> QED
  BY <1>2, <1>3, <1>4, <1>6

\* A turn that failed, and was not stopped, says so before its end is heard.
LEMMA EndTellsNext ==
  ASSUME Inv, Next
  PROVE  EndTells'
<1> USE DEF Inv
<1>1. /\ Turns \subseteq Nat /\ NoTurn \notin Turns /\ PipesTyped /\ up \in Seq(UpFrames) /\ down \in Seq(DownFrames)
      /\ runner.current # NoTurn => runner.current \in Turns
      /\ queue \in Seq(BOOLEAN) /\ Len(queue) \in Nat
  BY ChannelAssumption DEF Turns, NoTurn, PipesTyped, CallsTyped, SessionTyped
<1>2. CASE SendRun
  <2>1. CASE session.current = NoTurn /\ ~session.closed
    <3> DEFINE t == hub.turn
    <3>1. hub.at = "input" /\ t \in Turns /\ session'.current = t /\ done' = "no" /\ up' = up
      BY <1>2, <2>1, RunBegins DEF SendRun
    <3>2. Begun = t - 1 /\ t \in Nat
      BY <1>1, <3>1 DEF Begun
    <3>3. \A i \in DOMAIN up : up[i].type = "turn.end" => up[i].turn # t
      BY <3>2 DEF Later, OfTurn
    <3> QED
      BY <3>1, <3>3 DEF EndTells, EndComes
  <2>2. CASE ~(session.current = NoTurn /\ ~session.closed)
    <3>1. session.current = NoTurn
      BY <1>2 DEF SendRun, SessionTyped
    <3> QED
      BY <1>2, <2>2, <3>1, RunFails DEF EndTells
  <2> QED
    BY <2>1, <2>2
<1>3. CASE RunEnds
  <2>1. session' = [session EXCEPT !.current = NoTurn]
    BY <1>3 DEF RunEnds
  <2> QED
    BY <2>1 DEF EndTells, SessionTyped
<1>4. CASE session.current = NoTurn /\ ~SendRun /\ ~RunEnds
  BY <1>4, SessionKeeps DEF EndTells
<1>5. ASSUME session.current # NoTurn, ~SendRun, ~RunEnds, NEW t, t = session.current,
             (\E i \in DOMAIN up' : up'[i].type = "turn.end" /\ up'[i].turn = t) \/ done' = "ended"
      PROVE  \/ t \in ranOk' \/ hub'.aborted \/ hub'.timedOut
             \/ outcome'[t] = "failing" \/ (\E i \in DOMAIN queue' : queue'[i])
             \/ \E i \in DOMAIN up' : up'[i].type = "event" /\ up'[i].turn = t /\ up'[i].fatal
  <2> DEFINE Ends    == \E i \in DOMAIN up : up[i].type = "turn.end" /\ up[i].turn = t
             Lost    == \E i \in DOMAIN up : up[i].type = "event" /\ up[i].turn = t /\ up[i].fatal
             Lost2   == \E i \in DOMAIN up' : up'[i].type = "event" /\ up'[i].turn = t /\ up'[i].fatal
             Waits   == \E i \in DOMAIN queue : queue[i]
             Waits2  == \E i \in DOMAIN queue' : queue'[i]
             Goal    == \/ t \in ranOk' \/ hub'.aborted \/ hub'.timedOut
                        \/ outcome'[t] = "failing" \/ Waits2 \/ Lost2
  <2>1. /\ hub.at = "running" /\ hub.turn = t /\ t \in Turns /\ outcome \in [Turns -> {"none", "failing", "done", "failed", "cancelled"}]
    <3>1. hub.at = "running" /\ hub.turn = t
      BY <1>5 DEF SessionTyped
    <3>2. t \in Turns
      BY <3>1, ChannelAssumption DEF HubTyped, Turns, NoTurn
    <3> QED
      BY <3>1, <3>2 DEF HubTyped
  <2>2. (hub.aborted => hub'.aborted) /\ (hub.timedOut => hub'.timedOut)
    BY <1>5, <2>1, HubGoesOn DEF CellReady
  <2>3. t \in ranOk => t \in ranOk'
    BY CountsGoOn
  <2>4. Ends \/ done = "ended" => t \in ranOk \/ outcome[t] = "failing" \/ Waits \/ Lost \/ hub.aborted \/ hub.timedOut
    BY <1>5 DEF EndTells, EndComes, Fatal
  <2>5. SUFFICES Goal
    OBVIOUS
  <2>6. ASSUME TurnStays, \A i \in DOMAIN up : i \in DOMAIN up' /\ up'[i] = up[i],
               Ends \/ done = "ended"
        PROVE  Goal
    <3>1. Lost => Lost2
      BY <2>6
    <3>2. outcome' = outcome /\ queue' = queue
      BY <2>6 DEF TurnStays, HubStays
    <3> HIDE DEF Lost, Lost2
    <3> QED
      BY <2>2, <2>3, <2>4, <2>6, <3>1, <3>2
  <2>7. CASE Records /\ RunnerStays /\ up' = up /\ done' = done
    <3>1. queue # <<>> /\ queue' = Tail(queue) /\ outcome' = IF Head(queue) THEN [outcome EXCEPT ![t] = "failing"] ELSE outcome
      BY <2>1, <2>7 DEF Records
    <3>2. Waits => Waits2 \/ outcome'[t] = "failing"
      <4>1. ASSUME NEW i \in DOMAIN queue, queue[i] PROVE Waits2 \/ outcome'[t] = "failing"
        <5>1. CASE i = 1
          <6>1. Head(queue) = queue[1]
            BY <1>1, <3>1, TailIs
          <6> QED
            BY <2>1, <3>1, <4>1, <5>1, <6>1
        <5>2. CASE i # 1
          <6>1. i - 1 \in DOMAIN queue' /\ queue'[i - 1] = queue[i]
            BY <1>1, <3>1, <5>2, TailIs
          <6> QED
            BY <4>1, <6>1
        <5> QED
          BY <5>1, <5>2
      <4> QED
        BY <4>1
    <3>3. outcome[t] = "failing" => outcome'[t] = "failing"
      BY <2>1, <3>1
    <3>4. Ends \/ done = "ended"
      BY <1>5, <2>7
    <3>5. Lost => Lost2
      BY <2>7
    <3> HIDE DEF Ends, Lost, Lost2, Waits, Waits2
    <3> QED
      BY <2>2, <2>3, <2>4, <3>2, <3>3, <3>4, <3>5
  <2>8. ASSUME up # <<>>, up' = Tail(up)
        PROVE  /\ Head(up) = up[1] /\ 1 \in DOMAIN up
               /\ (\E i \in DOMAIN up' : up'[i].type = "turn.end" /\ up'[i].turn = t) => Ends
               /\ Lost => Lost2 \/ (Head(up).type = "event" /\ Head(up).turn = t /\ Head(up).fatal)
    <3>1. /\ Head(up) = up[1] /\ 1 \in DOMAIN up
          /\ \A i \in DOMAIN up' : i + 1 \in DOMAIN up /\ up'[i] = up[i + 1]
          /\ \A i \in DOMAIN up : i # 1 => i - 1 \in DOMAIN up' /\ up'[i - 1] = up[i]
      BY <1>1, <2>8, TailIs
    <3> QED
      BY <3>1
  <2>9. CASE HearsEvent /\ RunnerStays /\ HubStays /\ done' = done
    <3>1. up # <<>> /\ up' = Tail(up) /\ Head(up).type = "event" /\ queue' = Append(queue, Head(up).fatal)
      BY <2>9 DEF HearsEvent, Heard
    <3>2. Head(up).fatal \in BOOLEAN
      <4>1. Head(up) \in UpFrames
        BY <1>1, <3>1, TailIs
      <4> QED
        BY <3>1, <4>1, UpFramesAre
    <3>3. /\ \A i \in DOMAIN queue : i \in DOMAIN queue' /\ queue'[i] = queue[i]
          /\ Len(queue) + 1 \in DOMAIN queue' /\ queue'[Len(queue) + 1] = Head(up).fatal
      BY <1>1, <3>1, <3>2, AppendIs
    <3>4. (Waits => Waits2) /\ (Head(up).fatal => Waits2)
      BY <3>3
    <3>5. outcome' = outcome
      BY <2>9 DEF HubStays
    <3>6. (Ends \/ done = "ended") /\ (Lost => Lost2 \/ Waits2)
      BY <1>5, <2>8, <2>9, <3>1, <3>4
    <3> HIDE DEF Ends, Lost, Lost2, Waits, Waits2
    <3> QED
      BY <2>2, <2>3, <2>4, <3>4, <3>5, <3>6
  <2>10. CASE HearsEnd /\ RunnerStays /\ HubStays /\ queue' = queue
    <3>1. up # <<>> /\ up' = Tail(up) /\ Head(up).type = "turn.end" /\ Head(up).turn = t
      BY <1>5, <2>10 DEF HearsEnd, Heard, InTurn
    <3>2. Ends /\ (Lost => Lost2)
      BY <2>8, <3>1
    <3>3. outcome' = outcome /\ (Waits => Waits2)
      BY <2>10 DEF HubStays
    <3> HIDE DEF Ends, Lost, Lost2, Waits, Waits2
    <3> QED
      BY <2>2, <2>3, <2>4, <3>2, <3>3
  <2>11. CASE (HearsReady \/ HearsError \/ HearsStray \/ HearsCall) /\ RunnerStays /\ TurnStays
    <3>1. up # <<>> /\ up' = Tail(up) /\ ~(Head(up).type = "event" /\ Head(up).turn = t)
      BY <1>5, <2>11 DEF HearsReady, HearsError, HearsStray, HearsCall, Heard, InTurn
    <3>2. outcome' = outcome /\ (Waits => Waits2) /\ (done' = "ended" => done = "ended")
      BY <2>11 DEF TurnStays, HubStays
    <3>3. (Ends \/ done = "ended") /\ (Lost => Lost2)
      BY <1>5, <2>8, <3>1, <3>2
    <3> HIDE DEF Ends, Lost, Lost2, Waits, Waits2
    <3> QED
      BY <2>2, <2>3, <2>4, <3>2, <3>3
  <2>12. CASE Dies /\ TurnStays
    <3>1. up' = <<>> /\ ranOk' = ranOk
      BY <2>12 DEF Dies
    <3>2. done = "ended" /\ outcome' = outcome /\ queue' = queue
      BY <1>5, <2>12, <3>1 DEF TurnStays, HubStays
    <3>3. ~Lost
      BY <1>5, <3>2 DEF EndHeard, Silent, OfTurn
    <3>4. Waits => Waits2
      BY <3>2
    <3> HIDE DEF Ends, Lost, Lost2, Waits, Waits2
    <3> QED
      BY <2>2, <2>3, <2>4, <3>2, <3>3, <3>4
  <2>13. ASSUME TurnStays, NEW f \in UpFrames, up' = Append(up, f), ~(f.type = "turn.end" /\ f.turn = t)
         PROVE  Goal
    <3>1. /\ \A i \in DOMAIN up : i \in DOMAIN up' /\ up'[i] = up[i]
          /\ \A i \in DOMAIN up' : up'[i] = f \/ (i \in DOMAIN up /\ up'[i] = up[i])
      BY <1>1, <2>13, AppendIs
    <3>2. done' = "ended" => done = "ended"
      BY <2>13 DEF TurnStays
    <3>3. Ends \/ done = "ended"
      BY <1>5, <2>13, <3>1, <3>2
    <3> HIDE DEF Goal
    <3> QED
      BY <2>6, <2>13, <3>1, <3>3
  <2>14. CASE (RunnerStarts \/ StartFails \/ Garbage) /\ TurnStays
    <3>1. PICK f \in {[type |-> "ready"], [type |-> "error"]} : up' = up \o <<f>>
      BY <2>14 DEF RunnerStarts, StartFails, Garbage, Says
    <3>2. f \in UpFrames /\ f.type # "turn.end"
      BY FramesTyped
    <3>3. up' = Append(up, f)
      BY <1>1, <3>1, <3>2, AppendIs
    <3> QED
      BY <2>13, <2>14, <3>2, <3>3
  <2>15. CASE Emits /\ TurnStays
    <3> DEFINE f == [type |-> "event", turn |-> runner.current, fatal |-> FALSE]
    <3>1. runner.current \in Turns /\ up' = up \o <<f>>
      BY <1>1, <2>15 DEF Emits, Says, Event
    <3>2. f \in UpFrames /\ f.type # "turn.end"
      BY <3>1, FramesTyped
    <3> HIDE DEF f
    <3>3. up' = Append(up, f)
      BY <1>1, <3>1, <3>2, AppendIs
    <3> QED
      BY <2>13, <2>15, <3>2, <3>3
  <2>16. CASE CallsTool /\ TurnStays
    <3> DEFINE f == [type |-> "tool.request", turn |-> runner.current, id |-> NextCall]
    <3>1. /\ runner.current \in Turns /\ up' = up \o <<f>>
          /\ runner.nextCall \in Nat /\ runner.nextCall < MaxCalls /\ MaxCalls \in Nat
      BY <1>1, <2>16, ChannelAssumption DEF CallsTool, MayCall, Says, CallsTyped
    <3>2. f \in UpFrames /\ f.type # "turn.end"
      BY <3>1, FramesTyped DEF NextCall
    <3> HIDE DEF f
    <3>3. up' = Append(up, f)
      BY <1>1, <3>1, <3>2, AppendIs
    <3> QED
      BY <2>13, <2>16, <3>2, <3>3
  <2>17. CASE RuntimeEnds(TRUE) /\ TurnStays
    <3> DEFINE f == [type |-> "turn.end", turn |-> runner.current]
    <3>1. /\ runner.current \in Turns /\ up' = up \o <<f>>
          /\ ranOk' = IF ~runner.aborted THEN ranOk \cup {runner.current} ELSE ranOk
      BY <1>1, <2>17 DEF RuntimeEnds, Says, End
    <3>2. f \in UpFrames /\ f.turn = runner.current
      BY <3>1, FramesTyped
    <3> HIDE DEF f
    <3>3. up' = Append(up, f)
      BY <1>1, <3>1, <3>2, AppendIs
    <3>4. CASE runner.current # t
      BY <2>13, <2>17, <3>2, <3>3, <3>4
    <3>5. CASE runner.current = t
      <4>1. runner.aborted => hub.aborted \/ hub.timedOut
        BY <1>1, <2>1, <3>1, <3>5 DEF Stopped, Told
      <4> QED
        BY <2>2, <3>1, <3>5, <4>1
    <3> QED
      BY <3>4, <3>5
  <2>18. ASSUME NEW u \in Turns, TurnStays, up' = up \o (Event(u, TRUE) \o End(u))
         PROVE  Goal
    <3> DEFINE e == [type |-> "event", turn |-> u, fatal |-> TRUE]
               f == [type |-> "turn.end", turn |-> u]
    <3>1. e \in UpFrames /\ e.type = "event" /\ e.turn = u /\ e.fatal /\ f \in UpFrames /\ f.turn = u
      BY FramesTyped
    <3>2. up' = up \o (<<e>> \o <<f>>)
      BY <2>18 DEF Event, End
    <3> HIDE DEF e, f
    <3>3. up' = Append(Append(up, e), f) /\ Append(up, e) \in Seq(UpFrames)
      BY <1>1, <3>1, <3>2
    <3>4. /\ \A i \in DOMAIN up : i \in DOMAIN Append(up, e) /\ Append(up, e)[i] = up[i]
          /\ Len(up) + 1 \in DOMAIN Append(up, e) /\ Append(up, e)[Len(up) + 1] = e
          /\ \A i \in DOMAIN Append(up, e) : i \in DOMAIN up \/ i = Len(up) + 1
      BY <1>1, <3>1, AppendIs
    <3>5. /\ \A i \in DOMAIN Append(up, e) : i \in DOMAIN up' /\ up'[i] = Append(up, e)[i]
          /\ \A i \in DOMAIN up' : up'[i] = f \/ (i \in DOMAIN Append(up, e) /\ up'[i] = Append(up, e)[i])
      BY <1>1, <3>1, <3>3, AppendIs
    <3>6. CASE u = t
      <4>1. Len(up) + 1 \in DOMAIN up' /\ up'[Len(up) + 1] = e
        BY <3>4, <3>5
      <4>2. Lost2
        BY <3>1, <3>6, <4>1
      <4> QED
        BY <4>2
    <3>7. CASE u # t
      <4>1. \A i \in DOMAIN up : i \in DOMAIN up' /\ up'[i] = up[i]
        BY <3>4, <3>5
      <4>2. \A i \in DOMAIN up' : up'[i] = f \/ up'[i] = e \/ (i \in DOMAIN up /\ up'[i] = up[i])
        BY <3>4, <3>5
      <4>3. Ends \/ done = "ended"
        BY <1>5, <2>18, <3>1, <3>7, <4>2 DEF TurnStays
      <4> HIDE DEF Goal
      <4> QED
        BY <2>6, <2>18, <4>1, <4>3
    <3> QED
      BY <3>6, <3>7
  <2>19. CASE RuntimeEnds(FALSE) /\ TurnStays
    <3>1. runner.current \in Turns /\ up' = up \o (Event(runner.current, TRUE) \o End(runner.current))
      BY <1>1, <2>19 DEF RuntimeEnds, Says
    <3> QED
      BY <2>18, <2>19, <3>1
  <2>20. ASSUME TurnStays, up' = up
         PROVE  Goal
    <3>1. Ends \/ done = "ended"
      BY <1>5, <2>20 DEF TurnStays
    <3> HIDE DEF Goal
    <3> QED
      BY <2>6, <2>20, <3>1
  <2>21. CASE ReadsRun /\ TurnStays
    <3>1. Head(down).turn \in Turns
      BY <1>1, <2>21, ReadIs DEF ReadsRun
    <3>2. CASE runner.current # NoTurn
      <4>1. up' = up \o (Event(Head(down).turn, TRUE) \o End(Head(down).turn))
        BY <2>21, <3>2 DEF ReadsRun, Says
      <4> QED
        BY <2>18, <2>21, <3>1, <4>1
    <3>3. CASE runner.current = NoTurn
      <4>1. up' = up
        BY <2>21, <3>3 DEF ReadsRun
      <4> QED
        BY <2>20, <2>21, <4>1
    <3> QED
      BY <3>2, <3>3
  <2>22. CASE (\E ok \in BOOLEAN : RuntimeEnds(ok)) /\ TurnStays
    <3>1. RuntimeEnds(TRUE) \/ RuntimeEnds(FALSE)
      BY <2>22
    <3> QED
      BY <2>17, <2>19, <2>22, <3>1
  <2> HIDE DEF Goal
  <2> QED
    BY <1>5, <2>7, <2>9, <2>10, <2>11, <2>12, <2>14, <2>15, <2>16, <2>20, <2>21, <2>22, TurnMoves
<1>6. CASE session.current # NoTurn /\ ~SendRun /\ ~RunEnds
  <2>1. session'.current = session.current
    BY <1>6, SessionKeeps
  <2> QED
    BY <1>5, <1>6, <2>1 DEF EndTells, EndComes, Fatal
<1> QED
  BY <1>2, <1>3, <1>4, <1>6

\* A turn is finished as done when it is whole, and nothing is added to it.
LEMMA DoneStaysNext ==
  ASSUME Inv, Next
  PROVE  DoneStays'
<1> USE DEF Inv
<1>1. /\ Turns \subseteq Nat /\ NoTurn \notin Turns /\ PipesTyped /\ up \in Seq(UpFrames) /\ down \in Seq(DownFrames)
      /\ outcome \in [Turns -> {"none", "failing", "done", "failed", "cancelled"}]
      /\ recorded \in [Turns -> Nat] /\ sent \in [Turns -> Nat]
  BY ChannelAssumption DEF Turns, NoTurn, PipesTyped, HubTyped
<1>2. ASSUME NEW t \in Turns, outcome[t] = "done"
      PROVE  /\ t \in ranOk' /\ recorded'[t] = sent'[t]
             /\ session'.current # t /\ runner'.current # t /\ NotAsked(t)'
  <2>1. t \in ranOk /\ recorded[t] = sent[t] /\ session.current # t /\ runner.current # t /\ NotAsked(t)
    BY <1>2 DEF DoneStays
  <2>2. SendRun /\ session.current = NoTurn /\ ~session.closed => hub.turn # t
    <3>1. SUFFICES ASSUME SendRun, session.current = NoTurn, ~session.closed PROVE hub.turn # t
      OBVIOUS
    <3>2. hub.at = "input" /\ hub.turn \in Turns
      BY <3>1, RunBegins
    <3>3. Begun = hub.turn - 1 /\ hub.turn \in Nat
      BY <1>1, <3>2 DEF Begun
    <3>4. outcome[hub.turn] = "none"
      BY <3>2, <3>3 DEF Later
    <3> QED
      BY <1>2, <3>4
  <2>3. ReadsRun => Head(down).turn # t
    <3>1. ReadsRun => Head(down) = down[1] /\ 1 \in DOMAIN down /\ Head(down).type = "run"
      BY <1>1, ReadIs DEF ReadsRun
    <3> QED
      BY <2>1, <3>1 DEF NotAsked
  <2>4. session'.current # t
    <3>1. CASE SendRun
      BY <2>1, <2>2, <3>1, RunBegins, RunFails
    <3>2. CASE RunEnds
      <4>1. session' = [session EXCEPT !.current = NoTurn]
        BY <3>2 DEF RunEnds
      <4> QED
        BY <1>1, <4>1 DEF SessionTyped
    <3> QED
      BY <2>1, <3>1, <3>2, SessionKeeps
  <2>5. runner'.current # t
    BY <1>1, <2>1, <2>3, RunnerGoesOn
  <2>6. NotAsked(t)'
    <3>1. SUFFICES ASSUME NEW i \in DOMAIN down', down'[i].type = "run" PROVE down'[i].turn # t
      BY DEF NotAsked
    <3>2. \A call \in Calls : Response(call).type # "run"
      BY DEF Response
    <3> QED
      BY <2>1, <2>2, <3>1, <3>2, DownNews DEF NotAsked
  <2>7. t \in ranOk' /\ sent'[t] = sent[t]
    <3>1. \A u \in Turns : t # u => Counted(u)[t] = sent[t]
      BY <1>1 DEF Counted
    <3> QED
      BY <2>1, <2>3, <3>1, CountsGoOn
  <2>8. recorded'[t] = recorded[t]
    <3>1. Records => hub.turn # t
      BY <2>1 DEF Records, SessionTyped
    <3>2. Records => recorded'[t] = recorded[t]
      BY <1>1, <3>1 DEF Records
    <3> QED
      BY <3>2, HubGoesOn
  <2> QED
    BY <2>1, <2>4, <2>5, <2>6, <2>7, <2>8
<1>3. ASSUME NEW t \in Turns, outcome[t] # "done", outcome'[t] = "done"
      PROVE  /\ t \in ranOk' /\ recorded'[t] = sent'[t]
             /\ session'.current # t /\ runner'.current # t /\ NotAsked(t)'
  <2>1. RunEnds /\ hub.turn = t
    <3>1. Records => outcome'[t] # "done"
      BY <1>1, <1>3 DEF Records
    <3> QED
      BY <1>3, <3>1, HubGoesOn
  <2>2. /\ hub.at = "running" /\ queue = <<>> /\ done = "ended" /\ outcome[t] # "failing"
        /\ ~hub.aborted /\ ~hub.timedOut /\ recorded' = recorded /\ session' = [session EXCEPT !.current = NoTurn]
        /\ up' = up /\ down' = down /\ runner' = runner /\ sent' = sent /\ ranOk' = ranOk
    <3>1. /\ hub.at = "running" /\ queue = <<>> /\ session' = [session EXCEPT !.current = NoTurn]
          /\ up' = up /\ down' = down /\ runner' = runner /\ sent' = sent /\ ranOk' = ranOk
          /\ TurnOver(IF done = "ended" /\ outcome[hub.turn] # "failing" THEN "done" ELSE "failed", recorded)
      BY <2>1 DEF RunEnds, cell
    <3>2. PICK how \in {"done", "failed"} : /\ TurnOver(how, recorded)
                                            /\ how = "done" => done = "ended" /\ outcome[t] # "failing"
      BY <2>1, <3>1
    <3>3. /\ recorded' = recorded
          /\ outcome'[t] = IF hub.aborted THEN "cancelled" ELSE IF hub.timedOut THEN "failed" ELSE how
      BY <2>1, <3>1, <3>2, TurnOverIs
    <3> QED
      BY <1>3, <3>1, <3>2, <3>3
  <2>3. session.current = t
    BY <2>1, <2>2 DEF SessionTyped
  <2>4. session.current # NoTurn
    BY <1>1, <2>3
  <2>5. Silent(t) /\ runner.current # t
    BY <2>2, <2>3 DEF EndHeard
  <2>6. NotAsked(t)
    BY <2>2, <2>3 DEF RunOnce, NotAsked
  <2>7. t \in ranOk
    <3>1. ~Fatal(t)
      <4>1. ~\E i \in DOMAIN up : up[i].type = "event" /\ up[i].turn = t /\ up[i].fatal
        BY <2>5 DEF Silent, OfTurn
      <4>2. DOMAIN queue = {}
        BY <2>2
      <4> QED
        BY <2>2, <4>1, <4>2 DEF Fatal
    <3> QED
      BY <2>2, <2>3, <2>4, <3>1 DEF EndTells
  <2>8. recorded[t] = sent[t]
    <3>1. Events(t) = {}
      BY <2>5 DEF Events, EventsIn, Silent, OfTurn
    <3>2. Cardinality(Events(t)) = 0 /\ Len(queue) = 0
      BY <2>2, <3>1, FS_EmptySet
    <3>3. recorded[t] + Len(queue) + Cardinality(Events(t)) = sent[t]
      BY <2>2, <2>3, <2>4 DEF Whole
    <3> QED
      BY <1>1, <3>2, <3>3
  <2>9. session'.current # t
    BY <1>1, <2>2 DEF SessionTyped
  <2> QED
    BY <2>2, <2>5, <2>6, <2>7, <2>8, <2>9 DEF NotAsked
<1> QED
  BY <1>2, <1>3 DEF DoneStays

(***************************************************************************)
(* The two ends keep step.                                                 *)
(***************************************************************************)

\* Only a frame that is none, or the session's own timer, breaks the step.
LEMMA OvertakenGrows ==
  ASSUME Inv, Next
  PROVE  (overtaken' = overtaken) \/ (overtaken' /\ (HearsError \/ SessionTimer))
BY DEF Next, SessionSteps, HubSteps, RunnerReads, HearsReady, HearsError, HearsStray, HearsEvent, HearsEnd,
       HearsCall, OnExit, HandlerAnswers, ReadyTimeout, SessionTimer, KillerFires, CloseIdle, Close, RunnerStarts, ReadsRun,
       ReadsCancel, ReadsResponse, InputEnds, StartFails, Emits, CallsTool, RuntimeEnds, Dies, Garbage, Records, Begin,
       CellReady, SendRun, RunEnds, Abort, HubTimer

\* In step, no frame is astray.
LEMMA NoneAstray ==
  ASSUME Inv, HearsStray
  PROVE  overtaken
<1> USE DEF Inv
<1>1. up \in Seq(UpFrames) /\ up # <<>> /\ OfTurn(Head(up)) /\ ~(session.current # NoTurn /\ Head(up).turn = session.current)
  BY DEF PipesTyped, HearsStray, InTurn, OfTurn
<1>2. Head(up) = up[1] /\ 1 \in DOMAIN up /\ Head(up) \in UpFrames
  BY <1>1, TailIs
<1>3. Head(up).turn \in Turns /\ NoTurn \notin Turns
  BY <1>1, <1>2, UpFramesAre, ChannelAssumption DEF Turns, NoTurn
<1>4. ~overtaken => Head(up).turn = session.current
  BY <1>1, <1>2 DEF InStep
<1> QED
  BY <1>1, <1>3, <1>4

\* The session fails the runner of this repository only when it was made to.
LEMMA HonestNext ==
  ASSUME Inv, Next
  PROVE  HonestRunnerBelieved'
<1> USE DEF Inv
<1>1. SUFFICES ASSUME session'.exitReason = "stray" PROVE overtaken'
  BY DEF HonestRunnerBelieved
<1>2. session.exitReason = "stray" \/ HearsStray
  <2>1. CASE SendRun
    BY <1>1, <2>1, RunBegins, RunFails
  <2>2. CASE RunEnds
    <3>1. session' = [session EXCEPT !.current = NoTurn]
      BY <2>2 DEF RunEnds
    <3> QED
      BY <1>1, <3>1 DEF SessionTyped
  <2> QED
    BY <1>1, <2>1, <2>2, SessionKeeps
<1>3. overtaken
  BY <1>2, NoneAstray DEF HonestRunnerBelieved
<1> QED
  BY <1>3, OvertakenGrows

\* Unless it was overtaken, the runner and the session are in the same turn.
LEMMA InStepNext ==
  ASSUME Inv, Next
  PROVE  InStep'
<1> USE DEF Inv
<1>1. SUFFICES ASSUME ~overtaken' PROVE InStep'
  BY DEF InStep
<1>2. ~overtaken /\ ~HearsError /\ ~SessionTimer /\ ~HearsStray
  <2>1. HearsError \/ SessionTimer => overtaken'
    BY DEF HearsError, SessionTimer
  <2> QED
    BY <1>1, <2>1, OvertakenGrows, NoneAstray
<1>3. /\ NoTurn \notin Turns /\ PipesTyped /\ up \in Seq(UpFrames) /\ down \in Seq(DownFrames)
      /\ runner.is \in {"boot", "up", "gone"}
  BY ChannelAssumption DEF Turns, NoTurn, PipesTyped, CallsTyped
<1>4. /\ \A i \in DOMAIN up : OfTurn(up[i]) => up[i].turn = session.current /\ done = "no"
      /\ \A i \in DOMAIN up : OfTurn(up[i]) => session.current # NoTurn
  <2>1. \A i \in DOMAIN up : OfTurn(up[i]) => up[i].turn = session.current /\ done = "no"
    BY <1>2 DEF InStep
  <2>2. \A i \in DOMAIN up : OfTurn(up[i]) => up[i].turn \in Turns
    BY <1>3, UpFramesAre
  <2> QED
    BY <1>3, <2>1, <2>2
<1>5. ASSUME runner.is # "gone"
      PROVE  /\ runner.current # NoTurn =>
                  runner.current = session.current /\ done = "no" /\ \A i \in DOMAIN down : down[i].type # "run"
             /\ \A i \in DOMAIN down : down[i].type = "run" => down[i].turn = session.current /\ done = "no" /\ session.current # NoTurn
  <2>1. /\ runner.current # NoTurn =>
                  runner.current = session.current /\ done = "no" /\ \A i \in DOMAIN down : down[i].type # "run"
        /\ \A i \in DOMAIN down : down[i].type = "run" => down[i].turn = session.current /\ done = "no"
    BY <1>2, <1>5 DEF InStep
  <2>2. \A i \in DOMAIN down : down[i].turn \in Turns
    BY <1>3, DownFramesAre
  <2> QED
    BY <1>3, <2>1, <2>2
<1>6. runner'.is # "gone" => runner.is # "gone"
  BY RunnerGoesOn
<1>7. CASE SendRun
  <2>1. up' = up /\ runner' = runner
    BY <1>7 DEF SendRun, cell
  <2>2. CASE session.current = NoTurn /\ ~session.closed
    <3>1. /\ session'.current = hub.turn /\ done' = "no" /\ hub.turn \in Turns
          /\ down' = down \/ down' = Append(down, [type |-> "run", turn |-> hub.turn])
      BY <1>7, <2>2, RunBegins
    <3>2. \A i \in DOMAIN up' : ~OfTurn(up'[i])
      BY <1>4, <2>1, <2>2
    <3>3. runner'.is # "gone" => runner'.current = NoTurn
      BY <1>5, <1>6, <2>1, <2>2
    <3>4. ASSUME runner'.is # "gone", NEW i \in DOMAIN down', down'[i].type = "run"
          PROVE  down'[i].turn = hub.turn
      <4>1. \A j \in DOMAIN down : down[j].type # "run"
        BY <1>5, <1>6, <2>2, <3>4
      <4>2. [type |-> "run", turn |-> hub.turn] \in DownFrames
        BY <3>1, FramesTyped
      <4>3. CASE down' = down
        BY <3>4, <4>1, <4>3
      <4>4. CASE down' = Append(down, [type |-> "run", turn |-> hub.turn])
        <5> DEFINE f == [type |-> "run", turn |-> hub.turn]
        <5>1. f.turn = hub.turn /\ f \in DownFrames
          BY <4>2
        <5> HIDE DEF f
        <5>2. down' = Append(down, f)
          BY <4>4 DEF f
        <5>3. down'[i] = f \/ (i \in DOMAIN down /\ down'[i] = down[i])
          BY <1>3, <5>1, <5>2, AppendIs
        <5> QED
          BY <3>4, <4>1, <5>1, <5>3
      <4> QED
        BY <3>1, <4>3, <4>4
    <3> QED
      BY <3>1, <3>2, <3>3, <3>4 DEF InStep
  <2>3. CASE ~(session.current = NoTurn /\ ~session.closed)
    <3>1. session' = session /\ done' = done /\ down' = down
      BY <1>7, <2>3, RunFails
    <3> QED
      BY <1>1, <1>2, <2>1, <3>1 DEF InStep
  <2> QED
    BY <2>2, <2>3
<1>8. CASE RunEnds
  <2>1. done # "no" /\ up' = up /\ runner' = runner /\ down' = down
    BY <1>8 DEF RunEnds, cell
  <2>2. \A i \in DOMAIN up' : ~OfTurn(up'[i])
    BY <1>4, <2>1
  <2>3. runner'.is # "gone" => runner'.current = NoTurn /\ \A i \in DOMAIN down' : down'[i].type # "run"
    BY <1>5, <2>1
  <2> QED
    BY <2>2, <2>3 DEF InStep
<1>9. CASE HearsEnd
  <2>1. /\ up # <<>> /\ up' = Tail(up) /\ Head(up).type = "turn.end" /\ Head(up).turn = session.current
        /\ runner' = runner /\ down' = down
    BY <1>9 DEF HearsEnd, Heard, InTurn, cell
  <2>2. Head(up) = up[1] /\ 1 \in DOMAIN up /\ OfTurn(up[1])
    BY <1>3, <2>1, TailIs DEF OfTurn
  <2>3. /\ runner.current # session.current
        /\ \A j \in DOMAIN up : j > 1 /\ OfTurn(up[j]) => up[j].turn # session.current
    BY <2>1, <2>2 DEF EndLast
  <2>4. \A i \in DOMAIN up' : ~OfTurn(up'[i])
    <3>1. \A i \in DOMAIN up' : i + 1 > 1 /\ i + 1 \in DOMAIN up /\ up'[i] = up[i + 1]
      BY <1>3, <2>1, TailIs
    <3> QED
      BY <1>4, <2>3, <3>1
  <2>5. runner'.is # "gone" => runner'.current = NoTurn
    BY <1>5, <2>1, <2>3
  <2>6. runner'.is # "gone" => \A i \in DOMAIN down' : down'[i].type # "run"
    <3>1. ~Silent(session.current)
      BY <2>1, <2>2 DEF Silent
    <3> QED
      BY <1>5, <2>1, <3>1 DEF RunOnce
  <2> QED
    BY <2>4, <2>5, <2>6 DEF InStep
<1>10. CASE OnExit
  <2>1. runner' = runner /\ runner.is = "gone" /\ up' = up /\ up = <<>>
    BY <1>10 DEF OnExit, cell
  <2>2. DOMAIN up' = {}
    BY <2>1
  <2> QED
    BY <2>1, <2>2 DEF InStep
<1>11. CASE ~SendRun /\ ~RunEnds /\ ~HearsEnd /\ ~OnExit
  <2>1. session'.current = session.current
    BY <1>11, SessionKeeps
  <2>2. done' = done
    <3>1. CASE ReadyTimeout
      <4>1. session.current = NoTurn
        BY <3>1 DEF ReadyTimeout, SessionTyped
      <4> QED
        BY <3>1, <4>1 DEF ReadyTimeout, Fail, Ended
    <3>2. CASE ~ReadyTimeout
      <4>1. HearsReady \/ HearsEvent \/ HearsCall \/ Records \/ Close => done' = done
        BY DEF HearsReady, HearsEvent, HearsCall, Records, Close
      <4> QED
        BY <1>2, <1>11, <3>2, <4>1, SessionMoves
    <3> QED
      BY <3>1, <3>2
  <2>3. ASSUME NEW i \in DOMAIN up', OfTurn(up'[i])
        PROVE  up'[i].turn = session.current /\ done = "no"
    <3>1. ReadsRun => 1 \in DOMAIN down /\ down[1].type = "run"
      BY <1>3, ReadIs DEF ReadsRun
    <3>2. CASE \E j \in DOMAIN up : up[j] = up'[i]
      BY <1>4, <2>3, <3>2
    <3> QED
      BY <1>5, <2>3, <3>1, <3>2, UpNews
  <2>4. ASSUME NEW i \in DOMAIN down', down'[i].type = "run"
        PROVE  \E j \in DOMAIN down : down[j] = down'[i]
    <3>1. \A call \in Calls : Response(call).type # "run"
      BY DEF Response
    <3> QED
      BY <1>11, <2>4, <3>1, DownNews
  <2>5. ASSUME runner'.is # "gone", NEW i \in DOMAIN down', down'[i].type = "run"
        PROVE  down'[i].turn = session.current /\ done = "no"
    BY <1>5, <1>6, <2>4, <2>5
  <2>6. ASSUME runner'.is # "gone", runner'.current # NoTurn
        PROVE  runner'.current = session.current /\ done = "no" /\ \A i \in DOMAIN down' : down'[i].type # "run"
    <3>1. CASE runner'.current = runner.current
      BY <1>5, <1>6, <2>4, <2>6, <3>1
    <3>2. CASE ReadsRun /\ runner.current = NoTurn /\ runner'.current = Head(down).turn
      <4>1. /\ down # <<>> /\ down' = Tail(down) /\ Head(down) = down[1] /\ 1 \in DOMAIN down /\ down[1].type = "run"
        BY <1>3, <3>2, ReadIs DEF ReadsRun, Read
      <4>2. down[1].turn = session.current /\ done = "no"
        BY <1>5, <1>6, <2>6, <4>1
      <4>3. ASSUME NEW i \in DOMAIN down', down'[i].type = "run" PROVE FALSE
        <5>1. i + 1 > 1 /\ i + 1 \in DOMAIN down /\ down'[i] = down[i + 1] /\ i \in Nat
          BY <1>3, <4>1, TailIs
        <5>2. down[i + 1].turn = down[1].turn
          BY <1>5, <1>6, <2>6, <4>2, <4>3, <5>1
        <5>3. i + 1 = 1
          BY <4>1, <4>3, <5>1, <5>2 DEF RunOnce
        <5> QED
          BY <5>1, <5>3
      <4> QED
        BY <3>2, <4>1, <4>2, <4>3
    <3> QED
      BY <2>6, <3>1, <3>2, RunnerGoesOn
  <2> QED
    BY <2>1, <2>2, <2>3, <2>5, <2>6 DEF InStep
<1> QED
  BY <1>7, <1>8, <1>9, <1>10, <1>11

(***************************************************************************)
(* The names of the calls.                                                 *)
(***************************************************************************)

\* A request under way is an earlier one, or the call that is made now.
LEMMA RequestsGoOn ==
  ASSUME Inv, Next, NEW i \in DOMAIN up', up'[i].type = "tool.request"
  PROVE  \/ \E j \in DOMAIN up : up[j] = up'[i]
         \/ CallsTool /\ up'[i].id = NextCall /\ up'[i].turn = runner.current
<1>1. up \in Seq(UpFrames) /\ Len(up) \in Nat
  BY DEF Inv, PipesTyped
<1>2. runner.current # NoTurn => runner.current \in Turns
  BY ChannelAssumption DEF Inv, CallsTyped, Turns, NoTurn
<1>3. ASSUME NEW f \in UpFrames, up' = Append(up, f)
      PROVE  up'[i] = f \/ \E j \in DOMAIN up : up[j] = up'[i]
  BY <1>1, <1>3, AppendIs
<1>4. CASE up # <<>> /\ up' = Tail(up)
  BY <1>1, <1>4, TailIs
<1>5. CASE up' = up \/ up' = <<>>
  <2>1. up' # <<>>
    OBVIOUS
  <2> QED
    BY <1>5, <2>1
<1>6. CASE \E f \in [type : {"ready", "error"}] : up' = Append(up, f) /\ f \in UpFrames /\ ~OfTurn(f)
  BY <1>3, <1>6 DEF OfTurn
<1>7. CASE Emits /\ up' = Append(up, [type |-> "event", turn |-> runner.current, fatal |-> FALSE])
  <2> DEFINE f == [type |-> "event", turn |-> runner.current, fatal |-> FALSE]
  <2>1. f \in UpFrames /\ f.type # "tool.request"
    BY <1>2, <1>7, FramesTyped DEF Emits
  <2>2. up' = Append(up, f)
    BY <1>7
  <2> HIDE DEF f
  <2> QED
    BY <1>3, <2>1, <2>2
<1>8. CASE CallsTool /\ up' = Append(up, [type |-> "tool.request", turn |-> runner.current, id |-> NextCall])
  <2> DEFINE f == [type |-> "tool.request", turn |-> runner.current, id |-> NextCall]
  <2>1. f \in UpFrames /\ f.id = NextCall /\ f.turn = runner.current
    <3>1. runner.current \in Turns /\ runner.nextCall \in Nat /\ runner.nextCall < MaxCalls /\ MaxCalls \in Nat
      BY <1>2, <1>8, ChannelAssumption DEF CallsTool, MayCall, Inv, CallsTyped
    <3> QED
      BY <3>1, FramesTyped DEF NextCall
  <2>2. up' = Append(up, f)
    BY <1>8
  <2> HIDE DEF f
  <2> QED
    BY <1>3, <1>8, <2>1, <2>2
<1>9. CASE RuntimeEnds(TRUE) /\ up' = Append(up, [type |-> "turn.end", turn |-> runner.current])
  <2> DEFINE f == [type |-> "turn.end", turn |-> runner.current]
  <2>1. f \in UpFrames /\ f.type # "tool.request"
    BY <1>2, <1>9, FramesTyped DEF RuntimeEnds
  <2>2. up' = Append(up, f)
    BY <1>9
  <2> HIDE DEF f
  <2> QED
    BY <1>3, <2>1, <2>2
<1>10. ASSUME NEW t \in Turns,
              up' = Append(Append(up, [type |-> "event", turn |-> t, fatal |-> TRUE]), [type |-> "turn.end", turn |-> t])
       PROVE  \E j \in DOMAIN up : up[j] = up'[i]
  <2> DEFINE e == [type |-> "event", turn |-> t, fatal |-> TRUE]
             f == [type |-> "turn.end", turn |-> t]
  <2>1. e \in UpFrames /\ f \in UpFrames /\ e.type # "tool.request" /\ f.type # "tool.request"
    BY FramesTyped
  <2>2. up' = Append(Append(up, e), f)
    BY <1>10
  <2> HIDE DEF e, f
  <2>3. Append(up, e) \in Seq(UpFrames)
    BY <1>1, <2>1, AppendIs
  <2>4. \E j \in DOMAIN Append(up, e) : Append(up, e)[j] = up'[i]
    BY <2>1, <2>2, <2>3, AppendIs
  <2> QED
    BY <1>1, <2>1, <2>4, AppendIs
<1> QED
  BY <1>4, <1>5, <1>6, <1>7, <1>8, <1>9, <1>10, UpGrows

\* An answer under way is an earlier one, or to a call the daemon just had.
LEMMA ResponsesGoOn ==
  ASSUME Inv, Next, NEW i \in DOMAIN down', down'[i].type = "tool.response"
  PROVE  \/ \E j \in DOMAIN down : down[j] = down'[i]
         \/ /\ HearsCall /\ up # <<>> /\ Head(up).type = "tool.request"
            /\ down'[i].id = Head(up).id /\ down'[i].turn = Head(up).turn
         \/ [id |-> down'[i].id, turn |-> down'[i].turn] \in serving
<1> USE DEF Inv
<1>1. down \in Seq(DownFrames) /\ up \in Seq(UpFrames)
  BY DEF PipesTyped
<1>2. ASSUME NEW call \in Calls, down' = Append(down, Response(call))
      PROVE  (down'[i].id = call.id /\ down'[i].turn = call.turn) \/ \E j \in DOMAIN down : down[j] = down'[i]
  <2>1. Response(call) \in DownFrames /\ Response(call).id = call.id /\ Response(call).turn = call.turn
    BY DEF Calls, Response, DownFrames
  <2> HIDE DEF Inv
  <2>2. down'[i] = Response(call) \/ \E j \in DOMAIN down : down[j] = down'[i]
    BY <1>1, <1>2, <2>1, AppendIs
  <2> QED
    BY <2>1, <2>2
<1>3. CASE HearsCall
  <2>1. up # <<>> /\ Head(up).type = "tool.request"
    BY <1>3 DEF HearsCall, Heard
  <2> DEFINE call == [id |-> Head(up).id, turn |-> Head(up).turn]
  <2>2. call \in Calls
    <3>1. Head(up) \in UpFrames
      BY <1>1, <2>1, TailIs
    <3> QED
      BY <2>1, <3>1, UpFramesAre DEF OfTurn, Calls
  <2>3. down' = down \/ down' = Append(down, Response(call))
    BY <1>3 DEF HearsCall, Refusal, Sent
  <2>4. call.id = Head(up).id /\ call.turn = Head(up).turn
    OBVIOUS
  <2> HIDE DEF call
  <2> QED
    BY <1>2, <1>3, <2>1, <2>2, <2>3, <2>4
<1>4. CASE \E call \in Calls : HandlerAnswers(call)
  <2>1. PICK call \in Calls : HandlerAnswers(call)
    BY <1>4
  <2>2. call \in serving /\ call = [id |-> call.id, turn |-> call.turn]
    BY <2>1 DEF HandlerAnswers, Calls
  <2>3. down' = down \/ down' = Append(down, Response(call))
    BY <2>1 DEF HandlerAnswers, Sent
  <2>4. CASE down' = Append(down, Response(call))
    <3>1. (down'[i].id = call.id /\ down'[i].turn = call.turn) \/ \E j \in DOMAIN down : down[j] = down'[i]
      BY <1>2, <2>4
    <3> QED
      BY <2>2, <3>1
  <2> QED
    BY <2>3, <2>4
<1>5. CASE ReadsRun \/ ReadsCancel \/ ReadsResponse
  <2>1. down # <<>> /\ down' = Tail(down)
    BY <1>5 DEF ReadsRun, ReadsCancel, ReadsResponse, Read
  <2> QED
    BY <1>1, <2>1, TailIs
<1>6. CASE SendRun \/ Abort \/ HubTimer \/ SessionTimer
  <2>1. hub.at # "idle" => hub.turn \in Turns
    BY ChannelAssumption DEF HubTyped, Turns, NoTurn
  <2>2. CASE hub.at # "idle"
    <3>1. [type |-> "cancel", turn |-> hub.turn] \in DownFrames /\ [type |-> "run", turn |-> hub.turn] \in DownFrames
      BY <2>1, <2>2, FramesTyped
    <3>2. down' = down \/ \E f \in DownFrames : f.type # "tool.response" /\ down' = Append(down, f)
      BY <1>6, <3>1 DEF SendRun, Abort, HubTimer, SessionTimer, CancelTurn, Sent
    <3> QED
      BY <1>1, <3>2, AppendIs
  <2>3. hub.at # "idle"
    BY <1>6 DEF SendRun, Abort, HubTimer, SessionTimer
  <2> QED
    BY <2>2, <2>3
<1>7. ~(Abort \/ HubTimer \/ SessionTimer \/ HearsCall \/ ReadsRun \/ ReadsCancel \/ ReadsResponse \/ SendRun
         \/ \E call \in Calls : HandlerAnswers(call)) => down' = down
  BY DEF Next, SessionSteps, HubSteps, RunnerReads, HearsReady, HearsError, HearsStray, HearsEvent, HearsEnd,
       OnExit, ReadyTimeout, KillerFires, CloseIdle, Close, RunnerStarts,
       InputEnds, StartFails, Emits, CallsTool, RuntimeEnds, Dies, Garbage, Records, Begin, CellReady, RunEnds
<1> QED
  BY <1>3, <1>4, <1>5, <1>6, <1>7

\* Calls become known by CallsTool alone.
LEMMA KnownGoesOn ==
  ASSUME Inv, Next, NEW call \in Known'
  PROVE  call \in Known \/ (CallsTool /\ call.id = NextCall /\ call.turn = runner.current)
<1> USE DEF Inv
<1>1. up \in Seq(UpFrames) /\ down \in Seq(DownFrames)
  BY DEF PipesTyped
<1>2. up # <<>> /\ Head(up).type = "tool.request" => [id |-> Head(up).id, turn |-> Head(up).turn] \in Requests
  <2>1. up # <<>> => Head(up) = up[1] /\ 1 \in DOMAIN up
    BY <1>1, TailIs
  <2> QED
    BY <2>1 DEF Requests
<1>3. CASE call \in pending'
  <2>1. CASE CallsTool
    <3>1. pending' = pending \cup {[id |-> NextCall, turn |-> runner.current]}
      BY <2>1 DEF CallsTool
    <3> QED
      BY <1>3, <2>1, <3>1 DEF Known
  <2>2. CASE ~CallsTool
    <3>1. pending' \subseteq pending
      BY <2>2 DEF Next, SessionSteps, HubSteps, RunnerReads, HearsReady, HearsError, HearsStray, HearsEvent, HearsEnd,
         HearsCall, OnExit, HandlerAnswers, ReadyTimeout, SessionTimer, KillerFires, CloseIdle, Close, RunnerStarts, ReadsRun,
         ReadsCancel, ReadsResponse, InputEnds, StartFails, Emits, Dies, Garbage, Records, Begin, CellReady,
         SendRun, RunEnds, Abort, HubTimer, cell, RuntimeEnds, LeftOver
    <3> QED
      BY <1>3, <3>1 DEF Known
  <2> QED
    BY <2>1, <2>2
<1>4. CASE call \in serving'
  <2>1. serving' \subseteq serving \/ HearsCall
    BY DEF Next, SessionSteps, HubSteps, RunnerReads, HearsReady, HearsError, HearsStray, HearsEvent, HearsEnd, Fail,
       OnExit, HandlerAnswers, ReadyTimeout, SessionTimer, KillerFires, CloseIdle, Close, RunnerStarts, ReadsRun, ReadsCancel,
       ReadsResponse, InputEnds, StartFails, Emits, CallsTool, RuntimeEnds, Dies, Garbage, Records, Begin, CellReady,
       SendRun, RunEnds, Abort, HubTimer, ends
  <2>2. HearsCall => /\ serving' \subseteq serving \cup {[id |-> Head(up).id, turn |-> Head(up).turn]}
                     /\ up # <<>> /\ Head(up).type = "tool.request"
    BY DEF HearsCall, Heard
  <2> QED
    BY <1>2, <1>4, <2>1, <2>2 DEF Known
<1>5. CASE call \in Requests'
  <2>1. PICK i \in DOMAIN up' : up'[i].type = "tool.request" /\ call = [id |-> up'[i].id, turn |-> up'[i].turn]
    BY <1>5 DEF Requests
  <2>2. CASE \E j \in DOMAIN up : up[j] = up'[i]
    <3>1. PICK j \in DOMAIN up : up[j] = up'[i]
      BY <2>2
    <3>2. call \in Requests
      BY <2>1, <3>1 DEF Requests
    <3> QED
      BY <3>2 DEF Known
  <2>3. CASE CallsTool /\ up'[i].id = NextCall /\ up'[i].turn = runner.current
    BY <2>1, <2>3
  <2> QED
    BY <2>1, <2>2, <2>3, RequestsGoOn
<1>6. CASE call \in Responses'
  <2>1. PICK i \in DOMAIN down' : down'[i].type = "tool.response" /\ call = [id |-> down'[i].id, turn |-> down'[i].turn]
    BY <1>6 DEF Responses
  <2>2. CASE \E j \in DOMAIN down : down[j] = down'[i]
    <3>1. PICK j \in DOMAIN down : down[j] = down'[i]
      BY <2>2
    <3>2. call \in Responses
      BY <2>1, <3>1 DEF Responses
    <3> QED
      BY <3>2 DEF Known
  <2>3. CASE up # <<>> /\ Head(up).type = "tool.request" /\ down'[i].id = Head(up).id /\ down'[i].turn = Head(up).turn
    BY <1>2, <2>1, <2>3 DEF Known
  <2>4. CASE [id |-> down'[i].id, turn |-> down'[i].turn] \in serving
    BY <2>1, <2>4 DEF Known
  <2> QED
    BY <2>1, <2>2, <2>3, <2>4, ResponsesGoOn
<1> QED
  BY <1>3, <1>4, <1>5, <1>6 DEF Known

\* No two calls come to have an id in common.
LEMMA IdsUniqueNext ==
  ASSUME Inv, Next
  PROVE  IdsUnique'
<1> USE DEF Inv
<1>1. runner.nextCall \in Nat /\ (CallsTool => runner'.nextCall = runner.nextCall + 1) /\ (~CallsTool => runner'.nextCall = runner.nextCall)
  BY RunnerGoesOn, ChannelAssumption DEF CallsTyped
<1>2. \A call \in Known : call.id \in Nat
  <2>1. ASSUME NEW call \in Requests PROVE call.id \in Nat
    <3>1. PICK i \in DOMAIN up : up[i].type = "tool.request" /\ call = [id |-> up[i].id, turn |-> up[i].turn]
      BY <2>1 DEF Requests
    <3>2. up[i] \in UpFrames
      BY DEF PipesTyped
    <3> QED
      BY <3>1, <3>2, UpFramesAre, ChannelAssumption
  <2>2. ASSUME NEW call \in Responses PROVE call.id \in Nat
    <3>1. PICK i \in DOMAIN down : down[i].type = "tool.response" /\ call = [id |-> down[i].id, turn |-> down[i].turn]
      BY <2>2 DEF Responses
    <3>2. down[i] \in DownFrames
      BY DEF PipesTyped
    <3> QED
      BY <3>1, <3>2, DownFramesAre, ChannelAssumption
  <2>3. \A call \in pending \cup serving : call.id \in Nat
    BY ChannelAssumption DEF CallsTyped, Calls
  <2> QED
    BY <2>1, <2>2, <2>3 DEF Known
<1>3. \A call \in Known : call.id <= runner.nextCall /\ call.id # NextCall
  BY <1>1, <1>2 DEF IdsUnique, NextCall
<1>4. ASSUME NEW call \in Known' PROVE call.id <= runner'.nextCall
  BY <1>1, <1>2, <1>3, <1>4, KnownGoesOn DEF NextCall
<1>5. ASSUME NEW a \in Known', NEW b \in Known', a.id = b.id PROVE a.turn = b.turn
  <2>1. a \in Known \/ (a.id = NextCall /\ a.turn = runner.current)
    BY KnownGoesOn
  <2>2. b \in Known \/ (b.id = NextCall /\ b.turn = runner.current)
    BY KnownGoesOn
  <2> QED
    BY <1>3, <1>5, <2>1, <2>2 DEF IdsUnique
<1> QED
  BY <1>4, <1>5 DEF IdsUnique

(***************************************************************************)
(* The invariant, and what follows from it.                                *)
(***************************************************************************)

\* It holds of a cell that has just been created.
LEMMA InitInv ==
  ASSUME Init
  PROVE  Inv
<1> USE DEF Init, NoTurn
<1>1. /\ MaxTurns \in Nat /\ MaxCalls \in Nat /\ MaxPending \in Nat /\ MaxRare \in Nat
      /\ up = <<>> /\ down = <<>> /\ DOMAIN up = {} /\ DOMAIN down = {} /\ pending = {} /\ serving = {} /\ Turns \subseteq Nat \ {0}
  BY ChannelAssumption DEF Turns
<1>2. HubTyped
  <2>1. 0 \in 0..MaxTurns /\ 0 \in 0..MaxRare
    BY <1>1
  <2>2. hub \in [at : {"idle", "cell", "input", "running"}, turn : 0..MaxTurns,
               mapped : BOOLEAN, aborted : BOOLEAN, timedOut : BOOLEAN] /\ hub.at = "idle"
    BY <2>1
  <2>3. /\ outcome \in [Turns -> {"none", "failing", "done", "failed", "cancelled"}]
        /\ recorded \in [Turns -> Nat] /\ sent \in [Turns -> Nat]
    OBVIOUS
  <2> QED
    BY <2>1, <2>2, <2>3 DEF HubTyped
<1>3. SessionTyped
  <2>1. <<>> \in Seq(BOOLEAN)
    OBVIOUS
  <2> QED
    BY <1>1, <2>1 DEF SessionTyped
<1>4. CallsTyped
  <2>1. Cardinality(pending) = 0
    BY <1>1, FS_EmptySet
  <2> QED
    BY <1>1, <2>1 DEF CallsTyped
<1>5. PipesTyped
  <2>1. <<>> \in Seq(UpFrames) /\ <<>> \in Seq(DownFrames)
    OBVIOUS
  <2> QED
    BY <1>1, <2>1 DEF PipesTyped
<1>6. Later
  <2>1. Begun = 0
    BY DEF Begun
  <2> QED
    BY <1>1, <2>1 DEF Later
<1>7. Stopped /\ RunOnce /\ EndLast /\ EndHeard
  BY <1>1 DEF Stopped, RunOnce, EndLast, EndHeard
<1>8. Whole /\ EndTells /\ DoneStays /\ InStep /\ HonestRunnerBelieved
  BY <1>1 DEF Whole, EndTells, DoneStays, InStep, HonestRunnerBelieved
<1>9. IdsUnique
  <2>1. Requests = {} /\ Responses = {}
    BY <1>1 DEF Requests, Responses
  <2>2. Known = {}
    BY <1>1, <2>1 DEF Known
  <2> QED
    BY <2>2 DEF IdsUnique
<1> QED
  BY <1>2, <1>3, <1>4, <1>5, <1>6, <1>7, <1>8, <1>9 DEF Inv

\* It is kept by every step.
LEMMA StepInv ==
  ASSUME Inv, [Next]_vars
  PROVE  Inv'
<1>1. CASE Next
  <2>1. HubTyped' /\ SessionTyped' /\ CallsTyped' /\ PipesTyped'
    BY <1>1, HubTypedNext, SessionTypedNext, CallsTypedNext, PipesTypedNext
  <2>2. Later' /\ Stopped' /\ RunOnce' /\ EndLast' /\ EndHeard'
    BY <1>1, LaterNext, StoppedNext, RunOnceNext, EndLastNext, EndHeardNext
  <2>3. Whole' /\ EndTells' /\ DoneStays' /\ InStep' /\ HonestRunnerBelieved' /\ IdsUnique'
    BY <1>1, WholeNext, EndTellsNext, DoneStaysNext, InStepNext, HonestNext, IdsUniqueNext
  <2> QED
    BY <2>1, <2>2, <2>3 DEF Inv
<1>2. CASE UNCHANGED vars
  <2> USE <1>2 DEF vars, daemon, ends, cell, Inv
  <2>1. HubTyped' /\ SessionTyped' /\ CallsTyped' /\ PipesTyped'
    BY DEF HubTyped, SessionTyped, CallsTyped, PipesTyped
  <2>2. Later' /\ Stopped' /\ RunOnce'
    BY DEF Later, Begun, Stopped, Told, RunOnce, Silent
  <2>3. EndLast' /\ EndHeard' /\ Whole'
    BY DEF EndLast, EndHeard, Whole, Silent, Events, EventsIn, EndComes
  <2>4. EndTells' /\ DoneStays' /\ InStep' /\ HonestRunnerBelieved'
    BY DEF EndTells, EndComes, Fatal, DoneStays, NotAsked, InStep, HonestRunnerBelieved
  <2>5. IdsUnique'
    BY DEF IdsUnique, Known, Requests, Responses
  <2> QED
    BY <2>1, <2>2, <2>3, <2>4, <2>5
<1> QED
  BY <1>1, <1>2

\* It holds of all the channel's states.
LEMMA Invariance == Spec => []Inv
<1> USE InitInv, StepInv DEF Spec
<1> QED
  BY PTL

\* Every variable keeps its shape: CellSession's and Hub.execute's idea of the turn in progress
\* agree, the calls that wait are of the runner's turn and at most MAX_PENDING_TOOLS of them.
THEOREM ChannelTyped == Spec => []TypeOK
<1>1. Inv => TypeOK
  <2> SUFFICES ASSUME Inv PROVE TypeOK
    OBVIOUS
  <2>1. /\ hub.at \in {"idle", "cell", "input", "running"} /\ hub.turn \in 0..MaxTurns
        /\ {hub.mapped, hub.aborted, hub.timedOut, killer, overtaken} \subseteq BOOLEAN
        /\ outcome \in [Turns -> {"none", "failing", "done", "failed", "cancelled"}]
        /\ recorded \in [Turns -> Nat] /\ sent \in [Turns -> Nat]
        /\ ranOk \subseteq Turns /\ rare \in 0..MaxRare
    BY DEF Inv, HubTyped
  <2>2. /\ session.ready \in {"waiting", "yes", "rejected"}
        /\ session.current = (IF hub.at = "running" THEN hub.turn ELSE NoTurn)
        /\ session.exitReason \in {"none", "closed", "error", "stray"}
        /\ {session.closed, session.ended} \subseteq BOOLEAN
        /\ done \in {"no", "ended", "reason"}
    BY DEF Inv, SessionTyped
  <2>3. /\ runner.aborted \in BOOLEAN /\ serving \subseteq Calls
        /\ runner.is \in {"boot", "up", "gone"} /\ runner.current \in 0..MaxTurns
        /\ \A call \in pending : call \in Calls /\ call.turn = runner.current
        /\ Cardinality(pending) <= MaxPending
    BY DEF Inv, CallsTyped
  <2> QED
    BY <2>1, <2>2, <2>3 DEF TypeOK
<1> QED
  BY <1>1, Invariance, PTL

\* onFrame() fails the runner of this repository for a frame of another turn only after the
\* session's own timer, or a frame that is none, ended a turn which the runner still has.
THEOREM RunnerBelieved == Spec => []HonestRunnerBelieved
<1>1. Inv => HonestRunnerBelieved
  BY DEF Inv
<1> QED
  BY <1>1, Invariance, PTL

\* A turn that finish() calls done was ended well by the runner, and all its events are recorded,
\* whichever turns before it were cancelled, timed out or lost their cell.
THEOREM DoneTurnsWhole == Spec => []DoneIsWhole
<1>1. Inv => DoneIsWhole
  BY DEF Inv, DoneStays, DoneIsWhole
<1> QED
  BY <1>1, Invariance, PTL

\* While onFrame() can still be told that its turn ended, the events of it that are recorded, that
\* wait in the session's queue and that are in the pipe add up to those the runner sent.
THEOREM EventsAccountedFor == Spec => []Whole
<1>1. Inv => Whole
  BY DEF Inv
<1> QED
  BY <1>1, Invariance, PTL

\* A `tool.response` never answers a call of the runner that another turn made, however late
\* onTool() gives it: callTool() uses an id once in the life of a cell.
THEOREM AnswersMeet == Spec => []AnswerMeetsItsCall
<1>1. Inv => AnswerMeetsItsCall
  <2> SUFFICES ASSUME Inv, NEW frame \in Frames(down), frame.type = "tool.response", NEW call \in Answered(frame.id)
               PROVE  call.turn = frame.turn
    BY DEF AnswerMeetsItsCall
  <2>1. PICK i \in DOMAIN down : frame = down[i]
    BY DEF Frames
  <2>2. [id |-> frame.id, turn |-> frame.turn] \in Known
    BY <2>1 DEF Known, Responses
  <2>3. call \in Known /\ call.id = frame.id
    BY DEF Answered, Known
  <2> QED
    BY <2>2, <2>3 DEF Inv, IdsUnique
<1> QED
  BY <1>1, Invariance, PTL
===============================================================================
