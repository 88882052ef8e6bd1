---------------------------- MODULE TeamLinkProofs ----------------------------
(* Theorems about TeamLink, for any turns, calls, page size and bounds. *)
EXTENDS TeamLink, TLAPS

(***************************************************************************)
(* The inductive invariant, part by part.                                  *)
(***************************************************************************)

CoordinatorTyped ==
  /\ row \in Active \cup Final \cup {"none"} /\ asked \in 0..MaxTurns
  /\ out \in [turn : 0..MaxTurns, active : BOOLEAN, cancel : BOOLEAN, seq : Nat]
  /\ answer \in [Requests -> {"none", "result", "error"}] /\ kept \subseteq Requests
  /\ job \in BOOLEAN /\ verdict \in Final \cup {"none"}
  /\ loop \in Awaiting \cup {"off", "dispatch", "finish", "sleep"}
  /\ calling \in [Requests -> {"off", "working", "result", "error"}]
  /\ healthy \in BOOLEAN /\ effects \in [Requests -> Nat] /\ rare \in 0..MaxRare
  /\ taken \subseteq Nat /\ told \subseteq Nat

NodeNumbers ==
  /\ work \in 0..out.turn /\ receipts = 1..work /\ mark \in 0..out.turn
  /\ request \in [Requests -> {"none", "open", "result", "error"}]

NodeTyped ==
  /\ NodeNumbers
  /\ state \in Active \cup Final \cup {"none"} /\ turn \in 0..work
  /\ aborted \in BOOLEAN /\ ending \in BOOLEAN
  /\ events \in Nat /\ ended \in 0..events /\ dropped \in BOOLEAN
  /\ starts \in [Turns -> Nat]
  /\ outcome \in [Turns -> Final \cup {"none"}]

\* While execute() runs, the row says so and no job waits; a job that waits for a new turn is for
\* a request that has no number yet.
Control ==
  /\ loop # "off" => row = "running" /\ ~job
  /\ loop \in Awaiting \cup {"sleep"} => out.active
  /\ out.active => out.turn > 0
  /\ out.turn <= asked
  /\ (job \/ loop = "dispatch") /\ ~out.active => out.turn < asked
  /\ (loop = "finish") <=> (verdict # "none")

Calls(n) ==
  {RunCall(m) : m \in 1..n} \cup {CancelCall(m) : m \in 1..n}
  \cup {ReplyCall(r, o) : r \in Requests, o \in {"result", "error"}}

\* Only what the coordinator sent is under way, and only a poll gets a snapshot.
Carried ==
  /\ wire \subseteq Calls(out.turn)
  /\ reply.kind = "snapshot" => /\ loop = "poll"
                                /\ reply.status \in Active \cup Final /\ {reply.base, reply.seq} \subseteq Nat
                                /\ reply.requests \subseteq Requests

\* A queued turn was not cancelled before; a running one is the last taken in; a turn that goes
\* on although its row says otherwise was aborted.
Running ==
  /\ state # "none" => work > 0
  /\ state = "queued" => turn = 0 /\ mark < work
  /\ state = "running" => turn = work /\ ~ending
  /\ turn # 0 /\ ~ending => state = "running" \/ (aborted /\ state \in {"cancelled", "none"})
  /\ ending => turn # 0

\* What the node did with each turn.
Recorded ==
  /\ \A m \in Turns : m > work => starts[m] = 0 /\ outcome[m] = "none"
  /\ state = "queued" => starts[work] = 0 /\ outcome[work] = "none"
  /\ turn # 0 => starts[turn] = 1
  /\ turn # 0 /\ ~ending => outcome[turn] = "none"
  /\ state = "done" => outcome[work] = "done"

Typed == CoordinatorTyped /\ NodeTyped /\ Control /\ Carried /\ Running /\ Recorded

\* Somebody is about to say, or says, that a call had its effect.
Claimed(r) ==
  \/ calling[r] \in {"working", "result"} \/ answer[r] = "result" \/ request[r] = "result"
  \/ ReplyCall(r, "result") \in wire

\* The receipt of an effect is kept as long as its turn, and nobody claims one that was not.
Receipted ==
  \A r \in Requests : /\ effects[r] <= 1
                      /\ r \in kept => effects[r] = 1
                      /\ effects[r] = 1 /\ r[1] >= out.turn => r \in kept
                      /\ Claimed(r) => effects[r] = 1

\* The last turn sent is over on the node, with success, and no turn will end there again.
DoneThere ==
  /\ work = out.turn /\ work > 0 /\ outcome[work] = "done"
  /\ state \in {"done", "none"} /\ (turn = 0 \/ ending)

\* Who polls has the turn taken in, and "done" is true wherever it has got to.
Heeded ==
  /\ loop \in {"cancel", "poll", "sleep"} \/ (loop = "run" /\ reply.kind = "ok") => work = out.turn
  /\ reply.kind = "snapshot" /\ reply.status = "done" =>
       DoneThere /\ (reply.seq = out.seq => out.seq >= ended)
  /\ verdict = "done" \/ row = "done" => DoneThere /\ out.seq >= ended

(***************************************************************************)
(* The node: its RPCs and its hub.                                         *)
(***************************************************************************)

NodeInv == NodeTyped /\ Running /\ Recorded

\* The bounds, as the steps below need them.
LEMMA Bounds ==
  /\ MaxTurns \in Nat /\ MaxRare \in Nat /\ Turns = 1..MaxTurns
  /\ PageSize \in Nat /\ PageSize > 0 /\ MaxEvents \in Nat /\ MaxEvents > 0
BY LinkAssumption DEF Turns

\* hub.cancelTask() on the node ends a queued turn and aborts a running one.
LEMMA CancelWorkIs ==
  ASSUME NodeInv, out.turn \in 0..MaxTurns, CancelWork,
         UNCHANGED <<work, receipts, request, turn, ending, events, ended, starts>>,
         mark' \in 0..out.turn, state = "queued" \/ mark' = mark, out' = out
  PROVE  NodeInv'
<1> USE Bounds DEF NodeInv, NodeTyped, NodeNumbers, Active, Final
<1>1. CASE state = "queued"
  <2>1. work \in Turns /\ turn = 0 /\ state' = "cancelled" /\ outcome' = [outcome EXCEPT ![work] = "cancelled"]
    BY <1>1 DEF CancelWork, Running
  <2>2. outcome' \in [Turns -> Final \cup {"none"}]
    BY <2>1
  <2>3. NodeTyped'
    BY <2>1, <2>2 DEF CancelWork
  <2>4. Running' /\ Recorded'
    BY <2>1, <1>1 DEF CancelWork, Running, Recorded
  <2> QED
    BY <2>3, <2>4
<1>2. CASE state # "queued"
  <2>1. state' = state /\ outcome' = outcome /\ mark' = mark
    BY <1>2 DEF CancelWork
  <2>2. NodeTyped'
    BY <2>1 DEF CancelWork
  <2>3. Running' /\ Recorded'
    BY <2>1 DEF CancelWork, Running, Recorded
  <2> QED
    BY <2>2, <2>3
<1> QED
  BY <1>1, <1>2

\* A receipt for the next turn makes the receipts one longer.
LEMMA TakeInIs ==
  ASSUME NodeTyped, out.turn \in 0..MaxTurns, NEW n \in 1..out.turn, n = work + 1, TakeIn(n)
  PROVE  /\ work' = n /\ receipts' = 1..n /\ n \in Turns
         /\ request' \in [Requests -> {"none", "open", "result", "error"}]
BY Bounds DEF NodeTyped, NodeNumbers, TakeIn

\* team.run: in each of its outcomes.
LEMMA RunKeepsNode ==
  ASSUME NodeInv, out.turn \in 0..MaxTurns, NEW n \in 1..out.turn, NEW said, Run(n, said), out' = out
  PROVE  NodeInv'
<1> USE Bounds DEF NodeInv, Active, Final
<1>1. CASE UNCHANGED <<node, history>>
  BY <1>1 DEF node, history, NodeTyped, NodeNumbers, Running, Recorded
<1>2. CASE /\ n = work + 1 /\ CancelledFirst(n) /\ TakeIn(n) /\ state' = "cancelled"
           /\ aborted' = (aborted \/ (state = "running" /\ turn # 0))
           /\ outcome' = [m \in Turns |-> IF m = n \/ (m = work /\ state = "queued")
                                          THEN "cancelled" ELSE outcome[m]]
           /\ dropped' = FALSE
           /\ UNCHANGED <<mark, turn, ending, events, ended, starts, effects>>
  <2>1. state # "queued"
    BY <1>2 DEF CancelledFirst, Running, NodeTyped, NodeNumbers
  <2>2. /\ work' = n /\ receipts' = 1..n /\ n \in Turns
        /\ request' \in [Requests -> {"none", "open", "result", "error"}]
    BY <1>2, TakeInIs
  <2>3. \A m \in Turns : outcome'[m] = IF m = n THEN "cancelled" ELSE outcome[m]
    BY <1>2, <2>1
  <2>4. outcome' \in [Turns -> Final \cup {"none"}]
    BY <1>2 DEF NodeTyped, NodeNumbers
  <2>5. NodeTyped'
    <3>1. NodeNumbers'
      BY <1>2, <2>2 DEF NodeTyped, NodeNumbers
    <3>2. turn' \in 0..work' /\ ended' \in 0..events'
      BY <1>2, <2>2 DEF NodeTyped, NodeNumbers
    <3> QED
      BY <1>2, <2>4, <3>1, <3>2 DEF NodeTyped
  <2>6. Running'
    <3>1. turn # 0 /\ ~ending => state = "running" \/ aborted
      BY DEF Running
    <3>2. turn # 0 /\ ~ending => aborted'
      BY <1>2, <3>1
    <3>3. turn' = turn /\ ending' = ending /\ state' = "cancelled" /\ work' > 0
      BY <1>2, <2>2
    <3> QED
      BY <3>2, <3>3 DEF Running
  <2>7. Recorded'
    BY <1>2, <2>2, <2>3 DEF NodeTyped, NodeNumbers, Recorded
  <2> QED
    BY <2>5, <2>6, <2>7
<1>3. CASE /\ n = work + 1 /\ ~CancelledFirst(n) /\ (work > 0 => turn = 0)
           /\ TakeIn(n) /\ state' = "queued" /\ dropped' = FALSE
           /\ UNCHANGED <<mark, turn, aborted, ending, events, history>>
  <2>1. turn = 0
    BY <1>3 DEF NodeTyped, NodeNumbers
  <2>2. /\ work' = n /\ receipts' = 1..n /\ n \in Turns
        /\ request' \in [Requests -> {"none", "open", "result", "error"}]
    BY <1>3, TakeInIs
  <2>3. NodeTyped'
    <3>1. NodeNumbers'
      BY <1>3, <2>2 DEF NodeTyped, NodeNumbers
    <3>2. turn' \in 0..work' /\ ended' \in 0..events'
      BY <1>3, <2>2 DEF NodeTyped, NodeNumbers, history
    <3> QED
      BY <1>3, <3>1, <3>2 DEF NodeTyped, history
  <2>4. Running'
    BY <1>3, <2>1, <2>2 DEF NodeTyped, NodeNumbers, Running, CancelledFirst
  <2>5. Recorded'
    BY <1>3, <2>1, <2>2 DEF NodeTyped, NodeNumbers, Recorded, history
  <2> QED
    BY <2>3, <2>4, <2>5
<1> QED
  BY <1>1, <1>2, <1>3 DEF Run

\* team.cancel: what is queued has a higher number than every cancel noted.
LEMMA CancelKeepsNode ==
  ASSUME NodeInv, out.turn \in 0..MaxTurns, NEW n \in 1..out.turn, NEW said, CancelTurn(n, said), out' = out
  PROVE  NodeInv'
<1> USE Bounds DEF NodeInv, Active, Final
<1>1. mark' \in 0..out.turn /\ mark' \in {mark, n}
  BY DEF CancelTurn, NodeTyped, NodeNumbers
<1>2. CASE work > 0 /\ work <= n /\ state # "none"
  <2>1. CASE state = "queued"
    BY <1>1, <1>2, <2>1, CancelWorkIs DEF CancelTurn
  <2>2. CASE state # "queued"
    <3>1. /\ state' = state /\ outcome' = outcome /\ aborted' \in BOOLEAN /\ (aborted => aborted')
          /\ dropped' = FALSE
      BY <1>2, <2>2 DEF CancelTurn, CancelWork, NodeTyped, NodeNumbers
    <3> QED
      BY <1>1, <2>2, <3>1 DEF CancelTurn, NodeTyped, NodeNumbers, Running, Recorded
  <2> QED
    BY <2>1, <2>2
<1>3. CASE ~(work > 0 /\ work <= n /\ state # "none")
  <2>1. UNCHANGED <<work, receipts, request, turn, ending, events, ended, starts, effects, aborted, state, outcome,
                   dropped>>
    BY <1>3 DEF CancelTurn, NodeTyped, NodeNumbers
  <2>2. state = "queued" => mark' < work
    BY <1>3, CancelWorkIs DEF CancelTurn, NodeTyped, NodeNumbers, Running
  <2> QED
    BY <1>1, <2>1, <2>2 DEF NodeTyped, NodeNumbers, Running, Recorded
<1> QED
  BY <1>2, <1>3

\* Any call that arrives, in time or late.
LEMMA HandleKeepsNode ==
  ASSUME NodeInv, out.turn \in 0..MaxTurns, NEW call \in Calls(out.turn), NEW said, Handle(call, said), out' = out
  PROVE  NodeInv'
<1>1. CASE \E n \in 1..out.turn : call = RunCall(n)
  <2>1. PICK n \in 1..out.turn : call = RunCall(n)
    BY <1>1
  <2>2. Run(n, said)
    BY <2>1 DEF Handle, RunCall
  <2> QED
    BY <2>2, RunKeepsNode
<1>2. CASE \E n \in 1..out.turn : call = CancelCall(n)
  <2>1. PICK n \in 1..out.turn : call = CancelCall(n)
    BY <1>2
  <2>2. CancelTurn(n, said)
    BY <2>1 DEF Handle, CancelCall
  <2> QED
    BY <2>2, CancelKeepsNode
<1>3. CASE \E r \in Requests, o \in {"result", "error"} : call = ReplyCall(r, o)
  <2>1. PICK r \in Requests, o \in {"result", "error"} : call = ReplyCall(r, o)
    BY <1>3
  <2>2. TakeReply(r, o, said)
    BY <2>1 DEF Handle, ReplyCall
  <2> QED
    BY <2>1, <2>2 DEF TakeReply, NodeInv, NodeTyped, NodeNumbers, Running, Recorded, node, history
<1> QED
  BY <1>1, <1>2, <1>3 DEF Calls

\* Its hub, its people and its restarts.
LEMMA NodeStepsKeepNode ==
  ASSUME NodeInv, out.turn \in 0..MaxTurns, out' = out,
         \/ NodeStarts \/ NodeDrops \/ NodeNotes \/ NodeFinishes \/ NodeForgets \/ NodeUserCancels
         \/ NodeRestart \/ NodeDeletes
         \/ \E r \in Requests : NodeRelays(r)
  PROVE  NodeInv'
<1> USE Bounds DEF NodeInv, Active, Final
<1>0. /\ work \in 0..MaxTurns /\ (work > 0 => work \in Turns) /\ (turn # 0 => turn \in Turns)
      /\ state # "none" => work \in Turns
  BY DEF NodeTyped, NodeNumbers, Running
<1>1. CASE NodeStarts
  <2>1. work \in Turns /\ turn' = work /\ state' = "running" /\ work' = work /\ ending' = ending
    BY <1>1, <1>0 DEF NodeStarts
  <2>2. starts' = [starts EXCEPT ![work] = 1]
    <3>1. starts[work] = 0 /\ starts' = [starts EXCEPT ![work] = @ + 1]
      BY <1>1 DEF NodeStarts, Recorded
    <3> QED
      BY <3>1
  <2>3. NodeTyped'
    <3>1. starts' \in [Turns -> Nat]
      BY <2>2 DEF NodeTyped, NodeNumbers
    <3>2. NodeNumbers' /\ turn' \in 0..work' /\ events' \in Nat /\ ended' \in 0..events'
      BY <1>1, <2>1 DEF NodeStarts, NodeTyped, NodeNumbers
    <3> QED
      BY <1>1, <2>1, <3>1, <3>2 DEF NodeStarts, NodeTyped
  <2>4. Running'
    <3>1. ~ending
      BY <1>1 DEF NodeStarts, Running
    <3> QED
      BY <1>1, <2>1, <3>1 DEF NodeStarts, Running, NodeTyped, NodeNumbers
  <2>5. Recorded'
    BY <1>1, <2>1, <2>2 DEF NodeStarts, Recorded, NodeTyped, NodeNumbers
  <2> QED
    BY <2>3, <2>4, <2>5
<1>2. CASE NodeFinishes
  <2>1. PICK s \in Final : /\ (s = "cancelled") <=> aborted
                           /\ state' = (IF state = "none" THEN "none" ELSE s)
                           /\ outcome' = [outcome EXCEPT ![turn] = s]
    BY <1>2 DEF NodeFinishes
  <2>2. turn \in Turns /\ work \in Turns /\ s \in Final
    BY <1>2, <1>0 DEF NodeFinishes, NodeTyped, NodeNumbers
  <2>3. NodeTyped'
    <3>1. NodeNumbers' /\ turn' \in 0..work' /\ events' \in Nat /\ ended' \in 0..events'
      BY <1>2 DEF NodeFinishes, NodeTyped, NodeNumbers
    <3> QED
      BY <1>2, <2>1, <2>2, <3>1 DEF NodeFinishes, NodeTyped
  <2>4. Running'
    BY <1>2, <2>1, <2>2 DEF NodeFinishes, Running, NodeTyped, NodeNumbers
  <2>5. Recorded'
    <3>1. s = "done" => turn = work
      BY <1>2, <2>1 DEF NodeFinishes, Running
    <3> QED
      BY <1>2, <2>1, <2>2, <3>1 DEF NodeFinishes, Recorded, NodeTyped, NodeNumbers
  <2> QED
    BY <2>3, <2>4, <2>5
<1>3. CASE NodeForgets
  <2>1. NodeTyped'
    <3>1. NodeNumbers' /\ turn' \in 0..work'
      BY <1>3 DEF NodeForgets, NodeTyped, NodeNumbers
    <3> QED
      BY <1>3, <3>1 DEF NodeForgets, NodeTyped, history
  <2>2. Running' /\ Recorded'
    BY <1>3 DEF NodeForgets, Running, Recorded, history
  <2> QED
    BY <2>1, <2>2
<1>4. CASE NodeUserCancels
  BY <1>4, CancelWorkIs DEF NodeUserCancels, NodeTyped, NodeNumbers
<1>5. CASE NodeRestart
  <2>1. CASE state \in Active
    <3>1. /\ state' = "failed" /\ outcome' = [outcome EXCEPT ![work] = "failed"] /\ events' = events + 1
          /\ ended' = events + 1 /\ dropped' = FALSE
          /\ turn' = 0 /\ aborted' = FALSE /\ ending' = FALSE /\ work \in Turns
          /\ UNCHANGED <<work, receipts, mark, request, starts>>
      BY <1>5, <2>1, <1>0 DEF NodeRestart
    <3>2. NodeTyped'
      <4>1. NodeNumbers' /\ turn' \in 0..work' /\ events' \in Nat /\ ended' \in 0..events'
        BY <3>1 DEF NodeTyped, NodeNumbers
      <4> QED
        BY <3>1, <4>1 DEF NodeTyped
    <3>3. Running' /\ Recorded'
      BY <3>1 DEF NodeTyped, NodeNumbers, Running, Recorded
    <3> QED
      BY <3>2, <3>3
  <2>2. CASE state \notin Active
    <3>1. /\ UNCHANGED <<state, outcome, events, ended, work, receipts, mark, request, starts>>
          /\ dropped' = FALSE /\ turn' = 0 /\ aborted' = FALSE /\ ending' = FALSE
      BY <1>5, <2>2 DEF NodeRestart
    <3>2. NodeTyped'
      <4>1. NodeNumbers' /\ turn' \in 0..work' /\ events' \in Nat /\ ended' \in 0..events'
        BY <3>1 DEF NodeTyped, NodeNumbers
      <4> QED
        BY <3>1, <4>1 DEF NodeTyped
    <3>3. Running' /\ Recorded'
      BY <2>2, <3>1 DEF NodeTyped, NodeNumbers, Running, Recorded
    <3> QED
      BY <3>2, <3>3
  <2> QED
    BY <2>1, <2>2
<1>6. CASE NodeDeletes
  <2>1. NodeTyped'
    BY <1>6 DEF NodeDeletes, history, NodeTyped, NodeNumbers
  <2>2. turn # 0 /\ ~ending => aborted
    BY <1>6 DEF NodeDeletes, Running
  <2> QED
    BY <1>6, <2>1, <2>2 DEF NodeDeletes, history, Running, Recorded
<1>7. CASE \E r \in Requests : NodeRelays(r)
  BY <1>7 DEF NodeRelays, history, NodeTyped, NodeNumbers, Running, Recorded
<1>8. CASE NodeDrops
  <2>1. /\ work \in Turns /\ turn = 0
        /\ UNCHANGED <<work, receipts, mark, request, turn, aborted, ending, starts, ended>>
    BY <1>8, <1>0 DEF NodeDrops
  <2>2. CASE dropped' = TRUE /\ UNCHANGED <<state, outcome, events>>
    BY <2>1, <2>2 DEF NodeTyped, NodeNumbers, Running, Recorded
  <2>3. CASE /\ state' = "failed" /\ outcome' = [outcome EXCEPT ![work] = "failed"]
             /\ events' \in {events, events + 1} /\ dropped' = dropped
    <3>1. events' \in Nat /\ ended' \in 0..events'
      BY <2>1, <2>3 DEF NodeTyped
    <3>2. outcome' \in [Turns -> Final \cup {"none"}]
      BY <2>1, <2>3 DEF NodeTyped
    <3>3. NodeTyped'
      BY <2>1, <2>3, <3>1, <3>2 DEF NodeTyped, NodeNumbers
    <3>4. Running' /\ Recorded'
      BY <2>1, <2>3 DEF NodeTyped, NodeNumbers, Running, Recorded
    <3> QED
      BY <3>3, <3>4
  <2> QED
    BY <1>8, <2>2, <2>3 DEF NodeDrops
<1>9. CASE NodeNotes
  <2>1. events' \in Nat /\ ended' \in 0..events'
    BY <1>9 DEF NodeNotes, NodeTyped, history
  <2>2. NodeTyped'
    BY <1>9, <2>1 DEF NodeNotes, NodeTyped, NodeNumbers, history
  <2> QED
    BY <1>9, <2>2 DEF NodeNotes, Running, Recorded, history
<1> QED
  BY <1>1, <1>2, <1>3, <1>4, <1>5, <1>6, <1>7, <1>8, <1>9

(***************************************************************************)
(* The coordinator, and what is under way.                                 *)
(***************************************************************************)

\* Whoever the coordinator calls has a number it sent.
LEMMA UnderwayIs ==
  ASSUME CoordinatorTyped, Control
  PROVE  Underway \subseteq Calls(out.turn)
<1>1. {ReplyCall(r, calling[r]) : r \in Sending} \subseteq Calls(out.turn)
  BY DEF Sending, Calls
<1>2. loop \in Awaiting => out.turn \in 1..out.turn
  BY DEF Control, CoordinatorTyped
<1>3. loop = "run" => RunCall(out.turn) \in Calls(out.turn)
  BY <1>2 DEF Awaiting, Calls
<1>4. loop \in {"precancel", "cancel"} => CancelCall(out.turn) \in Calls(out.turn)
  BY <1>2 DEF Awaiting, Calls
<1> QED
  BY <1>1, <1>3, <1>4 DEF Underway

CoordinatorInv == CoordinatorTyped /\ Control /\ Carried

\* A page ends where the events do, or is full.
LEMMA MinIs == ASSUME NEW a \in Nat, NEW b \in Nat PROVE Min({a, b}) = IF a <= b THEN a ELSE b
BY DEF Min

\* It begins after the cursor, or after what expired.
LEMMA BaseIs == out.seq \in Nat /\ events \in Nat => Base \in Nat /\ Base >= out.seq
<1> SUFFICES ASSUME out.seq \in Nat, events \in Nat PROVE Base \in Nat /\ Base >= out.seq
  OBVIOUS
<1>1. out.seq \in Int /\ events - MaxEvents \in Int
  BY Bounds
<1>2. \A a, b \in Int : Max({a, b}) = IF a >= b THEN a ELSE b
  BY DEF Max
<1> QED
  BY <1>1, <1>2 DEF Base

\* What the coordinator does leaves the node as it is; turns are only ever added.
LEMMA NodeLeftAlone ==
  ASSUME NodeInv, out.turn \in Nat, UNCHANGED <<node, starts, outcome, ended>>,
         out'.turn \in Nat, out.turn <= out'.turn
  PROVE  NodeInv'
<1>1. NodeTyped'
  BY DEF NodeInv, NodeTyped, NodeNumbers, node
<1>2. Running' /\ Recorded'
  BY DEF NodeInv, Running, Recorded, node
<1> QED
  BY <1>1, <1>2 DEF NodeInv

\* No call of team.run, team.cancel or team.reply has the effect of a tool, or writes the
\* coordinator's transcript.
LEMMA HandleEffects ==
  ASSUME NEW call, NEW said, Handle(call, said)
  PROVE  UNCHANGED <<effects, taken, told>>
BY DEF Handle, Run, CancelTurn, TakeReply, history

\* What is sent stays among what was sent.
LEMMA CallsGrow ==
  ASSUME NEW m \in Nat, NEW n \in Nat, m <= n
  PROVE  Calls(m) \subseteq Calls(n)
<1>1. 1..m \subseteq 1..n
  OBVIOUS
<1> QED
  BY <1>1 DEF Calls

\* The hub of the coordinator.
LEMMA HubKeepsCoordinator == ASSUME CoordinatorInv, Hub PROVE CoordinatorInv'
<1> USE Bounds DEF CoordinatorInv, Active, Final, Awaiting
<1>1. CASE Ask
  BY <1>1 DEF Ask, CoordinatorTyped, Control, Carried, history
<1>2. CASE Pump
  BY <1>2 DEF Pump, CoordinatorTyped, Control, Carried, history
<1>3. CASE Cancel
  <2>1. out'.turn = out.turn /\ out'.active = out.active /\ out'.seq = out.seq
    BY <1>3 DEF Cancel, CoordinatorTyped
  <2>2. CoordinatorTyped'
    BY <1>3 DEF Cancel, CoordinatorTyped, history
  <2>3. Control' /\ Carried'
    BY <1>3, <2>1 DEF Cancel, CoordinatorTyped, Control, Carried
  <2> QED
    BY <2>2, <2>3
<1>4. CASE CoordinatorRestart
  <2>1. wire' \subseteq Calls(out.turn)
    BY <1>4, UnderwayIs DEF CoordinatorRestart, Carried
  <2>2. row' \in Active \cup Final \cup {"none"} /\ rare' \in 0..MaxRare /\ job' \in BOOLEAN
    BY <1>4 DEF CoordinatorRestart, CoordinatorTyped
  <2>3. CoordinatorTyped'
    BY <1>4, <2>2 DEF CoordinatorRestart, CoordinatorTyped, history
  <2>4. job' => out.active
    BY <1>4 DEF CoordinatorRestart, Requeued
  <2>5. Control'
    BY <1>4, <2>4 DEF CoordinatorRestart, Control
  <2>6. Carried'
    BY <1>4, <2>1 DEF CoordinatorRestart, Carried, NoReply
  <2> QED
    BY <2>3, <2>5, <2>6
<1>5. CASE Finish
  BY <1>5 DEF Finish, CoordinatorTyped, Control, Carried, history
<1> QED
  BY <1>1, <1>2, <1>3, <1>4, <1>5 DEF Hub

\* A snapshot is taken over: its status may be the verdict, its requests are answered.
LEMMA PolledKeepsCoordinator == ASSUME CoordinatorInv, Polled PROVE CoordinatorInv'
<1> USE Bounds DEF CoordinatorInv, Active, Final, Awaiting
<1>1. PICK recorded, denied, served :
        /\ Answer(recorded, denied, served)
        /\ denied \subseteq Requests /\ served \subseteq Requests /\ recorded \subseteq Requests
        /\ \A r \in recorded : answer[r] # "none"
  <2>1. reply.requests \subseteq Requests
    BY DEF Polled, Carried
  <2> DEFINE open == {r \in reply.requests : r[1] = out.turn /\ calling[r] = "off"}
             due  == {r \in open : answer[r] = "none"}
  <2>2. PICK denied \in SUBSET due :
           \/ Answer(open \ due, denied, due \ denied)
           \/ Answer(open \ due, denied, {})
           \/ Answer({}, {}, {})
    BY DEF Polled
  <2> QED
    BY <2>1, <2>2
<1>2. /\ answer' \in [Requests -> {"none", "result", "error"}]
      /\ calling' \in [Requests -> {"off", "working", "result", "error"}]
  BY <1>1 DEF Answer, CoordinatorTyped
<1>3. kept' \subseteq Requests /\ effects' \in [Requests -> Nat]
  BY <1>1 DEF Answer, Effect, CoordinatorTyped
<1>4. /\ {reply.base, reply.seq} \subseteq Nat /\ loop = "poll" /\ Drained \in BOOLEAN /\ (Drained => reply.status \in Final)
      /\ out' = [out EXCEPT !.seq = reply.seq, !.active = ~Drained]
      /\ verdict' = IF Drained THEN reply.status ELSE "none"
      /\ loop' = IF Drained THEN "finish" ELSE "sleep"
      /\ reply' = NoReply
      /\ taken' = taken \cup (reply.base + 1)..reply.seq /\ told' = told \cup (out.seq + 1)..reply.base
      /\ UNCHANGED <<row, asked, job, wire, healthy, rare>>
  BY DEF Polled, Carried, Drained
<1>5. /\ out' \in [turn : 0..MaxTurns, active : BOOLEAN, cancel : BOOLEAN, seq : Nat]
      /\ out'.turn = out.turn /\ out'.active = ~Drained
  BY <1>4 DEF CoordinatorTyped
<1>6. CoordinatorTyped'
  <2>1. taken' \subseteq Nat /\ told' \subseteq Nat
    BY <1>4 DEF CoordinatorTyped
  <2> QED
    BY <1>2, <1>3, <1>4, <1>5, <2>1 DEF CoordinatorTyped
<1>7. Control'
  BY <1>4, <1>5 DEF Control, CoordinatorTyped
<1>8. Carried'
  BY <1>4, <1>5 DEF Carried, NoReply
<1> QED
  BY <1>6, <1>7, <1>8

\* execute() from one await to the next.
LEMMA LoopKeepsCoordinator == ASSUME CoordinatorInv, Loop PROVE CoordinatorInv'
<1> USE Bounds DEF CoordinatorInv, Active, Final, Awaiting
<1>1. CASE Dispatch
  <2>1. CASE out.active
    BY <1>1, <2>1 DEF Dispatch, Await, NoReply, CoordinatorTyped, Control, Carried, history
  <2>2. CASE ~out.active
    <3>1. /\ out' = [out EXCEPT !.turn = @ + 1, !.active = TRUE, !.cancel = FALSE]
          /\ answer' \in [Requests -> {"none", "result", "error"}] /\ kept' \subseteq Requests
          /\ loop' = "describe" /\ reply' = NoReply /\ loop = "dispatch" /\ verdict = "none"
          /\ UNCHANGED <<row, asked, job, verdict, calling, wire, healthy, effects, taken, told, rare>>
      BY <1>1, <2>2 DEF Dispatch, Await, CoordinatorTyped, Control, history
    <3>2. /\ out' \in [turn : 0..MaxTurns, active : BOOLEAN, cancel : BOOLEAN, seq : Nat]
          /\ out'.turn = out.turn + 1 /\ out'.active /\ out'.turn <= asked /\ out'.turn > 0
      <4>1. out.turn \in Nat /\ out.turn < asked /\ asked \in 0..MaxTurns
        BY <2>2, <3>1 DEF CoordinatorTyped, Control
      <4>2. out.turn + 1 \in 0..MaxTurns /\ out.turn + 1 <= asked /\ out.turn + 1 > 0
        BY <4>1
      <4> QED
        BY <3>1, <4>2 DEF CoordinatorTyped
    <3>3. wire' \subseteq Calls(out'.turn)
      <4>1. out.turn \in Nat /\ out'.turn \in Nat /\ out.turn <= out'.turn
        BY <3>2 DEF CoordinatorTyped
      <4>2. Calls(out.turn) \subseteq Calls(out'.turn)
        BY <4>1, CallsGrow
      <4> QED
        BY <3>1, <4>2 DEF Carried
    <3> QED
      BY <3>1, <3>2, <3>3 DEF CoordinatorTyped, Control, Carried, NoReply
  <2> QED
    BY <2>1, <2>2
<1>2. CASE Described \/ PreCancelled \/ Follow \/ CancelTold \/ Reconnects
  <2>1. /\ loop' \in Awaiting /\ loop \in Awaiting \cup {"sleep"} /\ reply' = NoReply
        /\ UNCHANGED <<row, asked, out, answer, kept, job, verdict, calling, wire, healthy, effects, taken, told, rare>>
    BY <1>2 DEF Described, PreCancelled, Follow, CancelTold, Reconnects, Await, history
  <2> QED
    BY <2>1 DEF CoordinatorTyped, Control, Carried, NoReply
<1>3. CASE Polled
  BY <1>3, PolledKeepsCoordinator
<1>4. CASE GivesUp
  <2>1. /\ out' \in [turn : 0..MaxTurns, active : BOOLEAN, cancel : BOOLEAN, seq : Nat]
        /\ out'.turn = out.turn /\ ~out'.active
    BY <1>4 DEF GivesUp, CoordinatorTyped
  <2>2. CoordinatorTyped'
    BY <1>4, <2>1 DEF GivesUp, CoordinatorTyped, history
  <2> QED
    BY <1>4, <2>1, <2>2 DEF GivesUp, CoordinatorTyped, Control, Carried, NoReply
<1> QED
  BY <1>1, <1>2, <1>3, <1>4 DEF Loop

\* Calls and their answers, tools, the node and the faults.
LEMMA OthersKeepCoordinator ==
  ASSUME CoordinatorInv, NodeInv, Relay \/ Rpcs \/ Node \/ Fault
  PROVE  CoordinatorInv' /\ out' = out
<1> USE Bounds DEF CoordinatorInv, Active, Final, Awaiting
<1>1. ASSUME UNCHANGED <<row, asked, out, answer, kept, job, loop, verdict, wire, reply, effects, taken, told>>,
             calling' \in [Requests -> {"off", "working", "result", "error"}],
             healthy' \in BOOLEAN, rare' \in 0..MaxRare
      PROVE  CoordinatorInv'
  BY <1>1 DEF CoordinatorTyped, Control, Carried
<1>2. ASSUME UNCHANGED <<coordinator, wire, healthy, effects, taken, told, rare>>, reply'.kind # "snapshot"
      PROVE  CoordinatorInv' /\ out' = out
  BY <1>2 DEF CoordinatorTyped, Control, Carried, coordinator
<1>3. ASSUME NEW r \in Requests, ToolDone(r) PROVE CoordinatorInv' /\ out' = out
  BY <1>3 DEF ToolDone, CoordinatorTyped, Control, Carried, history
<1>4. ASSUME NEW r \in Requests, NodeReplied(r) PROVE CoordinatorInv' /\ out' = out
  <2>1. UNCHANGED <<effects, taken, told>>
    BY <1>4 DEF NodeReplied, TakeReply, history
  <2> QED
    BY <1>4, <2>1, <1>1 DEF NodeReplied, CoordinatorTyped
<1>5. ASSUME NEW r \in Requests, NodeRelays(r) PROVE CoordinatorInv' /\ out' = out
  BY <1>5, <1>1 DEF NodeRelays, CoordinatorTyped, coordinator, history
<1>6. CASE NodeAnswers
  BY <1>6, <1>2, HandleEffects DEF NodeAnswers, Said
<1>7. CASE NodeHears
  BY <1>7, <1>1, HandleEffects DEF NodeHears, CoordinatorTyped, coordinator
<1>8. CASE NodeDescribes
  BY <1>8, <1>2 DEF NodeDescribes, Said, history
<1>9. CASE NodeSnapshot
  <2>1. UNCHANGED <<coordinator, wire, healthy, effects, taken, told, rare>> /\ loop = "poll"
    BY <1>9 DEF NodeSnapshot, history
  <2>2. CASE reply' = Said("refused")
    BY <2>1, <2>2, <1>2 DEF Said
  <2>3. CASE work # 0 /\ state # "none" /\ reply' # Said("refused")
    <3>1. /\ reply'.status = state /\ reply'.base = Base /\ reply'.seq \in PageEnds
          /\ reply'.requests \subseteq Requests
      BY <1>9, <2>3 DEF NodeSnapshot
    <3>2. state \in Active \cup Final /\ events \in Nat /\ out.seq \in Nat
      BY <2>3 DEF NodeInv, NodeTyped, CoordinatorTyped
    <3>3. Base \in Nat /\ Base + PageSize \in Nat
      BY <3>2, BaseIs
    <3>4. Min({events, Base + PageSize}) \in Nat
      BY <3>2, <3>3, MinIs
    <3>5. {reply'.base, reply'.seq} \subseteq Nat
      <4> HIDE DEF Active, Final
      <4> QED
        BY <3>1, <3>2, <3>3, <3>4 DEF PageEnds
    <3> QED
      BY <2>1, <3>1, <3>2, <3>5 DEF CoordinatorTyped, Control, Carried, coordinator
  <2> QED
    BY <1>9, <2>2, <2>3 DEF NodeSnapshot
<1>10. CASE Node
  <2>0. rare' \in 0..MaxRare
    BY <1>10 DEF Node, NodeStarts, NodeDrops, NodeNotes, NodeFinishes, NodeForgets, NodeUserCancels, CoordinatorTyped
  <2>1. UNCHANGED <<coordinator, wire, reply, healthy, effects, taken, told>>
    BY <1>10, <2>0 DEF Node, NodeStarts, NodeDrops, NodeNotes, NodeFinishes, NodeForgets, NodeUserCancels, history
  <2> QED
    BY <2>1, <2>0, <1>1 DEF CoordinatorTyped, coordinator
<1>11. CASE ConnectionLost
  <2>1. wire' \subseteq Calls(out.turn)
    BY <1>11, UnderwayIs DEF ConnectionLost, Carried
  <2>2. calling' \in [Requests -> {"off", "working", "result", "error"}]
    BY <1>11 DEF ConnectionLost, CoordinatorTyped
  <2>3. reply'.kind = "snapshot" => reply' = reply
    BY <1>11 DEF ConnectionLost, Said
  <2>4. /\ UNCHANGED <<row, asked, out, answer, kept, job, loop, verdict, healthy, effects, taken, told>> /\ rare' \in 0..MaxRare
    BY <1>11 DEF ConnectionLost, CoordinatorTyped, history
  <2> QED
    BY <2>1, <2>2, <2>3, <2>4 DEF CoordinatorTyped, Control, Carried
<1>12. CASE NodeRestart
  <2>1. calling' \in [Requests -> {"off", "working", "result", "error"}]
    BY <1>12 DEF NodeRestart, CoordinatorTyped
  <2>2. reply'.kind = "snapshot" => reply' = reply
    BY <1>12 DEF NodeRestart, Said
  <2>3. UNCHANGED <<row, asked, out, answer, kept, job, loop, verdict, wire, healthy, effects, taken, told>> /\ rare' \in 0..MaxRare
    BY <1>12 DEF NodeRestart, CoordinatorTyped
  <2> QED
    BY <2>1, <2>2, <2>3 DEF CoordinatorTyped, Control, Carried
<1>13. CASE NodeAgentEdited
  <2>1. healthy' \in BOOLEAN
    BY <1>13 DEF NodeAgentEdited, CoordinatorTyped
  <2> QED
    BY <1>13, <2>1, <1>1 DEF NodeAgentEdited, CoordinatorTyped, coordinator, history
<1>14. CASE NodeDeletes
  BY <1>14, <1>1 DEF NodeDeletes, CoordinatorTyped, coordinator, history
<1> QED
  BY <1>3, <1>4, <1>5, <1>6, <1>7, <1>8, <1>9, <1>10, <1>11, <1>12, <1>13, <1>14 DEF Relay, Rpcs, Fault

\* Both sides together.
LEMMA TypedInit == Init => Typed
<1> SUFFICES ASSUME Init PROVE Typed
  OBVIOUS
<1> USE Bounds DEF Active, Final
<1>1. CoordinatorTyped
  <2>1. out \in [turn : 0..MaxTurns, active : BOOLEAN, cancel : BOOLEAN, seq : Nat]
    BY DEF Init
  <2>2. asked \in 0..MaxTurns /\ rare \in 0..MaxRare /\ effects \in [Requests -> Nat]
    BY DEF Init
  <2> QED
    BY <2>1, <2>2 DEF Init, CoordinatorTyped
<1>2. NodeTyped
  <2>1. NodeNumbers
    <3>1. out.turn = 0 /\ work = 0 /\ mark = 0 /\ receipts = {}
      BY DEF Init
    <3>2. 1..0 = {}
      OBVIOUS
    <3> QED
      BY <3>1, <3>2 DEF Init, NodeNumbers
  <2>2. turn \in 0..work /\ events \in Nat /\ ended \in 0..events
    BY DEF Init
  <2> QED
    BY <2>1, <2>2 DEF Init, NodeTyped
<1>3. Control /\ Carried /\ Running /\ Recorded
  BY DEF Init, Control, Carried, Running, Recorded, Awaiting, NoReply
<1> QED
  BY <1>1, <1>2, <1>3 DEF Typed

\* A step keeps both sides in order.
LEMMA TypedNext == Typed /\ [Next]_vars => Typed'
<1> SUFFICES ASSUME Typed, [Next]_vars PROVE Typed'
  OBVIOUS
<1>0. CoordinatorInv /\ NodeInv
  BY DEF Typed, CoordinatorInv, NodeInv
<1>1. out.turn \in 0..MaxTurns /\ out.turn \in Nat
  BY Bounds DEF Typed, CoordinatorTyped
<1>2. SUFFICES CoordinatorInv' /\ NodeInv'
  BY DEF Typed, CoordinatorInv, NodeInv
<1>3. CASE Hub \/ Loop
  <2>1. CoordinatorInv'
    BY <1>0, <1>3, HubKeepsCoordinator, LoopKeepsCoordinator
  <2>2. UNCHANGED <<node, starts, outcome, ended>>
    BY <1>3 DEF Hub, Loop, Ask, Pump, Cancel, CoordinatorRestart, Finish, Dispatch, Described, PreCancelled,
                Follow, CancelTold, Polled, GivesUp, Reconnects, history
  <2>3. out'.turn \in {out.turn, out.turn + 1}
    BY <1>1, <1>3 DEF Typed, CoordinatorTyped, Hub, Loop, Ask, Pump, Cancel, CoordinatorRestart, Finish, Dispatch,
                Described, PreCancelled, Follow, CancelTold, Polled, GivesUp, Reconnects
  <2>4. out'.turn \in Nat /\ out.turn <= out'.turn
    BY <1>1, <2>3
  <2> QED
    BY <1>0, <1>1, <2>1, <2>2, <2>4, NodeLeftAlone
<1>4. CASE Relay \/ Rpcs \/ Node \/ Fault
  <2>1. CoordinatorInv' /\ out' = out
    BY <1>0, <1>4, OthersKeepCoordinator
  <2>2. Underway \subseteq Calls(out.turn) /\ wire \subseteq Calls(out.turn)
    BY <1>0, UnderwayIs DEF CoordinatorInv, Carried
  <2>3. CASE \/ \E r \in Requests : ToolDone(r)
             \/ NodeDescribes \/ NodeSnapshot \/ ConnectionLost \/ NodeAgentEdited
    <3>1. UNCHANGED <<node, starts, outcome, ended>>
      BY <2>3 DEF ToolDone, NodeDescribes, NodeSnapshot, ConnectionLost, NodeAgentEdited, history
    <3> QED
      BY <1>0, <1>1, <2>1, <3>1, NodeLeftAlone
  <2>4. CASE NodeAnswers
    <3>1. PICK call \in Underway, said \in {"ok", "refused", "busy"} : Handle(call, said)
      BY <2>4 DEF NodeAnswers, Underway
    <3> QED
      BY <1>0, <1>1, <2>1, <2>2, <3>1, HandleKeepsNode
  <2>5. CASE NodeHears
    <3>1. PICK call \in wire, said \in {"ok", "refused", "busy"} : Handle(call, said)
      BY <2>5 DEF NodeHears
    <3> QED
      BY <1>0, <1>1, <2>1, <2>2, <3>1, HandleKeepsNode
  <2>6. CASE \E r \in Requests : NodeReplied(r)
    <3>1. PICK r \in Sending, said \in {"ok", "refused"} : TakeReply(r, calling[r], said)
      BY <2>6 DEF NodeReplied
    <3>2. ReplyCall(r, calling[r]) \in Underway /\ Handle(ReplyCall(r, calling[r]), said)
      BY <3>1 DEF Underway, Handle, ReplyCall
    <3> QED
      BY <1>0, <1>1, <2>1, <2>2, <3>2, HandleKeepsNode
  <2>7. CASE \/ NodeStarts \/ NodeDrops \/ NodeNotes \/ NodeFinishes \/ NodeForgets \/ NodeUserCancels
             \/ NodeRestart \/ NodeDeletes
             \/ \E r \in Requests : NodeRelays(r)
    BY <1>0, <1>1, <2>1, <2>7, NodeStepsKeepNode
  <2> QED
    BY <1>4, <2>3, <2>4, <2>5, <2>6, <2>7 DEF Relay, Rpcs, Node, Fault
<1>5. CASE UNCHANGED vars
  <2>1. UNCHANGED <<coordinator, wire, reply, node, healthy, starts, outcome, ended, effects, taken, told, rare>>
    BY <1>5 DEF vars, history
  <2>2. NodeInv'
    BY <1>0, <1>1, <2>1, NodeLeftAlone DEF coordinator
  <2> QED
    BY <1>0, <2>1, <2>2 DEF CoordinatorInv, CoordinatorTyped, Control, Carried, coordinator
<1> QED
  BY <1>3, <1>4, <1>5 DEF Next

\* Every variable of the link keeps its type, the node takes in no turn that was not sent, and it
\* has a receipt for exactly those that it took in.
THEOREM LinkTyped == Spec => []TypeOK
<1>1. Typed => TypeOK
  BY DEF Typed, CoordinatorTyped, NodeTyped, NodeNumbers, TypeOK
<1> QED
  BY <1>1, TypedInit, TypedNext, PTL DEF Spec

(***************************************************************************)
(* Effects of relayed calls.                                               *)
(***************************************************************************)

\* A reply under way says what its tool call came to.
LEMMA UnderwayClaims ==
  ASSUME NEW r \in Requests, ReplyCall(r, "result") \in Underway
  PROVE  calling[r] = "result"
<1>1. \A n : ReplyCall(r, "result") # RunCall(n) /\ ReplyCall(r, "result") # CancelCall(n)
  BY DEF ReplyCall, RunCall, CancelCall
<1>2. PICK s \in Sending : ReplyCall(r, "result") = ReplyCall(s, calling[s])
  BY <1>1 DEF Underway
<1>3. r = s /\ calling[s] = "result"
  BY <1>2 DEF ReplyCall
<1> QED
  BY <1>3

\* team.reply writes an outcome that the coordinator claims, and every other call none.
LEMMA HandleClaims ==
  ASSUME NodeInv, NEW call, NEW said, Handle(call, said), NEW r \in Requests,
         request'[r] = "result", request[r] # "result",
         call \in Calls(out.turn)
  PROVE  call = ReplyCall(r, "result")
<1>1. request \in [Requests -> {"none", "open", "result", "error"}]
  BY DEF NodeInv, NodeTyped, NodeNumbers
<1>2. CASE call.op = "run"
  BY <1>2 DEF Handle, Run, TakeIn, node
<1>3. CASE call.op = "cancel"
  BY <1>3 DEF Handle, CancelTurn
<1>4. CASE call.op = "reply"
  <2>1. TakeReply(call.request, call.outcome, said)
    BY <1>4 DEF Handle
  <2>2. request' = [request EXCEPT ![call.request] = call.outcome]
    BY <2>1 DEF TakeReply, node
  <2>3. call.request = r /\ call.outcome = "result"
    BY <1>1, <2>2
  <2>4. PICK s \in Requests, o \in {"result", "error"} : call = ReplyCall(s, o)
    BY <1>4 DEF Calls, RunCall, CancelCall
  <2> QED
    BY <2>3, <2>4 DEF ReplyCall
<1> QED
  BY <1>2, <1>3, <1>4 DEF Handle

\* A receipt is written with its effect, dropped when its turn is over, and every claim comes from
\* an effect.
LEMMA ReceiptedNext == Typed /\ Receipted /\ [Next]_vars => Receipted'
<1> SUFFICES ASSUME Typed, Receipted, [Next]_vars PROVE Receipted'
  OBVIOUS
<1>0. /\ out.turn \in Nat /\ effects \in [Requests -> Nat] /\ wire \subseteq Calls(out.turn)
      /\ answer \in [Requests -> {"none", "result", "error"}]
      /\ calling \in [Requests -> {"off", "working", "result", "error"}]
      /\ request \in [Requests -> {"none", "open", "result", "error"}]
      /\ NodeInv /\ CoordinatorTyped /\ Control /\ MaxTurns \in Nat
  BY Bounds DEF Typed, CoordinatorTyped, NodeTyped, NodeNumbers, Carried, NodeInv
<1>1. ASSUME UNCHANGED <<effects, kept>>, out'.turn = out.turn,
             \A r \in Requests : Claimed(r)' => Claimed(r)
      PROVE  Receipted'
  BY <1>1 DEF Receipted
<1>2. ASSUME UNCHANGED <<effects, kept, calling, answer, wire, request>>, out'.turn = out.turn
      PROVE  Receipted'
  BY <1>2, <1>1 DEF Claimed
<1>3. ASSUME UNCHANGED <<effects, kept, answer, request>>, out'.turn = out.turn, wire' \subseteq wire \cup Underway,
             \A r \in Requests : calling'[r] \in {calling[r], "off"}
      PROVE  Receipted'
  <2>1. ASSUME NEW r \in Requests, Claimed(r)' PROVE Claimed(r)
    BY <1>3, <2>1, UnderwayClaims DEF Claimed
  <2> QED
    BY <1>1, <1>3, <2>1
<1>4. CASE Dispatch
  <2>1. CASE out.active
    BY <1>2, <1>4, <2>1 DEF Dispatch, Await, node, history
  <2>2. CASE ~out.active
    <3>1. /\ out'.turn = out.turn + 1 /\ kept' = {r \in kept : r[1] # out.turn}
          /\ UNCHANGED <<effects, calling, wire, request>>
          /\ \A r \in Requests : answer'[r] = "result" => answer[r] = "result"
      BY <1>0, <1>4, <2>2 DEF Dispatch, Await, node, history, CoordinatorTyped
    <3>2. \A r \in Requests : Claimed(r)' => Claimed(r)
      BY <3>1 DEF Claimed
    <3>3. \A r \in Requests : r[1] \in Nat
      BY <1>0, LinkAssumption
    <3> QED
      BY <1>0, <3>1, <3>2, <3>3 DEF Receipted
  <2> QED
    BY <2>1, <2>2
<1>5. CASE Polled
  <2>1. out'.turn = out.turn /\ UNCHANGED <<wire, request>>
    BY <1>5, <1>0 DEF Polled, CoordinatorTyped, node
  <2> DEFINE open == {r \in reply.requests : r[1] = out.turn /\ calling[r] = "off"}
             due  == {r \in open : answer[r] = "none"}
  <2>2. PICK recorded \in SUBSET (open \ due), denied \in SUBSET due, served \in SUBSET due :
          Answer(recorded, denied, served)
    <3>1. PICK denied \in SUBSET due :
             \/ Answer(open \ due, denied, due \ denied)
             \/ Answer(open \ due, denied, {})
             \/ Answer({}, {}, {})
      BY <1>5 DEF Polled
    <3> QED
      BY <3>1
  <2>3. ASSUME NEW r \in Requests
        PROVE  /\ effects'[r] = effects[r] + (IF r \in served \ kept THEN 1 ELSE 0)
               /\ r \in served => r[1] = out.turn
               /\ kept' = kept \cup served
               /\ calling'[r] \in {"working", "result"} => r \in served \/ Claimed(r)
               /\ answer'[r] = "result" => answer[r] = "result"
    <3>1. recorded \subseteq open \ due /\ \A s \in served : s[1] = out.turn
      OBVIOUS
    <3> HIDE DEF open, due
    <3> QED
      BY <1>0, <2>2, <3>1 DEF Answer, Effect, Claimed
  <2>4. ASSUME NEW r \in Requests, r \in served PROVE effects'[r] = 1
    BY <1>0, <2>3, <2>4 DEF Receipted
  <2>5. ASSUME NEW r \in Requests, r \notin served
        PROVE  effects'[r] = effects[r] /\ (Claimed(r)' => Claimed(r)) /\ (r \in kept' <=> r \in kept)
    BY <1>0, <2>1, <2>3, <2>5 DEF Claimed
  <2>6. \A r \in served : r \in kept'
    BY <2>2 DEF Answer
  <2> QED
    BY <2>1, <2>4, <2>5, <2>6 DEF Receipted
<1>6. ASSUME NEW r \in Requests, ToolDone(r) PROVE Receipted'
  <2>1. Claimed(r)
    BY <1>6 DEF ToolDone, Claimed
  <2>2. ASSUME NEW s \in Requests, Claimed(s)' PROVE Claimed(s)
    BY <1>0, <1>6, <2>1, <2>2 DEF ToolDone, Claimed, node
  <2> QED
    BY <1>6, <1>1, <2>2 DEF ToolDone, history
<1>7. ASSUME NEW r \in Requests, NodeReplied(r) PROVE Receipted'
  <2>1. PICK said : TakeReply(r, calling[r], said)
    BY <1>7 DEF NodeReplied
  <2>2. request' \in {request, [request EXCEPT ![r] = calling[r]]} /\ effects' = effects
    BY <2>1 DEF TakeReply, node, history
  <2>3. UNCHANGED <<kept, out, answer, wire>> /\ calling' = [calling EXCEPT ![r] = "off"]
    BY <1>7 DEF NodeReplied
  <2>4. ASSUME NEW s \in Requests, Claimed(s)' PROVE Claimed(s)
    BY <1>0, <2>2, <2>3, <2>4 DEF Claimed
  <2> QED
    BY <1>1, <2>2, <2>3, <2>4
<1>8. ASSUME NEW r \in Requests, NodeRelays(r) PROVE Receipted'
  <2>1. ASSUME NEW s \in Requests, Claimed(s)' PROVE Claimed(s)
    BY <1>0, <1>8, <2>1 DEF NodeRelays, Claimed, coordinator
  <2> QED
    BY <1>1, <1>8, <2>1 DEF NodeRelays, coordinator, history
<1>9. ASSUME NEW call \in Calls(out.turn), NEW said, Handle(call, said), UNCHANGED <<coordinator, wire>>,
             \A r \in Requests : call = ReplyCall(r, "result") => call \in wire
      PROVE  Receipted'
  <2>1. ASSUME NEW r \in Requests, Claimed(r)' PROVE Claimed(r)
    BY <1>0, <1>9, <2>1, HandleClaims DEF Claimed, coordinator
  <2> QED
    BY <1>1, <1>9, <2>1, HandleEffects DEF coordinator
<1>10. CASE NodeAnswers
  <2>1. PICK call, said : /\ Handle(call, said) /\ loop \in {"precancel", "run", "cancel"}
                          /\ call = IF loop = "run" THEN RunCall(out.turn) ELSE CancelCall(out.turn)
    BY <1>10 DEF NodeAnswers
  <2>2. call \in Underway /\ Underway \subseteq Calls(out.turn)
    BY <2>1, <1>0, UnderwayIs DEF Underway
  <2>3. \A r \in Requests : call # ReplyCall(r, "result")
    BY <2>1 DEF RunCall, CancelCall, ReplyCall
  <2> QED
    BY <1>9, <1>10, <2>1, <2>2, <2>3 DEF NodeAnswers
<1>11. CASE NodeHears
  BY <1>9, <1>11, <1>0 DEF NodeHears
<1>12. CASE CoordinatorRestart \/ ConnectionLost \/ NodeRestart
  <2>1. \A r \in Requests : calling'[r] \in {calling[r], "off"}
    BY <1>12 DEF CoordinatorRestart, ConnectionLost, NodeRestart
  <2>2. UNCHANGED <<effects, kept, answer, request, out>> /\ wire' \subseteq wire \cup Underway
    BY <1>12 DEF CoordinatorRestart, ConnectionLost, NodeRestart, node, history
  <2> QED
    BY <1>3, <2>1, <2>2
<1>13. CASE NodeDeletes
  <2>1. ASSUME NEW r \in Requests, Claimed(r)' PROVE Claimed(r)
    BY <1>0, <1>13, <2>1 DEF NodeDeletes, Claimed, coordinator
  <2> QED
    BY <1>1, <1>13, <2>1 DEF NodeDeletes, coordinator, history
<1>14. CASE Cancel \/ GivesUp
  <2>1. UNCHANGED <<effects, kept, calling, answer, wire, request>> /\ out'.turn = out.turn
    BY <1>0, <1>14 DEF Cancel, GivesUp, node, history, CoordinatorTyped
  <2> QED
    BY <1>2, <2>1
<1>15. CASE \/ Ask \/ Pump \/ Finish \/ Described \/ PreCancelled \/ Follow \/ CancelTold \/ Reconnects
            \/ NodeDescribes \/ NodeSnapshot \/ Node \/ NodeAgentEdited \/ UNCHANGED vars
  <2>1. UNCHANGED <<effects, kept, calling, answer, wire, request, out>>
    BY <1>15 DEF Ask, Pump, Finish, Described, PreCancelled, Follow, CancelTold, Reconnects, Await, NodeDescribes,
                 NodeSnapshot, Node, NodeStarts, NodeDrops, NodeNotes, NodeFinishes, NodeForgets, NodeUserCancels,
                 NodeAgentEdited,
                 vars, coordinator, node, history
  <2> QED
    BY <1>2, <2>1
<1> QED
  BY <1>4, <1>5, <1>6, <1>7, <1>8, <1>10, <1>11, <1>12, <1>13, <1>14, <1>15
     DEF Next, Hub, Loop, Relay, Rpcs, Fault

\* A relayed call has its effect once at most, whatever is repeated, and its cell hears of a result
\* only if it had it.
THEOREM EffectsOnce == Spec => []EffectOnce
<1>1. Init => Receipted
  BY DEF Init, Receipted, Claimed
<1>2. Receipted => EffectOnce
  BY DEF Receipted, Claimed, EffectOnce
<1> QED
  BY <1>1, <1>2, TypedInit, TypedNext, ReceiptedNext, PTL DEF Spec

\* teamEffect() keeps its receipt as long as the coordinator can ask again, so that a repeated
\* call is answered from it; a result on the wire stands for an effect that was had.
THEOREM ReceiptsOutliveRetries == Spec => []Receipted
<1>1. Init => Receipted
  BY DEF Init, Receipted, Claimed
<1> QED
  BY <1>1, TypedInit, TypedNext, ReceiptedNext, PTL DEF Spec

(***************************************************************************)
(* What "done" stands for.                                                 *)
(***************************************************************************)

\* A call changes nothing of a turn that is done, and the last turn sent is not taken in again.
LEMMA HandleKeepsDone ==
  ASSUME NodeInv, out.turn \in Nat, out' = out, NEW call \in Calls(out.turn), NEW said, Handle(call, said)
  PROVE  /\ work = out.turn => work' = work
         /\ DoneThere => DoneThere' /\ ended' = ended
         /\ call.op = "run" /\ said = "ok" => call.turn <= work'
<1> USE DEF Active, Final
<1>0. receipts = 1..work /\ work \in Nat
  BY DEF NodeInv, NodeTyped, NodeNumbers
<1>1. CASE \E n \in 1..out.turn : call = RunCall(n)
  <2>1. PICK n \in 1..out.turn : call = RunCall(n)
    BY <1>1
  <2>2. Run(n, said) /\ call.turn = n
    BY <2>1 DEF Handle, RunCall
  <2>3. n = work + 1 => work # out.turn
    BY <1>0
  <2>4. n \in receipts => n <= work
    BY <1>0
  <2>5. \/ UNCHANGED <<node, history>> /\ (said = "ok" => n \in receipts)
        \/ n = work + 1 /\ work' = n
    BY <2>2 DEF Run, TakeIn
  <2>6. UNCHANGED <<node, history>> => (DoneThere => DoneThere' /\ ended' = ended) /\ work' = work
    BY DEF DoneThere, node, history
  <2>7. n = work + 1 => ~DoneThere
    BY <2>3 DEF DoneThere
  <2> QED
    BY <1>0, <2>2, <2>3, <2>4, <2>5, <2>6, <2>7
<1>2. CASE \E n \in 1..out.turn : call = CancelCall(n)
  <2>1. PICK n \in 1..out.turn : call = CancelCall(n)
    BY <1>2
  <2>2. CancelTurn(n, said) /\ call.op = "cancel"
    BY <2>1 DEF Handle, CancelCall
  <2>3. UNCHANGED <<work, turn, ending, ended>>
    BY <2>2 DEF CancelTurn
  <2>4. DoneThere => state' = state /\ outcome' = outcome
    BY <2>2 DEF CancelTurn, CancelWork, DoneThere
  <2> QED
    BY <2>2, <2>3, <2>4 DEF DoneThere
<1>3. CASE \E r \in Requests, o \in {"result", "error"} : call = ReplyCall(r, o)
  <2>1. PICK r \in Requests, o \in {"result", "error"} : call = ReplyCall(r, o)
    BY <1>3
  <2>2. TakeReply(r, o, said) /\ call.op = "reply"
    BY <2>1 DEF Handle, ReplyCall
  <2> QED
    BY <2>2 DEF TakeReply, DoneThere, node, history
<1> QED
  BY <1>1, <1>2, <1>3 DEF Calls

\* So does the node's hub, whatever happens to it.
LEMMA NodeStepsKeepDone ==
  ASSUME NodeInv, out' = out,
         \/ NodeStarts \/ NodeDrops \/ NodeNotes \/ NodeFinishes \/ NodeForgets \/ NodeUserCancels
         \/ NodeRestart \/ NodeDeletes
         \/ \E r \in Requests : NodeRelays(r)
  PROVE  work' = work /\ (DoneThere => DoneThere' /\ ended' = ended)
BY DEF NodeStarts, NodeDrops, NodeNotes, NodeFinishes, NodeForgets, NodeUserCancels, CancelWork, NodeRestart,
       NodeDeletes, NodeRelays, DoneThere, Active, Final, history

\* A snapshot that ends where the transcript was read to is the end of the transcript.
LEMMA SnapshotIs ==
  ASSUME Typed, Heeded, NodeSnapshot, reply'.kind = "snapshot", reply'.status = "done"
  PROVE  DoneThere /\ (reply'.seq = out.seq => out.seq >= ended)
<1>1. loop = "poll" /\ work = out.turn
  BY DEF NodeSnapshot, Heeded
<1>2. /\ work # 0 /\ state = reply'.status
      /\ reply'.seq \in PageEnds
  BY DEF NodeSnapshot, Said
<1>3. work > 0 /\ outcome[work] = "done" /\ (turn = 0 \/ ending)
  BY <1>2 DEF Typed, NodeTyped, NodeNumbers, Recorded, Running
<1>4. /\ events \in Nat /\ out.seq \in Nat /\ ended \in 0..events
      /\ Base \in Nat /\ Base >= out.seq /\ Base + PageSize \in Nat
  BY Bounds, BaseIs DEF Typed, NodeTyped, CoordinatorTyped
<1>5. reply'.seq = out.seq => out.seq >= ended
  <2>1. Min({events, Base + PageSize}) \in Nat
    BY <1>4, MinIs
  <2> QED
    BY <1>2, <1>4, <2>1 DEF PageEnds
<1> QED
  BY <1>1, <1>2, <1>3, <1>5 DEF DoneThere

\* Nothing but the last page of a turn that is done makes the coordinator say so.
LEMMA HeededNext == Typed /\ Heeded /\ [Next]_vars => Heeded'
<1> SUFFICES ASSUME Typed, Heeded, [Next]_vars PROVE Heeded'
  OBVIOUS
<1>0. /\ out.turn \in Nat /\ NodeInv /\ CoordinatorInv
      /\ loop # "off" => row = "running" /\ ~job
      /\ (loop = "finish") <=> (verdict # "none")
      /\ reply.kind = "snapshot" => loop = "poll"
      /\ row = "done" => loop = "off" /\ verdict = "none"
      /\ wire \subseteq Calls(out.turn) /\ Underway \subseteq Calls(out.turn)
  BY Bounds, UnderwayIs DEF Typed, CoordinatorTyped, CoordinatorInv, NodeInv, Control, Carried
<1>1. CASE Ask \/ Pump \/ Cancel \/ CoordinatorRestart
  <2>1. /\ row' = "done" => row = "done"
        /\ verdict' = "done" => verdict = "done"
        /\ loop' \in {loop, "off", "dispatch"} /\ reply' \in {reply, NoReply}
        /\ out'.turn = out.turn /\ out'.seq = out.seq /\ UNCHANGED <<node, starts, outcome, ended>>
        /\ loop' # loop => reply' = NoReply \/ loop = "off"
    BY <1>0, <1>1 DEF Ask, Pump, Cancel, CoordinatorRestart, Typed, CoordinatorTyped, history
  <2> QED
    BY <1>0, <2>1 DEF Heeded, DoneThere, NoReply, node
<1>2. CASE Finish
  BY <1>0, <1>2 DEF Finish, Heeded, DoneThere, node, history
<1>3. CASE Dispatch \/ Described \/ PreCancelled \/ Reconnects \/ GivesUp
  <2>1. /\ verdict' # "done" /\ row' # "done" /\ reply' = NoReply
        /\ loop' \in {"describe", "precancel", "run", "finish"}
    BY <1>0, <1>3 DEF Dispatch, Described, PreCancelled, Reconnects, GivesUp, Await, Awaiting
  <2> QED
    BY <2>1 DEF Heeded, NoReply
<1>4. CASE Follow \/ CancelTold
  <2>1. /\ verdict' # "done" /\ row' # "done" /\ reply' = NoReply /\ work = out.turn
        /\ UNCHANGED <<out, node, ended>>
    BY <1>0, <1>4 DEF Follow, CancelTold, Await, Heeded, history
  <2> QED
    BY <2>1 DEF Heeded, NoReply, node
<1>5. CASE Polled
  <2>1. /\ loop = "poll" /\ reply.kind = "snapshot" /\ row' # "done" /\ reply' = NoReply
        /\ out'.turn = out.turn /\ out'.seq = reply.seq
        /\ verdict' = "done" => reply.status = "done" /\ reply.seq = out.seq
        /\ UNCHANGED <<node, outcome, ended>>
    BY <1>0, <1>5 DEF Polled, Drained, Typed, CoordinatorTyped, CoordinatorInv
  <2> QED
    BY <2>1 DEF Heeded, DoneThere, NoReply, node
<1>6. ASSUME out' = out, UNCHANGED <<row, verdict, loop>>, reply'.kind \in {"snapshot", "ok"} => reply' = reply,
             work = out.turn => work' = work, DoneThere => DoneThere' /\ ended' = ended
      PROVE  Heeded'
  BY <1>6 DEF Heeded
<1>7. CASE \/ NodeStarts \/ NodeDrops \/ NodeNotes \/ NodeFinishes \/ NodeForgets \/ NodeUserCancels
           \/ NodeRestart \/ NodeDeletes
           \/ \E r \in Requests : NodeRelays(r)
  <2>1. out' = out /\ UNCHANGED <<row, verdict, loop>> /\ (reply'.kind \in {"snapshot", "ok"} => reply' = reply)
    BY <1>7 DEF NodeStarts, NodeDrops, NodeNotes, NodeFinishes, NodeForgets, NodeUserCancels, NodeRestart,
                NodeDeletes, NodeRelays, coordinator, Said
  <2> QED
    BY <1>0, <1>6, <1>7, <2>1, NodeStepsKeepDone
<1>8. CASE NodeAnswers
  <2>1. PICK said : /\ Handle(IF loop = "run" THEN RunCall(out.turn) ELSE CancelCall(out.turn), said)
                    /\ reply' = Said(said)
                    /\ said \in {"ok", "refused", "busy"}
    BY <1>8 DEF NodeAnswers
  <2> DEFINE call == IF loop = "run" THEN RunCall(out.turn) ELSE CancelCall(out.turn)
  <2>2. call \in Calls(out.turn) /\ out' = out /\ UNCHANGED <<row, verdict, loop>>
    <3>1. call \in Underway
      BY <1>8 DEF NodeAnswers, Underway
    <3> QED
      BY <1>0, <1>8, <3>1 DEF NodeAnswers, coordinator
  <2>3. /\ work = out.turn => work' = work
        /\ DoneThere => DoneThere' /\ ended' = ended
        /\ call.op = "run" /\ said = "ok" => call.turn <= work'
    BY <1>0, <2>1, <2>2, HandleKeepsDone
  <2>4. loop = "run" /\ reply'.kind = "ok" => work' = out.turn
    <3>1. loop = "run" => call.op = "run" /\ call.turn = out.turn
      BY DEF RunCall
    <3>2. work' \in 0..out.turn
      <4>1. NodeInv'
        BY <1>0, <2>1, <2>2, HandleKeepsNode DEF Typed, CoordinatorTyped
      <4> QED
        BY <2>2, <4>1 DEF NodeInv, NodeTyped, NodeNumbers
    <3> QED
      BY <1>0, <2>1, <2>3, <3>1, <3>2 DEF Said
  <2>5. reply'.kind # "snapshot" /\ loop \in {"precancel", "run", "cancel"}
    BY <1>8, <2>1 DEF Said, NodeAnswers
  <2> QED
    BY <2>2, <2>3, <2>4, <2>5 DEF Heeded
<1>9. CASE NodeHears
  <2>1. PICK call \in wire, said \in {"ok", "refused", "busy"} : Handle(call, said)
    BY <1>9 DEF NodeHears
  <2>2. UNCHANGED <<out, row, verdict, loop, reply>>
    BY <1>9 DEF NodeHears, coordinator
  <2> QED
    BY <1>0, <1>6, <2>1, <2>2, HandleKeepsDone
<1>10. CASE \E r \in Requests : NodeReplied(r)
  <2>1. UNCHANGED <<out, row, verdict, loop, reply, work, outcome, state, turn, ending, ended>>
    BY <1>10 DEF NodeReplied, TakeReply, node, history
  <2> QED
    BY <1>6, <2>1 DEF DoneThere
<1>11. CASE NodeSnapshot
  <2>1. UNCHANGED <<coordinator, node, outcome, ended>> /\ loop = "poll"
    BY <1>11 DEF NodeSnapshot, history
  <2> QED
    BY <1>11, <2>1, SnapshotIs DEF Heeded, DoneThere, coordinator, node
<1>12. CASE \/ NodeDescribes \/ ConnectionLost \/ NodeAgentEdited \/ UNCHANGED vars
            \/ \E r \in Requests : ToolDone(r)
  <2>1. /\ UNCHANGED <<out, row, verdict, loop, node, outcome, ended>>
        /\ reply'.kind = "snapshot" => reply' = reply
        /\ reply'.kind = "ok" => reply' = reply \/ loop = "describe"
    BY <1>12 DEF NodeDescribes, ConnectionLost, NodeAgentEdited, ToolDone, vars, coordinator, history, Said
  <2> QED
    BY <2>1 DEF Heeded, DoneThere, node
<1> QED
  BY <1>1, <1>2, <1>3, <1>4, <1>5, <1>7, <1>8, <1>9, <1>10, <1>11, <1>12
     DEF Next, Hub, Loop, Relay, Rpcs, Node, Fault

\* What the coordinator has read past is in its transcript, or a notice there stands for it.
Read == 1..out.seq \subseteq taken \cup told

\* Only a page moves the cursor: over what expired with a notice, and over its own events.
LEMMA ReadNext == Typed /\ Read /\ [Next]_vars => Read'
<1> SUFFICES ASSUME Typed, Read, [Next]_vars PROVE Read'
  OBVIOUS
<1>0. out.seq \in Nat /\ CoordinatorInv /\ NodeInv
  BY DEF Typed, CoordinatorTyped, CoordinatorInv, NodeInv
<1>1. CASE Polled
  <2>1. /\ reply.base \in Nat /\ reply.seq \in Nat /\ out'.seq = reply.seq
        /\ taken' = taken \cup (reply.base + 1)..reply.seq /\ told' = told \cup (out.seq + 1)..reply.base
    BY <1>1 DEF Polled, Typed, Carried, CoordinatorTyped
  <2>2. ASSUME NEW n \in 1..reply.seq PROVE n \in taken' \cup told'
    <3>1. CASE n <= out.seq
      BY <1>0, <2>1, <2>2, <3>1 DEF Read
    <3>2. CASE out.seq < n /\ n <= reply.base
      BY <1>0, <2>1, <2>2, <3>2
    <3>3. CASE reply.base < n
      BY <2>1, <2>2, <3>3
    <3> QED
      BY <1>0, <2>1, <2>2, <3>1, <3>2, <3>3
  <2> QED
    BY <2>1, <2>2 DEF Read
<1>2. ASSUME out'.seq = out.seq, UNCHANGED <<taken, told>> PROVE Read'
  BY <1>2 DEF Read
<1>3. CASE \/ Hub \/ Dispatch \/ Described \/ PreCancelled \/ Follow \/ CancelTold \/ GivesUp \/ Reconnects
           \/ UNCHANGED vars
  <2>1. out'.seq = out.seq
    BY <1>3 DEF Hub, Ask, Pump, Cancel, CoordinatorRestart, Finish, Dispatch, Described, PreCancelled, Follow,
                CancelTold, GivesUp, Reconnects, vars, coordinator, Typed, CoordinatorTyped
  <2>2. UNCHANGED <<taken, told>>
    BY <1>3 DEF Hub, Ask, Pump, Cancel, CoordinatorRestart, Finish, Dispatch, Described, PreCancelled, Follow,
                CancelTold, GivesUp, Reconnects, vars, history
  <2> QED
    BY <1>2, <2>1, <2>2
<1>4. CASE Relay \/ Rpcs \/ Node \/ Fault
  <2>1. out' = out
    BY <1>0, <1>4, OthersKeepCoordinator
  <2>2. UNCHANGED <<taken, told>>
    <3>1. CASE NodeAnswers \/ NodeHears
      BY <3>1, HandleEffects DEF NodeAnswers, NodeHears
    <3>2. CASE \E r \in Requests : NodeReplied(r)
      BY <3>2 DEF NodeReplied, TakeReply, history
    <3>3. CASE \/ \E r \in Requests : ToolDone(r) \/ NodeRelays(r)
               \/ NodeDescribes \/ NodeSnapshot \/ Node \/ Fault
      BY <3>3 DEF ToolDone, NodeRelays, NodeDescribes, NodeSnapshot, Node, NodeStarts, NodeDrops, NodeNotes,
                  NodeFinishes, NodeForgets, NodeUserCancels, Fault, ConnectionLost, NodeRestart, NodeAgentEdited,
                  NodeDeletes, history
    <3> QED
      BY <1>4, <3>1, <3>2, <3>3 DEF Relay, Rpcs
  <2> QED
    BY <1>2, <2>1, <2>2
<1> QED
  BY <1>1, <1>3, <1>4 DEF Next, Loop

\* A turn that is shown as done has its transcript to its end, with a notice where events expired on
\* the node, whatever was fetched and lost before (poll, appendEvent's trimming, the drain in run).
THEOREM TranscriptsComplete == Spec => []TranscriptComplete
<1>1. Init => Heeded /\ Read
  BY DEF Init, Heeded, Read, NoReply
<1>2. Typed /\ Heeded /\ Read => TranscriptComplete
  <2> SUFFICES ASSUME Typed, Heeded, Read, row = "done" PROVE out.seq >= ended /\ 1..ended \subseteq taken \cup told
    BY DEF TranscriptComplete
  <2>1. out.seq \in Nat /\ ended \in Nat /\ out.seq >= ended
    BY DEF Typed, CoordinatorTyped, NodeTyped, Heeded
  <2>2. 1..ended \subseteq 1..out.seq
    BY <2>1
  <2> QED
    BY <2>1, <2>2 DEF Read
<1> QED
  BY <1>1, <1>2, TypedInit, TypedNext, HeededNext, ReadNext, PTL DEF Spec

(***************************************************************************)
(* The link implements RemoteTurn: every step of it is one of the promise, *)
(* or changes nothing that the promise speaks of.                          *)
(***************************************************************************)

Stutter == UNCHANGED <<Heard, out.turn, starts, outcome>>

\* hub.cancelTask() on the node ends the last turn taken in, or none.
LEMMA CancelWorkImplements ==
  ASSUME NodeInv, out.turn \in 0..MaxTurns, UNCHANGED <<Heard, out, starts>>,
         CancelWork \/ UNCHANGED outcome
  PROVE  Remote!Next \/ Stutter
<1> USE DEF Active, Final, Remote!Outcomes, Remote!Turns
<1>1. CASE UNCHANGED outcome
  BY <1>1 DEF Stutter
<1>2. CASE CancelWork /\ state # "queued"
  BY <1>2 DEF CancelWork, Stutter
<1>3. CASE CancelWork /\ state = "queued"
  <2>1. work \in Turns /\ work <= out.turn /\ outcome[work] = "none"
    BY <1>3, Bounds DEF NodeInv, NodeTyped, NodeNumbers, Running, Recorded
  <2>2. outcome' = [outcome EXCEPT ![work] = "cancelled"]
    BY <1>3 DEF CancelWork
  <2>3. Remote!End(work, "cancelled")
    BY <2>1, <2>2 DEF Remote!End
  <2> QED
    BY <2>1, <2>3 DEF Remote!Next, Turns
<1> QED
  BY <1>1, <1>2, <1>3

\* A call ends one turn at most: what is queued is never cancelled along with the turn after it.
LEMMA HandleImplements ==
  ASSUME NodeInv, out.turn \in 0..MaxTurns, UNCHANGED <<Heard, out>>,
         NEW call \in Calls(out.turn), NEW said, Handle(call, said)
  PROVE  Remote!Next \/ Stutter
<1>1. CASE \E n \in 1..out.turn : call = RunCall(n)
  <2>1. PICK n \in 1..out.turn : call = RunCall(n)
    BY <1>1
  <2>2. Run(n, said)
    BY <2>1 DEF Handle, RunCall
  <2>3. CASE UNCHANGED outcome
    BY <2>2, <2>3 DEF Run, Stutter, history
  <2>4. CASE /\ n = work + 1 /\ CancelledFirst(n)
             /\ outcome' = [m \in Turns |-> IF m = n \/ (m = work /\ state = "queued")
                                            THEN "cancelled" ELSE outcome[m]]
             /\ starts' = starts
    <3>1. n \in Turns /\ n <= out.turn /\ outcome[n] = "none" /\ state # "queued"
      BY <2>4, Bounds DEF NodeInv, NodeTyped, NodeNumbers, Running, Recorded, CancelledFirst
    <3>2. outcome' = [outcome EXCEPT ![n] = "cancelled"]
      BY <2>4, <3>1 DEF NodeInv, NodeTyped
    <3>3. Remote!End(n, "cancelled")
      BY <2>4, <3>1, <3>2 DEF Remote!End
    <3> QED
      BY <3>1, <3>3 DEF Remote!Next, Remote!Outcomes, Remote!Turns, Turns
  <2> QED
    BY <2>2, <2>3, <2>4 DEF Run, history
<1>2. CASE \E n \in 1..out.turn : call = CancelCall(n)
  <2>1. PICK n \in 1..out.turn : call = CancelCall(n)
    BY <1>2
  <2>2. CancelTurn(n, said)
    BY <2>1 DEF Handle, CancelCall
  <2> QED
    BY <2>2, CancelWorkImplements DEF CancelTurn
<1>3. CASE \E r \in Requests, o \in {"result", "error"} : call = ReplyCall(r, o)
  <2>1. PICK r \in Requests, o \in {"result", "error"} : call = ReplyCall(r, o)
    BY <1>3
  <2>2. TakeReply(r, o, said)
    BY <2>1 DEF Handle, ReplyCall
  <2> QED
    BY <2>2 DEF TakeReply, Stutter, history
<1> QED
  BY <1>1, <1>2, <1>3 DEF Calls

\* The node's turns begin once and in order, and end once.
LEMMA NodeImplements ==
  ASSUME NodeInv, out.turn \in 0..MaxTurns, UNCHANGED <<Heard, out>>,
         \/ NodeStarts \/ NodeDrops \/ NodeNotes \/ NodeFinishes \/ NodeForgets \/ NodeUserCancels
         \/ NodeRestart \/ NodeDeletes
  PROVE  Remote!Next \/ Stutter
<1> USE Bounds DEF Active, Final, Remote!Outcomes, Remote!Turns, Turns
<1>0. /\ starts \in [Turns -> Nat] /\ outcome \in [Turns -> Final \cup {"none"}]
      /\ work \in 0..out.turn /\ turn \in 0..work
      /\ state # "none" => work \in Turns
  BY DEF NodeInv, NodeTyped, NodeNumbers, Running
<1>1. CASE NodeStarts
  <2>1. work \in Turns /\ outcome[work] = "none" /\ starts[work] = 0 /\ work <= out.turn
    BY <1>0, <1>1 DEF NodeStarts, NodeInv, Recorded
  <2>2. \A m \in Turns : m >= work => starts[m] = 0
    BY <1>0, <2>1 DEF NodeInv, Recorded
  <2>3. starts' = [starts EXCEPT ![work] = 1]
    <3>1. starts' = [starts EXCEPT ![work] = @ + 1]
      BY <1>1 DEF NodeStarts
    <3> QED
      BY <2>1, <3>1
  <2>4. Remote!Begin(work)
    BY <1>1, <2>1, <2>2, <2>3 DEF NodeStarts, Remote!Begin
  <2> QED
    BY <2>1, <2>4 DEF Remote!Next
<1>2. CASE NodeFinishes
  <2>1. PICK s \in Final : /\ (s = "cancelled") <=> aborted
                           /\ outcome' = [outcome EXCEPT ![turn] = s]
    BY <1>2 DEF NodeFinishes
  <2>2. turn \in Turns /\ turn <= out.turn /\ outcome[turn] = "none" /\ starts[turn] = 1
    BY <1>0, <1>2 DEF NodeFinishes, NodeInv, Recorded
  <2>3. Remote!End(turn, s)
    BY <1>2, <2>1, <2>2 DEF NodeFinishes, Remote!End
  <2> QED
    BY <2>1, <2>2, <2>3 DEF Remote!Next
<1>3. CASE NodeForgets \/ NodeNotes \/ NodeDeletes
  BY <1>3 DEF NodeForgets, NodeNotes, NodeDeletes, Stutter, history
<1>4. CASE NodeUserCancels
  BY <1>4, CancelWorkImplements DEF NodeUserCancels
<1>5. CASE NodeRestart
  <2>1. CASE state \in Active
    <3>1. work \in Turns /\ work <= out.turn /\ outcome[work] = "none"
      BY <1>0, <2>1 DEF NodeInv, Running, Recorded
    <3>2. outcome' = [outcome EXCEPT ![work] = "failed"] /\ starts' = starts
      BY <1>5, <2>1 DEF NodeRestart
    <3>3. Remote!End(work, "failed")
      BY <3>1, <3>2 DEF Remote!End
    <3> QED
      BY <3>1, <3>3 DEF Remote!Next
  <2>2. CASE state \notin Active
    BY <1>5, <2>2 DEF NodeRestart, Stutter
  <2> QED
    BY <2>1, <2>2
<1>6. CASE NodeDrops
  <2>1. starts' = starts /\ state = "queued" /\ outcome' \in {outcome, [outcome EXCEPT ![work] = "failed"]}
    BY <1>6 DEF NodeDrops
  <2>2. work \in Turns /\ work <= out.turn /\ outcome[work] = "none"
    BY <1>0, <2>1 DEF NodeInv, Recorded
  <2>3. outcome' # outcome => Remote!End(work, "failed")
    BY <2>1, <2>2 DEF Remote!End
  <2> QED
    BY <2>1, <2>2, <2>3 DEF Remote!Next, Stutter
<1> QED
  BY <1>1, <1>2, <1>3, <1>4, <1>5, <1>6

\* What the coordinator shows opens with a request and closes once, and "done" is what the node did.
LEMMA CoordinatorImplements ==
  ASSUME Typed, Heeded, Hub \/ Loop, UNCHANGED <<starts, outcome>>
  PROVE  Remote!Next \/ Stutter
<1> USE Bounds DEF Active, Final, Remote!Outcomes, Heard
<1>0. /\ out.turn \in 0..MaxTurns
      /\ loop # "off" => row = "running"
      /\ (loop = "finish") <=> (verdict # "none")
      /\ verdict \in Final \cup {"none"} /\ row \in Active \cup Final \cup {"none"}
  BY DEF Typed, CoordinatorTyped, Control
<1>1. CASE Ask
  <2>1. Heard # "open" /\ Heard' = "open" /\ out' = out
    BY <1>0, <1>1 DEF Ask
  <2> QED
    BY <1>0, <1>1, <2>1 DEF Ask, Remote!Ask, Remote!Next
<1>2. ASSUME out'.turn = out.turn, NEW s \in Final, row \in Active, row' = s,
             s = "done" => out.turn > 0 /\ outcome[out.turn] = "done"
      PROVE  Remote!Next
  <2>1. Heard = "open" /\ Heard' = s
    BY <1>2
  <2> QED
    BY <1>2, <2>1 DEF Remote!Hear, Remote!Next
<1>3. CASE Cancel
  <2>1. out'.turn = out.turn /\ row \in Active
    BY <1>3 DEF Cancel, Typed, CoordinatorTyped
  <2>2. row' \in {row, "cancelled"}
    BY <1>3 DEF Cancel
  <2> QED
    BY <1>2, <2>1, <2>2 DEF Stutter
<1>4. CASE CoordinatorRestart
  <2>1. /\ out' = out
        /\ \/ row \notin Active /\ row' = row
           \/ row \in Active /\ row' \in {"queued", "failed"}
    BY <1>4 DEF CoordinatorRestart
  <2> QED
    BY <1>2, <2>1 DEF Stutter
<1>5. CASE Finish
  <2>1. row = "running" /\ row' = verdict /\ verdict \in Final /\ out' = out
    BY <1>0, <1>5 DEF Finish
  <2>2. verdict = "done" => out.turn > 0 /\ outcome[out.turn] = "done"
    BY DEF Heeded, DoneThere
  <2> QED
    BY <1>2, <2>1, <2>2
<1>6. CASE Dispatch /\ ~out.active
  <2>1. out'.turn = out.turn + 1 /\ row' = row /\ row = "running"
    BY <1>0, <1>6 DEF Dispatch, Typed, CoordinatorTyped
  <2>2. out.turn < MaxTurns
    BY <1>6 DEF Dispatch, Typed, Control, CoordinatorTyped
  <2> QED
    BY <2>1, <2>2 DEF Remote!Send, Remote!Next
<1>7. CASE \/ Dispatch /\ out.active
           \/ Pump \/ Described \/ PreCancelled \/ Follow \/ CancelTold \/ Polled \/ GivesUp \/ Reconnects
  <2>0. out \in [turn : 0..MaxTurns, active : BOOLEAN, cancel : BOOLEAN, seq : Nat]
    BY DEF Typed, CoordinatorTyped
  <2>1. out'.turn = out.turn
    <3>1. CASE Polled
      <4>1. out' = [out EXCEPT !.seq = reply.seq, !.active = ~Drained]
        BY <3>1 DEF Polled
      <4> QED
        BY <2>0, <4>1
    <3>2. CASE GivesUp
      <4>1. out' = [out EXCEPT !.active = FALSE]
        BY <3>2 DEF GivesUp
      <4> QED
        BY <2>0, <4>1
    <3>3. CASE \/ Dispatch /\ out.active
               \/ Pump \/ Described \/ PreCancelled \/ Follow \/ CancelTold \/ Reconnects
      <4>1. out' = out
        BY <3>3 DEF Dispatch, Pump, Described, PreCancelled, Follow, CancelTold, Reconnects
      <4> QED
        BY <4>1
    <3> QED
      BY <1>7, <3>1, <3>2, <3>3
  <2>2. row' = row \/ (row' \in Active /\ row \in Active)
    <3>1. CASE Pump
      BY <3>1 DEF Pump
    <3>2. CASE \/ Dispatch
               \/ Described \/ PreCancelled \/ Follow \/ CancelTold \/ Polled \/ GivesUp \/ Reconnects
      BY <3>2 DEF Dispatch, Described, PreCancelled, Follow, CancelTold, Polled, GivesUp, Reconnects
    <3> QED
      BY <1>7, <3>1, <3>2
  <2>3. UNCHANGED <<starts, outcome>> /\ Heard' = Heard
    BY <2>2
  <2> QED
    BY <2>1, <2>3 DEF Stutter
<1> QED
  BY <1>1, <1>3, <1>4, <1>5, <1>6, <1>7 DEF Hub, Loop

\* Every step of the link is a step of the promise or changes nothing it speaks of.
LEMMA StepImplements == Typed /\ Heeded /\ [Next]_vars => [Remote!Next]_(Remote!remoteVars)
<1> SUFFICES ASSUME Typed, Heeded, [Next]_vars PROVE Remote!Next \/ Stutter
  BY DEF Stutter, Remote!remoteVars
<1>0. /\ NodeInv /\ CoordinatorInv /\ out.turn \in 0..MaxTurns
      /\ wire \subseteq Calls(out.turn) /\ Underway \subseteq Calls(out.turn)
  BY UnderwayIs DEF Typed, CoordinatorTyped, CoordinatorInv, NodeInv, Carried
<1>1. CASE Hub \/ Loop
  <2>1. UNCHANGED <<starts, outcome>>
    BY <1>1 DEF Hub, Loop, Ask, Pump, Cancel, CoordinatorRestart, Finish, Dispatch, Described, PreCancelled,
                Follow, CancelTold, Polled, GivesUp, Reconnects, history
  <2> QED
    BY <1>1, <2>1, CoordinatorImplements
<1>2. CASE \/ NodeStarts \/ NodeDrops \/ NodeNotes \/ NodeFinishes \/ NodeForgets \/ NodeUserCancels
           \/ NodeRestart \/ NodeDeletes
  <2>1. UNCHANGED <<Heard, out>>
    BY <1>2 DEF NodeStarts, NodeDrops, NodeNotes, NodeFinishes, NodeForgets, NodeUserCancels, NodeRestart, NodeDeletes, coordinator, Heard
  <2> QED
    BY <1>0, <1>2, <2>1, NodeImplements
<1>3. CASE NodeAnswers
  <2>1. PICK call \in Underway, said \in {"ok", "refused", "busy"} : Handle(call, said)
    BY <1>3 DEF NodeAnswers, Underway
  <2>2. UNCHANGED <<Heard, out>>
    BY <1>3 DEF NodeAnswers, coordinator, Heard
  <2> QED
    BY <1>0, <2>1, <2>2, HandleImplements
<1>4. CASE NodeHears
  <2>1. PICK call \in wire, said \in {"ok", "refused", "busy"} : Handle(call, said)
    BY <1>4 DEF NodeHears
  <2>2. UNCHANGED <<Heard, out>>
    BY <1>4 DEF NodeHears, coordinator, Heard
  <2> QED
    BY <1>0, <2>1, <2>2, HandleImplements
<1>5. CASE \/ Relay \/ NodeDescribes \/ NodeSnapshot \/ ConnectionLost \/ NodeAgentEdited \/ UNCHANGED vars
  BY <1>5 DEF Relay, ToolDone, NodeReplied, TakeReply, NodeRelays, NodeDescribes, NodeSnapshot, ConnectionLost,
              NodeAgentEdited, vars, coordinator, node, history, Stutter, Heard
<1> QED
  BY <1>1, <1>2, <1>3, <1>4, <1>5 DEF Next, Rpcs, Node, Fault

\* The coordinator and the execution node, with all that gets lost between them and both of them
\* stopping anywhere, keep the promise of a turn on another machine: turns begin once and in their
\* order, and a success that is shown did happen.
THEOREM LinkImplements == Spec => ImplementsRemoteTurn
<1>1. Init => Remote!Init
  BY DEF Init, Remote!Init, Heard, Active, Turns, Remote!Turns
<1>2. Init => Heeded
  BY DEF Init, Heeded, NoReply
<1> QED
  BY <1>1, <1>2, TypedInit, TypedNext, HeededNext, StepImplements, PTL DEF Spec, ImplementsRemoteTurn, Remote!Spec

(***************************************************************************)
(* What the promise is worth: these follow from RemoteTurn alone, and so   *)
(* hold of the coordinator and its node.                                   *)
(***************************************************************************)

\* A step of the promise keeps what it says of the turns so far.
LEMMA PromiseNext == Remote!Promise /\ [Remote!Next]_(Remote!remoteVars) => Remote!Promise'
<1> SUFFICES ASSUME Remote!Promise, [Remote!Next]_(Remote!remoteVars) PROVE Remote!Promise'
  OBVIOUS
<1> USE Bounds DEF Remote!Turns, Remote!Outcomes, Remote!Promise
<1>1. CASE Remote!Ask
  BY <1>1 DEF Remote!Ask
<1>2. CASE Remote!Send
  BY <1>2 DEF Remote!Send
<1>3. ASSUME NEW n \in Remote!Turns, Remote!Begin(n) PROVE Remote!Promise'
  BY <1>3 DEF Remote!Begin
<1>4. ASSUME NEW n \in Remote!Turns, NEW s \in Remote!Outcomes, Remote!End(n, s) PROVE Remote!Promise'
  BY <1>4 DEF Remote!End
<1>5. ASSUME NEW s \in Remote!Outcomes, Remote!Hear(s) PROVE Remote!Promise'
  BY <1>5 DEF Remote!Hear
<1>6. CASE UNCHANGED Remote!remoteVars
  BY <1>6 DEF Remote!remoteVars
<1> QED
  BY <1>1, <1>2, <1>3, <1>4, <1>5, <1>6 DEF Remote!Next

\* It takes back no outcome, and begins no turn that was passed.
LEMMA PromiseKeeps ==
  ASSUME Remote!Promise, Remote!Next, NEW n \in Remote!Turns
  PROVE  /\ outcome[n] # "none" => outcome'[n] = outcome[n]
         /\ starts[n] = 0 /\ (\E m \in Remote!Turns : m > n /\ starts[m] = 1) => starts'[n] = 0
<1> USE Bounds DEF Remote!Turns, Remote!Promise
<1>1. ASSUME UNCHANGED <<starts, outcome>>
      PROVE  starts'[n] = starts[n] /\ outcome'[n] = outcome[n]
  BY <1>1
<1>2. ASSUME NEW m \in Remote!Turns, Remote!Begin(m)
      PROVE  /\ outcome'[n] = outcome[n]
             /\ starts[n] = 0 /\ (\E k \in Remote!Turns : k > n /\ starts[k] = 1) => starts'[n] = 0
  <2>1. n # m => starts'[n] = starts[n]
    BY <1>2 DEF Remote!Begin
  <2>2. ~\E k \in Remote!Turns : k > m /\ starts[k] = 1
    BY <1>2 DEF Remote!Begin
  <2> QED
    BY <1>2, <2>1, <2>2 DEF Remote!Begin
<1>3. ASSUME NEW m \in Remote!Turns, NEW s, Remote!End(m, s)
      PROVE  starts'[n] = starts[n] /\ (outcome[n] # "none" => outcome'[n] = outcome[n])
  BY <1>3 DEF Remote!End
<1> QED
  BY <1>1, <1>2, <1>3 DEF Remote!Next, Remote!Ask, Remote!Send, Remote!Hear

\* What the coordinator shows as done is the last turn that it sent, which the node began exactly once
\* and ended so, over every reconnection and restart (follow, dispatch, the node's receipts).
THEOREM LinkShowsTheTruth == Spec => []Remote!DoneIsTrue
<1>1. Remote!Init => Remote!Promise
  BY Bounds DEF Remote!Init, Remote!Promise, Remote!Turns, Remote!Outcomes
<1>2. Remote!Promise => Remote!DoneIsTrue
  BY Bounds DEF Remote!Promise, Remote!DoneIsTrue, Remote!Turns
<1> QED
  BY <1>1, <1>2, PromiseNext, LinkImplements, PTL DEF ImplementsRemoteTurn, Remote!Spec

\* The node gives a turn one outcome for ever, and begins none after a later one began, though calls
\* arrive late and twice.
THEOREM NodeTakesNothingBack == Spec => Remote!NeverTakenBack
<1>1. Remote!Init => Remote!Promise
  BY Bounds DEF Remote!Init, Remote!Promise, Remote!Turns, Remote!Outcomes
<1>2. Remote!Promise /\ [Remote!Next]_(Remote!remoteVars) =>
        [\A n \in Remote!Turns :
           /\ outcome[n] # "none" => outcome'[n] = outcome[n]
           /\ starts[n] = 0 /\ (\E m \in Remote!Turns : m > n /\ starts[m] = 1) => starts'[n] = 0
        ]_(Remote!remoteVars)
  BY PromiseKeeps
<1> QED
  BY <1>1, <1>2, PromiseNext, LinkImplements, PTL DEF ImplementsRemoteTurn, Remote!Spec, Remote!NeverTakenBack
===============================================================================
