---------------------------- MODULE PeerTasksProofs ----------------------------
(* Theorems about PeerTasks, for any turns, budget, shares, page size and bounds. *)
EXTENDS PeerTasks, TLAPS

(***************************************************************************)
(* The inductive invariant, part by part.                                  *)
(***************************************************************************)

Spans   == [start : 0..Budget, end : 0..Budget]
Outbox  == [turn : 0..MaxTurns, slots : Spans, cursor : Nat,
            cancelled : BOOLEAN, settled : BOOLEAN, error : BOOLEAN]

OriginTyped ==
  /\ above \in Spans /\ out \in Outbox
  /\ row \in Active \cup Final \cup {"none"} /\ shadow \in Active \cup {"none", "over"}
  /\ sync \in {"off", "cancel", "run", "poll"} /\ told \in BOOLEAN
  /\ broken \subseteq {"own", "child"} /\ rare \in 0..MaxRare /\ clipped \in BOOLEAN

Numbers ==
  /\ work \in 0..out.turn /\ receipts = 1..work /\ mark \in 0..out.turn
  /\ turn \in 0..work

TaskTyped ==
  /\ state \in Active \cup Final \cup {"none"} /\ child \in Active \cup {"none", "over"}
  /\ aborted \in BOOLEAN /\ ending \in BOOLEAN
  /\ events \in Nat /\ ended \in 0..events
  /\ starts \in [Turns -> Nat] /\ outcome \in [Turns -> Final \cup {"none"}]

SpansTyped == slots \in Spans /\ share \in Spans /\ spent \in [Slots -> Nat]

\* A mirror that waits is not settled; only an outbox that is not settled is worked on, and its
\* cancel is read before it is told.
Control ==
  /\ (row = "none") <=> (out.turn = 0)
  /\ row = "none" => out.settled
  /\ row \in Active => ~out.settled
  /\ sync # "off" => ~out.settled
  /\ told => sync # "off"
  /\ sync = "off" => ~told

Calls(n) == {RunCall(m) : m \in 1..n} \cup {CancelCall(m) : m \in 1..n}

\* Only what the origin sent is under way, and only a poll gets a snapshot.
Carried ==
  /\ wire \subseteq Calls(out.turn)
  /\ reply.kind = "snapshot" => /\ sync = "poll"
                                /\ reply.status \in Active \cup Final /\ reply.seq \in Nat
                                /\ reply.clipped \in BOOLEAN
                                /\ reply.child \in Active \cup {"none", "over"}

\* A queued turn was not cancelled before; a running one is the last taken in; a turn that goes
\* on although its row says otherwise was aborted.
Running ==
  /\ state # "none" => work > 0
  /\ state = "queued" => turn = 0 /\ mark < work
  /\ state = "running" => turn = work /\ ~ending
  /\ turn # 0 /\ ~ending => state = "running" \/ (aborted /\ state \in {"cancelled", "none"})
  /\ ending => turn # 0

\* What the executor did with each turn.
Recorded ==
  /\ \A m \in Turns : m > work => starts[m] = 0 /\ outcome[m] = "none"
  /\ state = "queued" => starts[work] = 0 /\ outcome[work] = "none"
  /\ turn # 0 /\ ~ending => starts[turn] = 1 /\ outcome[turn] = "none"
  /\ state = "done" => outcome[work] = "done"

Typed == OriginTyped /\ Numbers /\ TaskTyped /\ Control /\ Carried /\ Running /\ Recorded

(* The budget *)

In(s, r) == r.start <= s /\ s < r.end

\* The range on its way to the executor: the outbox keeps it, but only the first turn brings it.
InTransit == IF work = 0 THEN out.slots ELSE NoSlots

\* What is left is in one place only, and not spent.
Disjoint ==
  \A s \in Slots :
    /\ ~(In(s, above) /\ In(s, InTransit)) /\ ~(In(s, above) /\ In(s, slots)) /\ ~(In(s, above) /\ In(s, share))
    /\ ~(In(s, InTransit) /\ In(s, slots)) /\ ~(In(s, InTransit) /\ In(s, share))
    /\ ~(In(s, slots) /\ In(s, share))

Unspent ==
  \A s \in Slots : /\ spent[s] <= 1
                   /\ In(s, above) \/ In(s, InTransit) \/ In(s, slots) \/ In(s, share) => spent[s] = 0

\* Before the task there is nothing to share out, and its child brings its own share.
Untouched ==
  /\ row = "none" => out.slots = NoSlots /\ (above.start = 0 => \A s \in Slots : spent[s] = 0)
  /\ work = 0 => slots = NoSlots /\ share = NoSlots
  /\ child = "none" => share = NoSlots

Budgeted == SpansTyped /\ Disjoint /\ Unspent /\ Untouched

(* What the origin may believe *)

\* The last turn sent is over on the executor, and nothing below it starts again.
Quiet == child \notin Active /\ (turn = 0 \/ ending)
OverThere(status) == work = out.turn /\ state \notin Active /\ (status = "cancelled" \/ Quiet)

DoneThere ==
  /\ work = out.turn /\ work > 0 /\ outcome[work] = "done"
  /\ state \in {"done", "none"} /\ (turn = 0 \/ ending)

\* Who polls has the turn taken in, what was told is marked, and what a snapshot says stays true.
Heeded ==
  /\ sync = "poll" \/ (sync = "run" /\ reply.kind = "ok") => work = out.turn
  /\ told /\ (sync \in {"run", "poll"} \/ reply.kind = "ok") => mark >= out.turn
  /\ reply.kind = "snapshot" =>
       /\ reply.status \in Final /\ reply.child \notin Active => OverThere(reply.status)
       /\ reply.status = "done" => DoneThere
       /\ (reply.status = "done" \/ row = "done") /\ Complete(reply) => reply.seq >= ended \/ reply.clipped
       /\ row = "done" => reply.seq >= ended \/ clipped

\* What is settled or shown is so.
Believed ==
  /\ out.settled /\ ~out.error => OverThere(row)
  /\ out.settled /\ out.cancelled /\ ~out.error => mark >= out.turn
  /\ row = "done" => DoneThere /\ (out.cursor >= ended \/ clipped)

(***************************************************************************)
(* The executor: its RPCs and its hub.                                     *)
(***************************************************************************)

ExecutorInv == Numbers /\ TaskTyped /\ Running /\ Recorded

\* The bounds, as the steps below need them.
LEMMA Bounds ==
  /\ MaxTurns \in Nat /\ MaxRare \in Nat /\ PageSize \in Nat /\ PageSize > 0
  /\ MaxEvents \in Nat /\ MaxEvents > 0
  /\ Budget \in Nat /\ Budget > 0 /\ MaxShare \in Nat /\ MaxShare > 0
  /\ Turns = 1..MaxTurns /\ Slots = 0..(Budget - 1)
BY PeerAssumption DEF Turns, Slots

\* The smaller and the larger of two numbers.
LEMMA MinMaxIs ==
  ASSUME NEW a \in Nat, NEW b \in Nat
  PROVE  /\ Min({a, b}) = IF a <= b THEN a ELSE b
         /\ Max({a, b}) = IF a >= b THEN a ELSE b
BY DEF Min, Max

\* The first event that a page can hold comes after the origin's cursor.
LEMMA BaseIs ==
  ASSUME out.cursor \in Nat, events \in Nat
  PROVE  Base \in Nat /\ Base >= out.cursor
<1>1. out.cursor \in Int /\ events - MaxEvents \in Int
  BY Bounds
<1>2. \A a, b \in Int : Max({a, b}) = IF a >= b THEN a ELSE b
  BY DEF Max
<1> QED
  BY <1>1, <1>2 DEF Base

\* Notices only add to the transcript.
LEMMA NotedIs ==
  ASSUME events \in Nat, ended \in 0..events, NEW n \in Nat, Noted(n)
  PROVE  events' \in Nat /\ events' >= events /\ ended \in 0..events'
BY DEF Noted

\* Steps that leave the turns alone.
LEMMA ExecutorLeftAlone ==
  ASSUME ExecutorInv, out.turn \in Nat, UNCHANGED <<work, receipts, mark, turn, state, aborted, ending, starts, outcome>>,
         child' \in Active \cup {"none", "over"}, events' \in Nat, ended' \in 0..events',
         out'.turn \in Nat, out.turn <= out'.turn
  PROVE  ExecutorInv'
<1>1. Numbers' /\ TaskTyped'
  BY DEF ExecutorInv, Numbers, TaskTyped
<1>2. Running' /\ Recorded'
  BY DEF ExecutorInv, Running, Recorded
<1> QED
  BY <1>1, <1>2 DEF ExecutorInv

\* hub.cancelTask() ends a queued turn and aborts a running one.
LEMMA CancelTaskIs ==
  ASSUME ExecutorInv, out.turn \in 0..MaxTurns, CancelTask, out' = out,
         UNCHANGED <<work, receipts, turn, ending, starts, ended>>,
         mark' \in 0..out.turn, state = "queued" \/ mark' = mark
  PROVE  ExecutorInv'
<1> USE Bounds DEF ExecutorInv, Active, Final
<1>0. child' \in Active \cup {"none", "over"} /\ events' \in Nat /\ ended' \in 0..events'
  <2>1. child' \in Active \cup {"none", "over"}
    BY DEF CancelTask, ChildCancelled, TaskTyped
  <2>2. \E n \in {0, 1} : Noted(n)
    BY DEF CancelTask, ChildCancelled
  <2> QED
    BY <2>1, <2>2, NotedIs DEF TaskTyped
<1>1. CASE state = "queued"
  <2>1. work \in Turns /\ turn = 0 /\ state' = "cancelled" /\ outcome' = [outcome EXCEPT ![work] = "cancelled"]
    BY <1>1 DEF CancelTask, Running, Numbers
  <2>2. outcome' \in [Turns -> Final \cup {"none"}]
    BY <2>1 DEF TaskTyped
  <2>3. Numbers' /\ TaskTyped'
    BY <1>0, <2>1, <2>2 DEF CancelTask, Numbers, TaskTyped
  <2>4. Running' /\ Recorded'
    BY <2>1, <1>1 DEF CancelTask, Numbers, TaskTyped, Running, Recorded
  <2> QED
    BY <2>3, <2>4
<1>2. CASE state # "queued"
  <2>1. state' = state /\ outcome' = outcome /\ mark' = mark
    BY <1>2 DEF CancelTask
  <2>2. Numbers' /\ TaskTyped'
    BY <1>0, <2>1 DEF CancelTask, Numbers, TaskTyped
  <2>3. Running' /\ Recorded'
    BY <2>1 DEF CancelTask, Running, Recorded, TaskTyped
  <2> QED
    BY <2>2, <2>3
<1> QED
  BY <1>1, <1>2

\* A receipt for the next turn makes the receipts one longer.
LEMMA TakeInIs ==
  ASSUME Numbers, out.turn \in 0..MaxTurns, NEW n \in 1..out.turn, n = work + 1, TakeIn(n)
  PROVE  work' = n /\ receipts' = 1..n /\ n \in Turns
BY Bounds DEF Numbers, TakeIn

\* task.run: in each of its outcomes.
LEMMA RunKeepsExecutor ==
  ASSUME ExecutorInv, out.turn \in 0..MaxTurns, NEW n \in 1..out.turn, NEW said, Run(n, said), out' = out
  PROVE  ExecutorInv'
<1> USE Bounds DEF ExecutorInv, Active, Final
<1>1. CASE UNCHANGED <<executor, history>>
  BY <1>1 DEF executor, task, history, Numbers, TaskTyped, Running, Recorded
<1>2. CASE /\ IsNext(n) /\ CancelledFirst(n) /\ TakeIn(n) /\ state' = "cancelled"
           /\ ChildCancelled
           /\ aborted' = (aborted \/ (state = "running" /\ turn # 0))
           /\ outcome' = [m \in Turns |-> IF m = n \/ (m = work /\ state = "queued")
                                          THEN "cancelled" ELSE outcome[m]]
           /\ UNCHANGED <<mark, turn, ending, share, spent, starts, ended>>
  <2>0. child' \in Active \cup {"none", "over"} /\ events' \in Nat /\ ended' \in 0..events'
    <3>1. child' \in Active \cup {"none", "over"}
      BY <1>2 DEF ChildCancelled, TaskTyped
    <3>2. \E k \in {0, 1} : Noted(k)
      BY <1>2 DEF ChildCancelled
    <3> QED
      BY <1>2, <3>1, <3>2, NotedIs DEF TaskTyped
  <2>1. state # "queued" /\ n = work + 1
    BY <1>2 DEF IsNext, CancelledFirst, Running, Numbers
  <2>2. work' = n /\ receipts' = 1..n /\ n \in Turns
    BY <1>2, <2>1, TakeInIs
  <2>3. \A m \in Turns : outcome'[m] = IF m = n THEN "cancelled" ELSE outcome[m]
    BY <1>2, <2>1
  <2>4. outcome' \in [Turns -> Final \cup {"none"}]
    BY <1>2 DEF TaskTyped
  <2>5. Numbers'
    BY <1>2, <2>1, <2>2 DEF Numbers
  <2>6. TaskTyped'
    BY <1>2, <2>0, <2>4 DEF TaskTyped
  <2>7. Running'
    <3>1. turn # 0 /\ ~ending => state = "running" \/ aborted
      BY DEF Running
    <3>2. turn # 0 /\ ~ending => aborted'
      BY <1>2, <3>1
    <3>3. turn' = turn /\ ending' = ending /\ state' = "cancelled" /\ work' > 0
      BY <1>2, <2>2
    <3>4. ending' => turn' # 0
      BY <3>3 DEF Running
    <3> QED
      BY <3>2, <3>3, <3>4 DEF Running
  <2>8. Recorded'
    BY <1>2, <2>1, <2>2, <2>3 DEF Numbers, Recorded
  <2> QED
    BY <2>5, <2>6, <2>7, <2>8
<1>3. CASE /\ IsNext(n) /\ ~CancelledFirst(n) /\ (work > 0 => Free)
           /\ TakeIn(n) /\ state' = "queued"
           /\ UNCHANGED <<mark, turn, aborted, ending, events, child, share, history>>
  <2>1. turn = 0 /\ n = work + 1
    BY <1>3 DEF Numbers, Free, IsNext
  <2>2. work' = n /\ receipts' = 1..n /\ n \in Turns
    BY <1>3, <2>1, TakeInIs
  <2>3. Numbers' /\ TaskTyped'
    BY <1>3, <2>1, <2>2 DEF Numbers, TaskTyped, history
  <2>4. Running'
    BY <1>3, <2>1, <2>2 DEF Numbers, Running, CancelledFirst
  <2>5. Recorded'
    BY <1>3, <2>1, <2>2 DEF Numbers, Recorded, history
  <2> QED
    BY <2>3, <2>4, <2>5
<1> QED
  BY <1>1, <1>2, <1>3 DEF Run

\* task.cancel: what is queued has a higher number than every cancel noted.
LEMMA CancelKeepsExecutor ==
  ASSUME ExecutorInv, out.turn \in 0..MaxTurns, NEW n \in 1..out.turn, NEW said, CancelTurn(n, said), out' = out
  PROVE  ExecutorInv' /\ mark' >= n /\ mark' >= mark
<1> USE Bounds DEF ExecutorInv, Active, Final
<1>1. mark' \in 0..out.turn /\ mark' \in {mark, n} /\ mark' >= n /\ mark' >= mark
  <2>1. mark \in Nat /\ n \in Nat /\ mark \in 0..out.turn /\ n \in 0..out.turn /\ mark' = Max({mark, n})
    BY DEF CancelTurn, Numbers
  <2>2. mark' = IF mark >= n THEN mark ELSE n
    BY <2>1, MinMaxIs
  <2> QED
    BY <2>1, <2>2
<1>2. CASE work > 0 /\ work <= n /\ state # "none"
  <2>1. CASE state = "queued"
    BY <1>1, <1>2, <2>1, CancelTaskIs DEF CancelTurn
  <2>2. CASE state # "queued"
    <3>1. /\ state' = state /\ outcome' = outcome /\ aborted' \in BOOLEAN /\ (aborted => aborted')
          /\ child' \in Active \cup {"none", "over"}
          /\ UNCHANGED <<work, receipts, turn, ending, starts, ended>>
      BY <1>2, <2>2 DEF CancelTurn, CancelTask, ChildCancelled, TaskTyped
    <3>2. \E k \in {0, 1} : Noted(k)
      BY <1>2 DEF CancelTurn, CancelTask, ChildCancelled
    <3>3. events' \in Nat /\ ended' \in 0..events'
      BY <3>1, <3>2, NotedIs DEF TaskTyped
    <3>4. Numbers' /\ TaskTyped'
      BY <1>1, <3>1, <3>3 DEF Numbers, TaskTyped
    <3>5. Running' /\ Recorded'
      BY <2>2, <3>1 DEF Running, Recorded
    <3> QED
      BY <1>1, <3>4, <3>5
  <2> QED
    BY <1>1, <2>1, <2>2
<1>3. CASE ~(work > 0 /\ work <= n /\ state # "none")
  <2>1. UNCHANGED <<work, receipts, turn, ending, events, starts, aborted, state, outcome, child, ended>>
    BY <1>3 DEF CancelTurn, Numbers
  <2>2. state = "queued" => mark' < work
    BY <1>1, <1>3 DEF Numbers, Running
  <2> QED
    BY <1>1, <2>1, <2>2 DEF Numbers, TaskTyped, Running, Recorded
<1> QED
  BY <1>2, <1>3

\* Any call that arrives, in time or late.
LEMMA HandleIs ==
  ASSUME NEW call \in Calls(out.turn), NEW said, Handle(call, said)
  PROVE  \/ \E n \in 1..out.turn : call = RunCall(n) /\ Run(n, said)
         \/ \E n \in 1..out.turn : call = CancelCall(n) /\ CancelTurn(n, said)
<1>1. CASE \E n \in 1..out.turn : call = RunCall(n)
  BY <1>1 DEF Handle, RunCall
<1>2. CASE \E n \in 1..out.turn : call = CancelCall(n)
  BY <1>2 DEF Handle, CancelCall
<1> QED
  BY <1>1, <1>2 DEF Calls

\* So it keeps the executor in order.
LEMMA HandleKeepsExecutor ==
  ASSUME ExecutorInv, out.turn \in 0..MaxTurns, NEW call \in Calls(out.turn), NEW said, Handle(call, said), out' = out
  PROVE  ExecutorInv'
BY HandleIs, RunKeepsExecutor, CancelKeepsExecutor

\* Its hub, its people and its restarts.
LEMMA StepsKeepExecutor ==
  ASSUME ExecutorInv, out.turn \in 0..MaxTurns, out' = out, Executor \/ ExecutorRestart \/ Deleted
  PROVE  ExecutorInv'
<1> USE Bounds DEF ExecutorInv, Active, Final
<1>0. /\ work \in 0..MaxTurns /\ (work > 0 => work \in Turns) /\ (turn # 0 => turn \in Turns)
      /\ state # "none" => work \in Turns
  BY DEF Numbers, Running
<1>1. CASE Starts
  <2>1. /\ work \in Turns /\ turn' = work /\ aborted' = FALSE /\ events' \in {events, events + 1}
        /\ state = "queued" /\ turn = 0 /\ UNCHANGED <<work, receipts, mark, child, ended>>
    BY <1>1, <1>0 DEF Starts
  <2>2. Numbers' /\ events' \in Nat /\ ended' \in 0..events'
    BY <2>1 DEF Numbers, TaskTyped
  <2>3. \A m \in Turns : m > work => starts[m] = 0 /\ outcome[m] = "none"
    BY DEF Recorded
  <2>4. CASE Left(slots)
    <3>1. state' = "running" /\ ending' = FALSE /\ outcome' = outcome
      BY <1>1, <2>4 DEF Starts
    <3>2. starts' = [starts EXCEPT ![work] = 1]
      <4>1. starts[work] = 0 /\ starts' = [starts EXCEPT ![work] = @ + 1]
        BY <1>1, <2>1, <2>4 DEF Starts, Recorded
      <4> QED
        BY <4>1
    <3>3. starts' \in [Turns -> Nat]
      BY <3>2 DEF TaskTyped
    <3>4. TaskTyped' /\ Running'
      BY <2>1, <2>2, <3>1, <3>3 DEF TaskTyped, Running
    <3>5. Recorded'
      BY <2>1, <2>3, <3>1, <3>2 DEF Recorded, TaskTyped, Numbers
    <3> QED
      BY <2>2, <3>4, <3>5
  <2>5. CASE ~Left(slots)
    <3>1. state' = "failed" /\ ending' = TRUE /\ outcome' = [outcome EXCEPT ![work] = "failed"] /\ starts' = starts
      BY <1>1, <2>5 DEF Starts
    <3>2. outcome' \in [Turns -> Final \cup {"none"}]
      BY <3>1 DEF TaskTyped
    <3>3. TaskTyped'
      BY <2>1, <2>2, <3>1, <3>2 DEF TaskTyped
    <3>4. Running'
      BY <2>1, <3>1 DEF Running
    <3>5. Recorded'
      BY <2>1, <2>3, <3>1 DEF Recorded, TaskTyped, Numbers
    <3> QED
      BY <2>2, <3>3, <3>4, <3>5
  <2> QED
    BY <2>4, <2>5
<1>2. CASE Delegates \/ ChildStarts \/ ChildEnds \/ Notes
  <2>1. /\ UNCHANGED <<work, receipts, mark, turn, state, aborted, ending, starts, outcome, ended>>
        /\ child' \in Active \cup {"none", "over"}
    BY <1>2 DEF Delegates, ChildStarts, ChildEnds, Notes, TaskTyped, history
  <2>2. (\E n \in {0, 1} : Noted(n)) \/ events' \in {events, events + 1}
    BY <1>2 DEF Delegates, ChildStarts, ChildEnds, Notes
  <2>3. events' \in Nat /\ ended' \in 0..events'
    BY <2>1, <2>2, NotedIs DEF TaskTyped
  <2> QED
    BY <2>1, <2>3, ExecutorLeftAlone
<1>3. CASE Finishes
  <2>1. PICK s \in Final : /\ (s = "cancelled") <=> aborted
                           /\ state' = (IF state = "none" THEN "none" ELSE s)
                           /\ outcome' = [outcome EXCEPT ![turn] = s]
    BY <1>3 DEF Finishes
  <2>2. turn \in Turns /\ work \in Turns /\ turn # 0 /\ ~ending /\ turn <= work
    BY <1>3, <1>0 DEF Finishes, Numbers
  <2>3. UNCHANGED <<work, receipts, mark, turn, aborted, child, starts>> /\ ending' = TRUE
        /\ events' = events + 1 /\ ended' = events + 1
    BY <1>3 DEF Finishes
  <2>4. outcome' \in [Turns -> Final \cup {"none"}]
    BY <2>1, <2>2 DEF TaskTyped
  <2>5. Numbers' /\ TaskTyped'
    BY <2>1, <2>2, <2>3, <2>4 DEF Numbers, TaskTyped
  <2>6. Running'
    BY <2>1, <2>2, <2>3 DEF Running
  <2>7. Recorded'
    <3>1. s = "done" => turn = work
      BY <2>1, <2>2 DEF Running
    <3> QED
      BY <2>1, <2>2, <2>3, <3>1 DEF Recorded, TaskTyped, Numbers
  <2> QED
    BY <2>5, <2>6, <2>7
<1>4. CASE Forgets
  <2>1. /\ UNCHANGED <<work, receipts, mark, state, events, child, starts, outcome, ended>>
        /\ turn' = 0 /\ ending' = FALSE /\ aborted' = FALSE /\ ending
    BY <1>4 DEF Forgets, history
  <2>2. Numbers'
    BY <2>1 DEF Numbers
  <2>3. TaskTyped'
    BY <2>1 DEF TaskTyped
  <2> QED
    BY <2>1, <2>2, <2>3 DEF Running, Recorded
<1>5. CASE UserCancels
  <2>1. CancelTask /\ UNCHANGED <<work, receipts, turn, ending, starts, ended, mark>>
    BY <1>5 DEF UserCancels
  <2>2. mark' \in 0..out.turn
    BY <2>1 DEF Numbers
  <2> QED
    BY <2>1, <2>2, CancelTaskIs
<1>6. CASE ExecutorRestart
  <2>1. /\ UNCHANGED <<work, receipts, mark, starts>> /\ turn' = 0 /\ aborted' = FALSE /\ ending' = FALSE
        /\ child' = IF child \in Active THEN "over" ELSE child
    BY <1>6 DEF ExecutorRestart
  <2>0. events' \in Nat /\ events' >= events /\ ended \in 0..events'
    <3>1. \E n \in {0, 1, 2} : Noted(n)
      BY <1>6 DEF ExecutorRestart
    <3> QED
      BY <3>1, NotedIs DEF TaskTyped
  <2>2. CASE state \in Active
    <3>1. state' = "failed" /\ outcome' = [outcome EXCEPT ![work] = "failed"] /\ ended' = events' /\ work \in Turns
      BY <1>6, <2>2, <1>0 DEF ExecutorRestart, Recovered
    <3>2. Numbers'
      BY <2>1 DEF Numbers
    <3>3. outcome' \in [Turns -> Final \cup {"none"}] /\ events' \in Nat /\ ended' \in 0..events'
      BY <2>0, <3>1 DEF TaskTyped
    <3>4. TaskTyped'
      BY <2>1, <3>1, <3>3 DEF TaskTyped
    <3>5. Running' /\ Recorded'
      BY <2>1, <3>1 DEF Numbers, TaskTyped, Running, Recorded
    <3> QED
      BY <3>2, <3>4, <3>5
  <2>3. CASE state \notin Active
    <3>1. UNCHANGED <<state, outcome, ended>>
      BY <1>6, <2>3 DEF ExecutorRestart
    <3>2. Numbers'
      BY <2>1 DEF Numbers
    <3>3. TaskTyped'
      BY <2>0, <2>1, <3>1 DEF TaskTyped
    <3> QED
      BY <2>1, <2>3, <3>1, <3>2, <3>3 DEF Running, Recorded
  <2> QED
    BY <2>2, <2>3
<1>7. CASE Deleted
  <2>1. /\ UNCHANGED <<work, receipts, mark, turn, aborted, ending, events, starts, outcome, ended>>
        /\ state \in Final /\ state' = "none" /\ child' = "none"
    BY <1>7 DEF Deleted, history
  <2>2. Numbers' /\ TaskTyped'
    BY <2>1 DEF Numbers, TaskTyped
  <2>3. turn # 0 /\ ~ending => aborted
    BY <2>1 DEF Running
  <2>4. Running'
    BY <2>1, <2>3 DEF Running
  <2>5. Recorded'
    BY <2>1 DEF Recorded
  <2> QED
    BY <2>2, <2>4, <2>5
<1> QED
  BY <1>1, <1>2, <1>3, <1>4, <1>5, <1>6, <1>7 DEF Executor

(***************************************************************************)
(* The origin, and what is under way.                                      *)
(***************************************************************************)

OriginInv == OriginTyped /\ Control /\ Carried

\* Whatever sync() has under way has a number that was sent.
LEMMA UnderwayIs ==
  ASSUME OriginTyped, Control
  PROVE  Underway \subseteq Calls(out.turn) /\ (Underway # {} => sync # "off")
<1>1. sync # "off" => out.turn \in 1..out.turn
  <2>1. sync # "off" => out.turn # 0
    BY DEF Control
  <2>2. out.turn \in Nat
    BY Bounds DEF OriginTyped, Outbox
  <2> QED
    BY <2>1, <2>2
<1>2. CASE sync = "run"
  BY <1>1, <1>2 DEF Underway, Calls
<1>3. CASE sync = "cancel"
  BY <1>1, <1>3 DEF Underway, Calls
<1>4. CASE sync \notin {"run", "cancel"}
  BY <1>4 DEF Underway
<1> QED
  BY <1>2, <1>3, <1>4

\* What is sent stays among what was sent.
LEMMA CallsGrow ==
  ASSUME NEW m \in Nat, NEW n \in Nat, m <= n
  PROVE  Calls(m) \subseteq Calls(n)
<1>1. 1..m \subseteq 1..n
  OBVIOUS
<1> QED
  BY <1>1 DEF Calls

\* A share is at least one turn and at most what is left.
LEMMA ShareSizeIs ==
  ASSUME NEW r \in Spans, Left(r)
  PROVE  ShareSize(r) \in 1..(r.end - r.start)
<1> DEFINE d == r.end - r.start
<1>1. d \in Nat /\ d >= 1
  BY Bounds DEF Spans, Left
<1>2. d \div 2 \in Nat /\ d \div 2 <= d
  BY <1>1
<1> DEFINE m == Max({1, d \div 2})
<1>3. m \in Nat /\ m >= 1 /\ m <= d
  <2>1. m = IF 1 >= d \div 2 THEN 1 ELSE d \div 2
    BY <1>2, MinMaxIs
  <2> HIDE DEF m
  <2> QED
    BY <1>1, <1>2, <2>1
<1>4. ShareSize(r) = Min({MaxShare, m})
  BY DEF ShareSize
<1>5. ShareSize(r) = IF MaxShare <= m THEN MaxShare ELSE m
  <2> HIDE DEF m
  <2> QED
    BY <1>3, <1>4, Bounds, MinMaxIs
<1> HIDE DEF m, d
<1>6. ShareSize(r) \in 1..d
  BY <1>1, <1>3, <1>5, Bounds
<1> QED
  BY <1>6 DEF d

\* The origin's users and its tick().
LEMMA OriginKeepsOrigin == ASSUME OriginInv, Origin PROVE OriginInv'
<1> USE Bounds DEF OriginInv, Active, Final
<1>0. out.turn \in 0..MaxTurns /\ 0 \in 0..Budget /\ above \in Spans
  BY DEF OriginTyped, Outbox
<1>1. CASE TurnAbove
  <2>1. above' \in Spans
    BY <1>0, <1>1 DEF TurnAbove, Consumed, Span, Left, Spans
  <2>2. rare' \in 0..MaxRare /\ UNCHANGED <<row, out, shadow, sync, told, wire, reply, broken, clipped>>
    BY <1>1 DEF TurnAbove, OriginTyped
  <2> QED
    BY <2>1, <2>2 DEF OriginTyped, Control, Carried
<1>2. ASSUME NEW given \in Spans, Open(given), above' \in Spans, row = "none", MaxTurns > 0,
             UNCHANGED <<shadow, sync, told, wire, reply, broken, rare, clipped>>
      PROVE  OriginInv'
  <2>1. out' = [out EXCEPT !.turn = 1, !.slots = given, !.settled = FALSE] /\ row' = "queued"
    BY <1>2 DEF Open
  <2>2. out' \in Outbox /\ out'.turn = 1 /\ out'.settled = FALSE
    <3>1. 1 \in 0..MaxTurns /\ given \in Spans /\ out \in Outbox
      BY <1>2 DEF OriginTyped
    <3> QED
      BY <2>1, <3>1 DEF Outbox
  <2>3. wire = {}
    BY <1>2 DEF Control, Carried, Calls
  <2> QED
    BY <1>2, <2>1, <2>2, <2>3 DEF OriginTyped, Control, Carried
<1>3. CASE Create
  <2>1. Span(0, Budget) \in Spans
    BY DEF Span, Spans
  <2> QED
    BY <1>2, <1>3, <1>0, <2>1 DEF Create, history
<1>4. CASE Delegate
  <2>1. ShareSize(above) \in 1..(above.end - above.start)
    BY <1>0, <1>4, ShareSizeIs DEF Delegate
  <2>2. Given(above) \in Spans /\ Remains(above) \in Spans
    BY <1>0, <2>1 DEF Given, Remains, Span, Spans
  <2> QED
    BY <1>2, <1>4, <2>2 DEF Delegate, history
<1>5. CASE Send
  <2>1. /\ out' = [out EXCEPT !.turn = @ + 1, !.cancelled = FALSE, !.settled = FALSE]
        /\ row' = "queued" /\ row # "none" /\ sync = "off" /\ out.turn < MaxTurns /\ clipped' = FALSE
        /\ UNCHANGED <<above, shadow, sync, told, wire, reply, broken, rare>>
    BY <1>5 DEF Send, Control
  <2>2. out' \in Outbox /\ out'.turn = out.turn + 1 /\ out'.settled = FALSE
    <3>1. out.turn + 1 \in 0..MaxTurns /\ out \in Outbox
      BY <1>0, <2>1 DEF OriginTyped
    <3> QED
      BY <2>1, <3>1 DEF Outbox
  <2>3. wire' \subseteq Calls(out'.turn)
    <3>1. out.turn \in Nat /\ out'.turn \in Nat /\ out.turn <= out'.turn
      BY <1>0, <2>2
    <3> QED
      BY <2>1, <3>1, CallsGrow DEF Carried
  <2>4. OriginTyped'
    BY <2>1, <2>2 DEF OriginTyped
  <2>5. Control'
    BY <1>0, <2>1, <2>2 DEF Control
  <2>6. Carried'
    BY <2>1, <2>3 DEF Carried
  <2> QED
    BY <2>4, <2>5, <2>6
<1>6. CASE Cancel
  <2>1. /\ out' = [out EXCEPT !.cancelled = TRUE, !.settled = FALSE] /\ out.turn > 0
        /\ UNCHANGED <<above, row, shadow, sync, told, wire, reply, broken, rare, clipped>>
    BY <1>6 DEF Cancel, history
  <2>2. out' \in Outbox /\ out'.turn = out.turn /\ out'.settled = FALSE
    BY <2>1 DEF OriginTyped, Outbox
  <2> QED
    BY <1>0, <2>1, <2>2 DEF OriginTyped, Control, Carried
<1> QED
  BY <1>1, <1>3, <1>4, <1>5, <1>6 DEF Origin

\* sync() from one await to the next.
LEMMA SyncKeepsOrigin == ASSUME OriginInv, Sync PROVE OriginInv' /\ out'.turn = out.turn
<1> USE Bounds DEF OriginInv, Active, Final
<1>1. CASE Tick \/ SyncGoesOn
  <2>1. /\ sync' \in {"cancel", "run", "poll"} /\ reply' = NoReply /\ ~out.settled /\ told' \in BOOLEAN
        /\ UNCHANGED <<above, row, out, shadow, wire, broken, rare, clipped>>
    BY <1>1 DEF Tick, Due, SyncGoesOn, Await, Control, OriginTyped, Outbox, history
  <2> QED
    BY <2>1 DEF OriginTyped, Control, Carried, NoReply
<1>2. CASE Apply
  <2>1. /\ sync = "poll" /\ reply.seq \in Nat /\ reply.status \in Active \cup Final
        /\ reply.child \in Active \cup {"none", "over"} /\ reply.clipped \in BOOLEAN
        /\ Complete(reply) => reply.status \in Final
    BY <1>2 DEF Apply, Carried, Complete
  <2>2. /\ out' = [out EXCEPT !.cursor = reply.seq, !.error = FALSE,
                              !.settled = Complete(reply) /\ ChildOver(reply) /\ CancelTold]
        /\ row' = IF Complete(reply) /\ CancelTold THEN reply.status
                  ELSE IF row = "queued" THEN "running" ELSE row
        /\ shadow' = reply.child
        /\ clipped' = IF Complete(reply) THEN reply.clipped ELSE clipped
    BY <1>2 DEF Apply
  <2>3. sync' = "off" /\ reply' = NoReply /\ told' = FALSE /\ UNCHANGED <<above, wire, broken, rare>>
    BY <1>2 DEF Apply, Rest, Await
  <2>4. /\ out' \in Outbox /\ out'.turn = out.turn
        /\ out'.settled = (Complete(reply) /\ ChildOver(reply) /\ CancelTold)
    <3>1. (Complete(reply) /\ ChildOver(reply) /\ CancelTold) \in BOOLEAN
      OBVIOUS
    <3> QED
      BY <2>1, <2>2, <3>1 DEF OriginTyped, Outbox
  <2>5. ~out.settled /\ row # "none" /\ out.turn # 0
    BY <2>1 DEF Control
  <2>6. row' \in Active \cup Final /\ (row' \in Active => ~(Complete(reply) /\ CancelTold))
    BY <2>1, <2>2, <2>5 DEF OriginTyped
  <2>7. OriginTyped'
    BY <2>1, <2>2, <2>3, <2>4, <2>6 DEF OriginTyped
  <2>8. Control'
    BY <2>3, <2>4, <2>5, <2>6 DEF Control
  <2>9. Carried'
    BY <2>3, <2>4 DEF Carried, NoReply
  <2> QED
    BY <2>4, <2>7, <2>8, <2>9
<1>3. CASE GivesUp
  <2>1. /\ out' = [out EXCEPT !.settled = TRUE, !.error = TRUE] /\ row' = "failed" /\ sync # "off"
        /\ sync' = "off" /\ reply' = NoReply /\ told' = FALSE /\ UNCHANGED <<above, shadow, wire, broken, rare, clipped>>
    BY <1>3 DEF GivesUp, Rest, Await, history
  <2>2. out' \in Outbox /\ out'.turn = out.turn /\ out'.settled = TRUE
    BY <2>1 DEF OriginTyped, Outbox
  <2>3. ~out.settled /\ row # "none" /\ out.turn # 0
    BY <2>1 DEF Control
  <2> QED
    BY <2>1, <2>2, <2>3 DEF OriginTyped, Control, Carried, NoReply
<1>4. CASE TriesAgain
  <2>1. /\ out' = [out EXCEPT !.error = TRUE] /\ row' = row
        /\ sync' = "off" /\ reply' = NoReply /\ told' = FALSE /\ UNCHANGED <<above, shadow, wire, broken, rare, clipped>>
    BY <1>4 DEF TriesAgain, Rest, Await, history
  <2>2. out' \in Outbox /\ out'.turn = out.turn /\ out'.settled = out.settled
    BY <2>1 DEF OriginTyped, Outbox
  <2> QED
    BY <2>1, <2>2 DEF OriginTyped, Control, Carried, NoReply
<1> QED
  BY <1>1, <1>2, <1>3, <1>4 DEF Sync, OriginTyped, Tick, SyncGoesOn

\* Calls and their answers, the executor and the faults.
LEMMA OthersKeepOrigin ==
  ASSUME OriginInv, TaskTyped, Answers \/ Hears \/ Snapshot \/ Executor \/ Fault
  PROVE  OriginInv' /\ out' = out
<1> USE Bounds DEF OriginInv, Active, Final
<1>0. Answers \/ Hears \/ Snapshot \/ Executor \/ Fault => clipped' = clipped
  <2>1. Answers \/ Hears => clipped' = clipped
    BY DEF Answers, Hears, Handle, Run, CancelTurn, history
  <2>2. Executor => clipped' = clipped
    BY DEF Executor, Starts, Delegates, ChildStarts, ChildEnds, Notes, Finishes, Forgets, UserCancels, history
  <2> QED
    BY <2>1, <2>2 DEF Snapshot, Fault, ConnectionLost, OriginRestart, ExecutorRestart, AgentBreaks, AgentMended, Deleted,
                      history
<1>1. ASSUME UNCHANGED <<origin, wire>>, broken' \subseteq {"own", "child"}, rare' \in 0..MaxRare,
             reply'.kind = "snapshot" => reply' = reply
      PROVE  OriginInv' /\ out' = out
  BY <1>0, <1>1 DEF OriginTyped, Control, Carried, origin
<1>2. CASE Answers \/ Hears
  <2>1. UNCHANGED <<origin, wire, broken, rare>>
    BY <1>2 DEF Answers, Hears
  <2>2. reply' = reply \/ \E said \in {"ok", "refused", "busy"} : reply' = Said(said)
    BY <1>2 DEF Answers, Hears
  <2> QED
    BY <1>1, <2>1, <2>2 DEF OriginTyped, Said
<1>3. CASE Executor
  <2>1. UNCHANGED <<origin, wire, reply, broken>> /\ rare' \in 0..MaxRare
    BY <1>3 DEF Executor, Starts, Delegates, ChildStarts, ChildEnds, Notes, Finishes, Forgets, UserCancels, OriginTyped
  <2> QED
    BY <1>1, <2>1 DEF OriginTyped
<1>4. CASE Snapshot
  <2>1. UNCHANGED <<origin, wire, broken, rare>> /\ sync = "poll"
    BY <1>4 DEF Snapshot
  <2>2. CASE reply' = Said("refused")
    BY <1>1, <2>1, <2>2 DEF Said, OriginTyped
  <2>3. CASE work # 0 /\ state # "none" /\ reply' # Said("refused")
    <3>1. /\ reply'.status = state /\ reply'.seq \in PageEnds /\ reply'.child = child
          /\ reply'.clipped \in BOOLEAN
      <4>1. PICK seq \in PageEnds :
              reply' = [kind    |-> "snapshot",
                        status  |-> state,
                        seq     |-> seq,
                        more    |-> seq = Base + PageSize,
                        clipped |-> state \in Final /\ seq < events /\ seq < Base + PageSize,
                        child   |-> child]
        BY <1>4, <2>3 DEF Snapshot
      <4> QED
        BY <4>1
    <3>2. /\ state \in Active \cup Final /\ child \in Active \cup {"none", "over"}
          /\ events \in Nat /\ out.cursor \in Nat
      BY <2>3 DEF TaskTyped, OriginTyped, Outbox
    <3>3. Base \in Nat
      BY <3>2, BaseIs
    <3>4. Min({events, Base + PageSize}) \in Nat
      BY <3>2, <3>3, MinMaxIs
    <3>5. reply'.seq \in Nat
      <4> HIDE DEF Active, Final
      <4> QED
        BY <3>1, <3>2, <3>3, <3>4 DEF PageEnds
    <3> QED
      BY <1>0, <1>4, <2>1, <3>1, <3>2, <3>5 DEF OriginTyped, Control, Carried, origin
  <2> QED
    BY <1>4, <2>2, <2>3 DEF Snapshot
<1>5. CASE ConnectionLost
  <2>1. wire' \subseteq Calls(out.turn)
    BY <1>5, UnderwayIs DEF ConnectionLost, Carried
  <2>2. UNCHANGED <<origin, broken>> /\ rare' \in 0..MaxRare /\ reply' = Said("lost")
    BY <1>5 DEF ConnectionLost, OriginTyped
  <2> QED
    BY <1>0, <1>5, <2>1, <2>2 DEF OriginTyped, Control, Carried, origin, Said
<1>6. CASE OriginRestart
  <2>1. wire' \subseteq Calls(out.turn)
    BY <1>6, UnderwayIs DEF OriginRestart, Carried
  <2>2. /\ UNCHANGED <<above, row, out, shadow, broken>> /\ rare' \in 0..MaxRare
        /\ reply' = NoReply /\ sync' = "off" /\ told' = FALSE
    BY <1>6 DEF OriginRestart, Rest, Await, OriginTyped
  <2> QED
    BY <1>0, <1>6, <2>1, <2>2 DEF OriginTyped, Control, Carried, NoReply
<1>7. CASE ExecutorRestart \/ AgentBreaks \/ AgentMended \/ Deleted
  <2>1. UNCHANGED <<origin, wire>> /\ rare' \in 0..MaxRare /\ (reply'.kind = "snapshot" => reply' = reply)
    BY <1>7 DEF ExecutorRestart, AgentBreaks, AgentMended, Deleted, OriginTyped, Said
  <2>2. broken' \subseteq {"own", "child"}
    BY <1>7 DEF ExecutorRestart, AgentBreaks, AgentMended, Deleted, OriginTyped
  <2> QED
    BY <1>1, <2>1, <2>2
<1> QED
  BY <1>2, <1>3, <1>4, <1>5, <1>6, <1>7 DEF Fault

\* Both sides together.
LEMMA TypedInit == Init => Typed
<1> SUFFICES ASSUME Init PROVE Typed
  OBVIOUS
<1> USE Bounds DEF Active, Final
<1>1. NoSlots \in Spans /\ Span(0, Budget) \in Spans
  BY DEF NoSlots, Span, Spans
<1>2. out \in Outbox /\ out.turn = 0 /\ out.settled = TRUE
  BY <1>1 DEF Init, Outbox
<1>3. OriginTyped
  <2>1. above \in Spans /\ rare \in 0..MaxRare
    BY <1>1 DEF Init
  <2> QED
    BY <1>2, <2>1 DEF Init, OriginTyped
<1>4. Numbers
  <2>1. 1..0 = {}
    OBVIOUS
  <2> QED
    BY <1>2, <2>1 DEF Init, Numbers
<1>5. TaskTyped
  <2>1. 0 \in 0..0
    OBVIOUS
  <2> QED
    BY <2>1 DEF Init, TaskTyped
<1>6. Control /\ Carried /\ Running /\ Recorded
  BY <1>2 DEF Init, Control, Carried, Running, Recorded, NoReply
<1> QED
  BY <1>3, <1>4, <1>5, <1>6 DEF Typed

\* A call keeps the executor in order, whether its answer is awaited or not.
LEMMA CallsKeepExecutor ==
  ASSUME Typed, Answers \/ Hears
  PROVE  ExecutorInv'
<1>0. ExecutorInv /\ out.turn \in 0..MaxTurns /\ wire \subseteq Calls(out.turn) /\ Underway \subseteq Calls(out.turn)
  BY UnderwayIs DEF Typed, ExecutorInv, OriginTyped, Outbox, Carried
<1>1. out' = out
  BY DEF Answers, Hears, origin
<1>2. PICK call \in Calls(out.turn), said \in {"ok", "refused", "busy"} : Handle(call, said)
  BY <1>0 DEF Answers, Hears
<1> QED
  BY <1>0, <1>1, <1>2, HandleKeepsExecutor

\* A step keeps both sides in order.
LEMMA TypedNext == Typed /\ [Next]_vars => Typed'
<1> SUFFICES ASSUME Typed, [Next]_vars PROVE Typed'
  OBVIOUS
<1>0. OriginInv /\ ExecutorInv /\ TaskTyped
  BY DEF Typed, OriginInv, ExecutorInv
<1>1. out.turn \in 0..MaxTurns /\ out.turn \in Nat
  BY Bounds DEF Typed, OriginTyped, Outbox
<1>2. SUFFICES OriginInv' /\ ExecutorInv'
  BY DEF Typed, OriginInv, ExecutorInv
<1>3. ASSUME OriginInv', UNCHANGED <<executor, starts, outcome, ended>>, out'.turn \in Nat, out.turn <= out'.turn
      PROVE  OriginInv' /\ ExecutorInv'
  BY <1>0, <1>1, <1>3, ExecutorLeftAlone DEF executor, task, TaskTyped
<1>4. CASE Origin
  <2>1. UNCHANGED <<executor, starts, outcome, ended>>
    BY <1>4 DEF Origin, TurnAbove, Create, Delegate, Send, Cancel, history
  <2>2. out'.turn \in Nat /\ out.turn <= out'.turn
    <3>1. out \in Outbox
      BY DEF Typed, OriginTyped
    <3>2. CASE TurnAbove
      BY <1>1, <3>2 DEF TurnAbove
    <3>3. CASE Create \/ Delegate
      <4>1. out.turn = 0
        BY <1>0, <3>3 DEF Create, Delegate, OriginInv, Control
      <4>2. \E given : Open(given)
        BY <3>3 DEF Create, Delegate
      <4>3. out'.turn = 1
        BY <3>1, <4>2 DEF Open, Outbox
      <4> QED
        BY <4>1, <4>3
    <3>4. CASE Send
      BY <1>1, <3>1, <3>4 DEF Send, Outbox
    <3>5. CASE Cancel
      BY <1>1, <3>1, <3>5 DEF Cancel, Outbox
    <3> QED
      BY <1>4, <3>2, <3>3, <3>4, <3>5 DEF Origin
  <2> QED
    BY <1>0, <1>3, <1>4, <2>1, <2>2, OriginKeepsOrigin
<1>5. CASE Sync
  <2>1. UNCHANGED <<executor, starts, outcome, ended>>
    BY <1>5 DEF Sync, Tick, SyncGoesOn, Apply, GivesUp, TriesAgain, history
  <2> QED
    BY <1>0, <1>1, <1>3, <1>5, <2>1, SyncKeepsOrigin
<1>6. CASE Answers \/ Hears
  BY <1>0, <1>6, OthersKeepOrigin, CallsKeepExecutor
<1>7. CASE Snapshot \/ ConnectionLost \/ OriginRestart \/ AgentBreaks \/ AgentMended
  <2>1. UNCHANGED <<executor, starts, outcome, ended>>
    BY <1>7 DEF Snapshot, ConnectionLost, OriginRestart, AgentBreaks, AgentMended, history
  <2>2. OriginInv' /\ out' = out
    BY <1>0, <1>7, OthersKeepOrigin DEF Fault
  <2> QED
    BY <1>1, <1>3, <2>1, <2>2
<1>8. CASE Executor \/ ExecutorRestart \/ Deleted
  <2>1. OriginInv' /\ out' = out
    BY <1>0, <1>8, OthersKeepOrigin DEF Fault
  <2> QED
    BY <1>0, <1>1, <1>8, <2>1, StepsKeepExecutor
<1>9. CASE UNCHANGED vars
  <2>1. UNCHANGED <<origin, wire, reply, executor, broken, starts, outcome, ended, clipped, rare>>
    BY <1>9 DEF vars, history
  <2>2. OriginInv' /\ out' = out
    BY <1>0, <2>1 DEF OriginInv, OriginTyped, Control, Carried, origin
  <2> QED
    BY <1>1, <1>3, <2>1, <2>2
<1> QED
  BY <1>4, <1>5, <1>6, <1>7, <1>8, <1>9 DEF Next, Fault

(***************************************************************************)
(* The budget of the tree.                                                 *)
(***************************************************************************)

\* A turn takes the first slot of one of the ranges that are left.
LEMMA SpendKeepsBudget ==
  ASSUME Disjoint, Unspent, spent \in [Slots -> Nat],
         NEW x \in Slots, spent' = [spent EXCEPT ![x] = @ + 1],
         In(x, above) \/ In(x, slots) \/ In(x, share),
         ~In(x, above)', ~In(x, InTransit)', ~In(x, slots)', ~In(x, share)',
         \A s \in Slots : /\ In(s, above)' => In(s, above)
                          /\ In(s, InTransit)' => In(s, InTransit)
                          /\ In(s, slots)' => In(s, slots)
                          /\ In(s, share)' => In(s, share)
  PROVE  Disjoint' /\ Unspent' /\ spent' \in [Slots -> Nat]
<1>1. Disjoint'
  BY DEF Disjoint
<1>2. spent[x] = 0
  BY DEF Unspent
<1>3. spent' = [spent EXCEPT ![x] = 1]
  BY <1>2
<1>4. spent' \in [Slots -> Nat]
  BY <1>3
<1>5. ASSUME NEW s \in Slots
      PROVE  /\ spent'[s] <= 1
             /\ In(s, above)' \/ In(s, InTransit)' \/ In(s, slots)' \/ In(s, share)' => spent'[s] = 0
  <2>1. CASE s = x
    BY <1>3, <2>1
  <2>2. CASE s # x
    BY <1>3, <2>2 DEF Unspent
  <2> QED
    BY <2>1, <2>2
<1> QED
  BY <1>1, <1>4, <1>5 DEF Unspent

\* Nothing is spent, and ranges only pass on what they had.
LEMMA PassKeepsBudget ==
  ASSUME Unspent, spent' = spent, Disjoint',
         \A s \in Slots : In(s, above)' \/ In(s, InTransit)' \/ In(s, slots)' \/ In(s, share)' =>
                            spent[s] = 0
  PROVE  Unspent'
BY DEF Unspent

\* The first slot that is left, and what is left when it is taken.
LEMMA ConsumedIs ==
  ASSUME NEW r \in Spans, Left(r)
  PROVE  /\ r.start \in Slots /\ In(r.start, r) /\ Consumed(r) \in Spans
         /\ ~In(r.start, Consumed(r)) /\ Consumed(r).start > 0 /\ Consumed(r) # NoSlots
         /\ \A s \in Slots : In(s, Consumed(r)) => In(s, r)
<1> USE Bounds
<1>1. r.start \in 0..Budget /\ r.end \in 0..Budget /\ r.start < r.end
  BY DEF Spans, Left
<1>2. Consumed(r).start = r.start + 1 /\ Consumed(r).end = r.end
  BY DEF Consumed, Span
<1>3. r.start \in Slots /\ In(r.start, r) /\ ~In(r.start, Consumed(r)) /\ Consumed(r).start > 0
  BY <1>1, <1>2 DEF In
<1>4. Consumed(r) \in Spans
  BY <1>1 DEF Consumed, Span, Spans
<1>5. \A s \in Slots : In(s, Consumed(r)) => In(s, r)
  BY <1>1, <1>2 DEF In
<1>6. Consumed(r) # NoSlots
  BY <1>3 DEF NoSlots, Span
<1> QED
  BY <1>3, <1>4, <1>5, <1>6

\* A range that is shared falls into what is given and what remains.
LEMMA SharedIs ==
  ASSUME NEW r \in Spans, Left(r)
  PROVE  /\ Given(r) \in Spans /\ Remains(r) \in Spans /\ Remains(r).start = r.start
         /\ \A s \in Slots : /\ In(s, Given(r)) => In(s, r)
                             /\ In(s, Remains(r)) => In(s, r)
                             /\ ~(In(s, Given(r)) /\ In(s, Remains(r)))
<1> USE Bounds
<1>1. r.start \in 0..Budget /\ r.end \in 0..Budget /\ r.start < r.end
  BY DEF Spans, Left
<1>2. ShareSize(r) \in 1..(r.end - r.start)
  BY ShareSizeIs
<1>3. r.end - ShareSize(r) \in 0..Budget /\ r.start <= r.end - ShareSize(r)
  BY <1>1, <1>2
<1>4. Given(r) \in Spans /\ Remains(r) \in Spans
  BY <1>1, <1>3 DEF Given, Remains, Span, Spans
<1>5. ASSUME NEW s \in Slots
      PROVE  /\ In(s, Given(r)) => In(s, r)
             /\ In(s, Remains(r)) => In(s, r)
             /\ ~(In(s, Given(r)) /\ In(s, Remains(r)))
  BY <1>1, <1>2, <1>3 DEF In, Given, Remains, Span
<1> QED
  BY <1>4, <1>5 DEF Remains, Span

\* Nothing is in an empty range.
LEMMA NothingLeft == NoSlots \in Spans /\ \A s \in Slots : ~In(s, NoSlots)
BY Bounds DEF NoSlots, Span, Spans, In

\* Steps that leave the ranges where they are.
LEMMA BudgetLeftAlone ==
  ASSUME Budgeted, UNCHANGED <<above, out.slots, work, slots, share, spent>>,
         row' = "none" => row = "none", child' = "none" => child = "none"
  PROVE  Budgeted'
<1>1. InTransit' = InTransit
  BY DEF InTransit
<1> QED
  BY <1>1 DEF Budgeted, SpansTyped, Disjoint, Unspent, Untouched, In

\* The origin shares out the budget.
LEMMA OriginKeepsBudget == ASSUME Typed, Budgeted, Origin PROVE Budgeted'
<1> USE Bounds DEF Budgeted, SpansTyped
<1>0. /\ above \in Spans /\ out \in Outbox /\ work \in 0..out.turn /\ (row = "none" <=> out.turn = 0)
      /\ above.start \in Nat
  BY DEF Typed, OriginTyped, Numbers, Control, Spans
<1>1. CASE TurnAbove
  <2>1. /\ Left(above) /\ above' = Consumed(above) /\ spent' = [spent EXCEPT ![above.start] = @ + 1]
        /\ UNCHANGED <<row, out, work, slots, share, child>>
    BY <1>1 DEF TurnAbove, Spend, executor, task
  <2>2. InTransit' = InTransit
    BY <2>1 DEF InTransit
  <2>3. ~In(above.start, InTransit) /\ ~In(above.start, slots) /\ ~In(above.start, share)
    BY <1>0, <2>1, ConsumedIs DEF Disjoint
  <2>4. Disjoint' /\ Unspent' /\ spent' \in [Slots -> Nat]
    BY <1>0, <2>1, <2>2, <2>3, ConsumedIs, SpendKeepsBudget
  <2>5. Untouched'
    BY <1>0, <2>1, ConsumedIs DEF Untouched
  <2> QED
    BY <2>1, <2>4, <2>5
<1>2. ASSUME row = "none", NEW given, Open(given), work' = work
      PROVE  /\ work = 0 /\ InTransit' = given /\ row' = "queued"
             /\ slots = NoSlots /\ share = NoSlots /\ InTransit = NoSlots
  <2>1. work = 0 /\ out.slots = NoSlots
    BY <1>0, <1>2 DEF Untouched
  <2>2. out'.slots = given /\ row' = "queued"
    BY <1>0, <1>2 DEF Open, Outbox
  <2> QED
    BY <1>2, <2>1, <2>2 DEF InTransit, Untouched
<1>3. CASE Create
  <2>1. /\ row = "none" /\ above = NoSlots /\ Open(Span(0, Budget))
        /\ UNCHANGED <<above, work, slots, share, child, spent>>
    BY <1>3 DEF Create, executor, task, history
  <2>2. work = 0 /\ InTransit' = Span(0, Budget) /\ row' = "queued" /\ slots = NoSlots /\ share = NoSlots
    BY <1>2, <2>1
  <2>3. Disjoint'
    BY <2>1, <2>2, NothingLeft DEF Disjoint
  <2>4. \A s \in Slots : spent[s] = 0
    BY <2>1 DEF Untouched, NoSlots, Span
  <2> QED
    BY <2>1, <2>2, <2>3, <2>4, PassKeepsBudget DEF Untouched
<1>4. CASE Delegate
  <2>1. /\ row = "none" /\ Left(above) /\ above' = Remains(above) /\ Open(Given(above))
        /\ UNCHANGED <<work, slots, share, child, spent>>
    BY <1>4 DEF Delegate, executor, task, history
  <2>2. work = 0 /\ InTransit' = Given(above) /\ row' = "queued" /\ slots = NoSlots /\ share = NoSlots
    BY <1>2, <2>1
  <2>3. \A s \in Slots : /\ In(s, Given(above)) => In(s, above)
                         /\ In(s, Remains(above)) => In(s, above)
                         /\ ~(In(s, Given(above)) /\ In(s, Remains(above)))
    BY <1>0, <2>1, SharedIs
  <2>4. Disjoint'
    BY <2>1, <2>2, <2>3, NothingLeft DEF Disjoint
  <2>5. Unspent'
    BY <2>1, <2>2, <2>3, <2>4, NothingLeft, PassKeepsBudget DEF Unspent
  <2> QED
    BY <2>1, <2>2, <2>4, <2>5 DEF Untouched
<1>5. CASE Send \/ Cancel
  <2>1. UNCHANGED <<above, work, slots, share, spent, child>> /\ (row' = "none" => row = "none")
    BY <1>5 DEF Send, Cancel, executor, task, history
  <2>2. out'.slots = out.slots
    BY <1>0, <1>5 DEF Send, Cancel, Outbox
  <2> QED
    BY <2>1, <2>2, BudgetLeftAlone
<1> QED
  BY <1>1, <1>3, <1>4, <1>5 DEF Origin

\* A dispatch brings the range along when it is the first, and never again.
LEMMA HandleKeepsBudget ==
  ASSUME Typed, Budgeted, NEW call \in Calls(out.turn), NEW said, Handle(call, said), UNCHANGED origin
  PROVE  Budgeted'
<1>0. row' = row /\ above' = above /\ out' = out /\ work \in Nat /\ out \in Outbox
  BY Bounds DEF origin, Typed, Numbers, OriginTyped
<1>1. CASE UNCHANGED <<work, slots, share, spent>> /\ (child' = "none" => child = "none")
  BY <1>0, <1>1, BudgetLeftAlone
<1>2. ASSUME NEW n \in 1..out.turn, IsNext(n), TakeIn(n), Brought(n), UNCHANGED <<share, spent>>,
             child' = "none" => child = "none"
      PROVE  Budgeted'
  <2>1. work' = n /\ n # 0 /\ InTransit' = NoSlots
    BY <1>2 DEF TakeIn, InTransit
  <2>2. CASE work = 0
    <3>1. slots' = InTransit /\ slots = NoSlots
      BY <1>2, <2>2 DEF Brought, InTransit, Budgeted, Untouched
    <3>2. slots' \in Spans
      BY <1>0, <2>2, <3>1 DEF InTransit, Outbox
    <3>3. Disjoint'
      BY <1>0, <1>2, <2>1, <3>1, NothingLeft DEF Disjoint, Budgeted
    <3>4. Unspent'
      BY <1>0, <1>2, <2>1, <3>1, <3>3, NothingLeft, PassKeepsBudget DEF Unspent, Budgeted
    <3> QED
      BY <1>0, <1>2, <2>1, <3>2, <3>3, <3>4 DEF Budgeted, SpansTyped, Untouched
  <2>3. CASE work # 0
    <3>1. slots' = slots /\ InTransit = NoSlots
      BY <1>2, <2>3 DEF Brought, InTransit
    <3>2. Disjoint'
      BY <1>0, <1>2, <2>1, <3>1, NothingLeft DEF Disjoint, Budgeted
    <3>3. Unspent'
      BY <1>0, <1>2, <2>1, <3>1, <3>2, NothingLeft, PassKeepsBudget DEF Unspent, Budgeted
    <3> QED
      BY <1>0, <1>2, <2>1, <3>1, <3>2, <3>3 DEF Budgeted, SpansTyped, Untouched
  <2> QED
    BY <2>2, <2>3
<1>3. CASE \E n \in 1..out.turn : call = CancelCall(n) /\ CancelTurn(n, said)
  <2>1. UNCHANGED <<work, slots, share, spent>> /\ (child' = "none" => child = "none")
    BY <1>3 DEF CancelTurn, CancelTask, ChildCancelled
  <2> QED
    BY <1>1, <2>1
<1>4. CASE \E n \in 1..out.turn : call = RunCall(n) /\ Run(n, said)
  <2>1. PICK n \in 1..out.turn : Run(n, said)
    BY <1>4
  <2>2. \/ UNCHANGED <<executor, history>>
        \/ /\ IsNext(n) /\ TakeIn(n) /\ Brought(n) /\ UNCHANGED <<share, spent>>
           /\ child' = "none" => child = "none"
    BY <2>1 DEF Run, history, ChildCancelled
  <2>3. CASE UNCHANGED <<executor, history>>
    BY <1>1, <2>3 DEF executor, task, history
  <2> QED
    BY <1>2, <2>2, <2>3
<1> QED
  BY <1>3, <1>4, HandleIs

\* The executor spends the range, and shares it out in its turn.
LEMMA ExecutorKeepsBudget ==
  ASSUME Typed, Budgeted, Executor \/ ExecutorRestart \/ Deleted
  PROVE  Budgeted'
<1> USE Bounds DEF Budgeted, SpansTyped
<1>0. /\ row' = row /\ above' = above /\ out' = out /\ work' = work /\ InTransit' = InTransit
      /\ slots \in Spans /\ share \in Spans
  BY DEF Executor, Starts, Delegates, ChildStarts, ChildEnds, Notes, Finishes, Forgets, UserCancels, ExecutorRestart, Deleted,
         origin, InTransit
<1>1. CASE Starts /\ Left(slots)
  <2>1. /\ slots' = Consumed(slots) /\ spent' = [spent EXCEPT ![slots.start] = @ + 1]
        /\ UNCHANGED <<share, child>>
    BY <1>1 DEF Starts, Spend
  <2>2. ~In(slots.start, InTransit) /\ ~In(slots.start, above) /\ ~In(slots.start, share)
    BY <1>0, <1>1, ConsumedIs DEF Disjoint
  <2>3. Disjoint' /\ Unspent' /\ spent' \in [Slots -> Nat]
    BY <1>0, <1>1, <2>1, <2>2, ConsumedIs, SpendKeepsBudget
  <2>4. work # 0
    BY <1>1 DEF Starts, Typed, Running
  <2>5. slots' \in Spans /\ share' \in Spans
    BY <1>0, <1>1, <2>1, ConsumedIs
  <2>6. /\ row = "none" => FALSE
        /\ child' = "none" => share' = NoSlots
    BY <1>0, <2>1, <2>4 DEF Untouched, Typed, Control, Numbers, OriginTyped, Outbox
  <2> QED
    BY <1>0, <2>3, <2>4, <2>5, <2>6 DEF Untouched
<1>2. CASE ChildStarts /\ Left(share)
  <2>1. /\ share' = Consumed(share) /\ spent' = [spent EXCEPT ![share.start] = @ + 1] /\ child' = "running"
        /\ UNCHANGED slots
    BY <1>2 DEF ChildStarts, Spend
  <2>2. ~In(share.start, InTransit) /\ ~In(share.start, above) /\ ~In(share.start, slots)
    BY <1>0, <1>2, ConsumedIs DEF Disjoint
  <2>3. Disjoint' /\ Unspent' /\ spent' \in [Slots -> Nat]
    BY <1>0, <1>2, <2>1, <2>2, ConsumedIs, SpendKeepsBudget
  <2>4. work # 0
    BY <1>2 DEF Untouched, Left, NoSlots, Span
  <2>5. slots' \in Spans /\ share' \in Spans
    BY <1>0, <1>2, <2>1, ConsumedIs
  <2>6. row = "none" => FALSE
    BY <1>0, <2>4 DEF Typed, Control, Numbers, OriginTyped, Outbox
  <2> QED
    BY <1>0, <2>1, <2>3, <2>4, <2>5, <2>6 DEF Untouched
<1>3. CASE Delegates /\ child = "none"
  <2>1. /\ slots' = Remains(slots) /\ share' = Given(slots) /\ Left(slots) /\ child' = "queued"
        /\ UNCHANGED spent /\ turn # 0
    BY <1>3 DEF Delegates, history
  <2>2. share = NoSlots /\ work # 0
    BY <1>3, <2>1 DEF Untouched, Typed, Numbers
  <2>3. \A s \in Slots : /\ In(s, Given(slots)) => In(s, slots)
                         /\ In(s, Remains(slots)) => In(s, slots)
                         /\ ~(In(s, Given(slots)) /\ In(s, Remains(slots)))
    BY <1>0, <2>1, SharedIs
  <2>4. Disjoint'
    BY <1>0, <2>1, <2>3 DEF Disjoint
  <2>5. Unspent'
    BY <1>0, <2>1, <2>3, <2>4, PassKeepsBudget DEF Unspent
  <2> QED
    BY <1>0, <2>1, <2>2, <2>4, <2>5, SharedIs DEF Untouched
<1>4. CASE Deleted
  <2>1. slots' = NoSlots /\ share' = NoSlots /\ UNCHANGED spent
    BY <1>4 DEF Deleted, history
  <2>2. Disjoint'
    BY <1>0, <2>1, NothingLeft DEF Disjoint
  <2>3. Unspent'
    BY <1>0, <2>1, <2>2, NothingLeft, PassKeepsBudget DEF Unspent
  <2> QED
    BY <1>0, <2>1, <2>2, <2>3, NothingLeft DEF Untouched
<1>5. CASE \/ Starts /\ ~Left(slots)
           \/ ChildStarts /\ ~Left(share)
           \/ Delegates /\ child # "none"
           \/ ChildEnds \/ Notes \/ Finishes \/ Forgets \/ UserCancels \/ ExecutorRestart
  <2>1. UNCHANGED <<slots, share, spent>> /\ (child' = "none" => child = "none")
    BY <1>5 DEF Starts, ChildStarts, Delegates, ChildEnds, Notes, Finishes, Forgets, UserCancels, CancelTask, ChildCancelled,
                ExecutorRestart, history
  <2> QED
    BY <1>0, <2>1, BudgetLeftAlone
<1> QED
  BY <1>1, <1>2, <1>3, <1>4, <1>5 DEF Executor

\* No step spends a slot again.
LEMMA BudgetedNext == Typed /\ Budgeted /\ [Next]_vars => Budgeted'
<1> SUFFICES ASSUME Typed, Budgeted, [Next]_vars PROVE Budgeted'
  OBVIOUS
<1>0. out \in Outbox /\ wire \subseteq Calls(out.turn) /\ Underway \subseteq Calls(out.turn)
  BY UnderwayIs DEF Typed, OriginTyped, Carried
<1>1. CASE Origin
  BY <1>1, OriginKeepsBudget
<1>2. CASE Answers \/ Hears
  <2>1. PICK call \in Calls(out.turn), said \in {"ok", "refused", "busy"} : Handle(call, said)
    BY <1>0, <1>2 DEF Answers, Hears
  <2>2. UNCHANGED origin
    BY <1>2 DEF Answers, Hears
  <2> QED
    BY <2>1, <2>2, HandleKeepsBudget
<1>3. CASE Executor \/ ExecutorRestart \/ Deleted
  BY <1>3, ExecutorKeepsBudget
<1>4. CASE Sync
  <2>1. UNCHANGED <<above, work, slots, share, spent, child>> /\ out'.slots = out.slots
    BY <1>0, <1>4 DEF Sync, Tick, SyncGoesOn, Apply, GivesUp, TriesAgain, executor, task, history, Outbox
  <2>2. row' = "none" => row = "none"
    BY <1>4 DEF Sync, Tick, SyncGoesOn, Apply, GivesUp, TriesAgain, Typed, Carried, Active, Final
  <2> QED
    BY <2>1, <2>2, BudgetLeftAlone
<1>5. CASE Snapshot \/ ConnectionLost \/ OriginRestart \/ AgentBreaks \/ AgentMended \/ UNCHANGED vars
  <2>1. UNCHANGED <<above, out, row, work, slots, share, spent, child>>
    BY <1>5 DEF Snapshot, ConnectionLost, OriginRestart, AgentBreaks, AgentMended, vars, origin, executor, task, history
  <2> QED
    BY <2>1, BudgetLeftAlone
<1> QED
  BY <1>1, <1>2, <1>3, <1>4, <1>5 DEF Next, Fault

\* At the start the budget is whole, and in one place.
LEMMA BudgetedInit == Init => Budgeted
<1> SUFFICES ASSUME Init PROVE Budgeted
  OBVIOUS
<1>1. InTransit = NoSlots /\ slots = NoSlots /\ share = NoSlots /\ work = 0 /\ child = "none"
  BY DEF Init, InTransit
<1>2. \A s \in Slots : spent[s] = 0
  BY DEF Init
<1>3. SpansTyped
  BY <1>1, NothingLeft DEF Init, SpansTyped
<1>4. Disjoint /\ Unspent
  BY <1>1, <1>2, NothingLeft DEF Disjoint, Unspent
<1>5. Untouched
  BY <1>1, <1>2 DEF Init, Untouched
<1> QED
  BY <1>3, <1>4, <1>5 DEF Budgeted

\* Every variable of the two daemons keeps its type, and the executor has a receipt for exactly
\* the turns it took in.
THEOREM PeersTyped == Spec => []TypeOK
<1>1. Typed /\ Budgeted => TypeOK
  <2> SUFFICES ASSUME Typed, Budgeted PROVE TypeOK
    OBVIOUS
  <2>1. out \in Outbox /\ out.slots \in Spans
    BY DEF Typed, OriginTyped, Outbox
  <2> QED
    BY <2>1 DEF Typed, Budgeted, OriginTyped, Numbers, TaskTyped, SpansTyped, TypeOK, Outbox, Spans
<1> QED
  BY <1>1, TypedInit, TypedNext, BudgetedInit, BudgetedNext, PTL DEF Spec

\* No slot of a budget pays for two turns, on whichever machines they run: "disjoint ranges need
\* no central counter".
THEOREM SlotsSpentOnce == Spec => []NoSlotTwice
<1>1. Budgeted => NoSlotTwice
  BY DEF Budgeted, Unspent, NoSlotTwice
<1> QED
  BY <1>1, TypedInit, TypedNext, BudgetedInit, BudgetedNext, PTL DEF Spec

\* allocate() hands slots on and consume() spends them: no two of the parent, the outbox, the task and its child hold the
\* same slot of the budget, and none of them holds one that already paid for a turn.
THEOREM SlotsHeldOnce == Spec => [](Disjoint /\ Unspent)
<1>1. Budgeted => Disjoint /\ Unspent
  BY DEF Budgeted
<1> QED
  BY <1>1, TypedInit, TypedNext, BudgetedInit, BudgetedNext, PTL DEF Spec

(***************************************************************************)
(* What the origin believes.                                               *)
(***************************************************************************)

\* Whatever the executor does leaves true what was said of a turn that is over.
Keeps ==
  /\ work = out.turn => work' = work
  /\ mark' >= mark
  /\ work = out.turn /\ state \notin Active => state' \notin Active /\ (Quiet => Quiet')
  /\ DoneThere => DoneThere' /\ ended' = ended

\* A dispatch that was taken in is not taken in again, and what is told is marked.
LEMMA HandleKeeps ==
  ASSUME ExecutorInv, out.turn \in 0..MaxTurns, out' = out, NEW call \in Calls(out.turn), NEW said, Handle(call, said)
  PROVE  /\ Keeps
         /\ call.op = "run" /\ said = "ok" => call.turn <= work'
         /\ call.op = "cancel" => mark' >= call.turn
<1> USE DEF Active, Final
<1>0. receipts = 1..work /\ work \in Nat /\ mark \in Nat /\ out.turn \in Nat
  BY Bounds DEF ExecutorInv, Numbers
<1>1. CASE \E n \in 1..out.turn : call = RunCall(n) /\ Run(n, said)
  <2>1. PICK n \in 1..out.turn : call = RunCall(n) /\ Run(n, said)
    BY <1>1
  <2>2. call.op = "run" /\ call.turn = n
    BY <2>1 DEF RunCall
  <2>3. \/ UNCHANGED <<executor, history>> /\ (said = "ok" => n \in receipts)
        \/ n = work + 1 /\ work' = n /\ mark' = mark
    BY <2>1 DEF Run, IsNext, TakeIn
  <2>4. CASE UNCHANGED <<executor, history>> /\ (said = "ok" => n \in receipts)
    <3>1. Keeps
      BY <1>0, <2>4 DEF Keeps, Quiet, DoneThere, executor, task, history
    <3>2. said = "ok" => n <= work'
      BY <1>0, <2>4 DEF executor
    <3> QED
      BY <2>2, <3>1, <3>2
  <2>5. CASE n = work + 1 /\ work' = n /\ mark' = mark
    <3>1. work # out.turn
      BY <1>0, <2>5
    <3> QED
      BY <1>0, <2>2, <2>5, <3>1 DEF Keeps, DoneThere
  <2> QED
    BY <2>3, <2>4, <2>5
<1>2. CASE \E n \in 1..out.turn : call = CancelCall(n) /\ CancelTurn(n, said)
  <2>1. PICK n \in 1..out.turn : call = CancelCall(n) /\ CancelTurn(n, said)
    BY <1>2
  <2>2. call.op = "cancel" /\ call.turn = n
    BY <2>1 DEF CancelCall
  <2>3. mark' >= n /\ mark' >= mark
    BY <2>1, CancelKeepsExecutor
  <2>4. UNCHANGED <<work, turn, ending, ended>>
    BY <2>1 DEF CancelTurn
  <2>5. state \notin Active => state' = state /\ outcome' = outcome
    BY <2>1 DEF CancelTurn, CancelTask
  <2>6. child \notin Active => child' \notin Active
    BY <2>1 DEF CancelTurn, CancelTask, ChildCancelled
  <2> QED
    BY <2>2, <2>3, <2>4, <2>5, <2>6 DEF Keeps, Quiet, DoneThere
<1> QED
  BY <1>1, <1>2, HandleIs

\* Neither does its hub change it, nor what happens to it.
LEMMA StepsKeep ==
  ASSUME ExecutorInv, out' = out, Executor \/ ExecutorRestart \/ Deleted
  PROVE  Keeps
<1> USE DEF Active, Final
<1>0. work' = work /\ mark' = mark /\ mark' >= mark
  <2>1. work' = work /\ mark' = mark
    BY DEF Executor, Starts, Delegates, ChildStarts, ChildEnds, Notes, Finishes, Forgets, UserCancels, ExecutorRestart, Deleted
  <2> QED
    BY <2>1, Bounds DEF ExecutorInv, Numbers
<1>1. state \notin Active => state' \notin Active
  BY DEF Executor, Starts, Delegates, ChildStarts, ChildEnds, Notes, Finishes, Forgets, UserCancels, CancelTask, ChildCancelled,
         ExecutorRestart, Deleted, history
<1>2. state \notin Active /\ Quiet => Quiet'
  BY DEF Quiet, Executor, Starts, Delegates, ChildStarts, ChildEnds, Notes, Finishes, Forgets, UserCancels, CancelTask, ChildCancelled,
         ExecutorRestart, Deleted, history
<1>3. DoneThere => DoneThere' /\ ended' = ended
  BY <1>0 DEF DoneThere, Executor, Starts, Delegates, ChildStarts, ChildEnds, Notes, Finishes, Forgets, UserCancels, CancelTask, ChildCancelled,
         ExecutorRestart, Deleted, history
<1> QED
  BY <1>0, <1>1, <1>2, <1>3 DEF Keeps

\* A snapshot tells what is so; a short page is the last one, unless it ended early for its size.
LEMMA SnapshotIs ==
  ASSUME Typed, Heeded, Believed, Snapshot, reply'.kind = "snapshot"
  PROVE  /\ reply'.status \in Final /\ reply'.child \notin Active => OverThere(reply'.status)
         /\ reply'.status = "done" => DoneThere
         /\ Complete(reply') => reply'.seq >= ended \/ reply'.clipped
         /\ row = "done" => reply'.seq >= ended \/ clipped
<1> USE DEF Active, Final
<1>1. sync = "poll" /\ work = out.turn
  BY DEF Snapshot, Heeded
<1>2. PICK seq \in PageEnds :
        /\ work # 0 /\ state # "none"
        /\ reply' = [kind    |-> "snapshot",
                     status  |-> state,
                     seq     |-> seq,
                     more    |-> seq = Base + PageSize,
                     clipped |-> state \in Final /\ seq < events /\ seq < Base + PageSize,
                     child   |-> child]
  BY DEF Snapshot, Said
<1>3. /\ state = "done" => outcome[work] = "done"
      /\ turn # 0 /\ ~ending => state \in {"running", "cancelled", "none"}
      /\ work > 0
  BY <1>2 DEF Typed, Recorded, Running, Numbers, OriginTyped, Outbox
<1>4. events \in Nat /\ ended \in 0..events /\ out.cursor \in Nat
  BY DEF Typed, TaskTyped, OriginTyped, Outbox
<1>5. Base \in Nat /\ Base >= out.cursor
  BY <1>4, BaseIs
<1>6. seq \in Nat /\ seq >= out.cursor /\ seq <= events /\ seq <= Base + PageSize
  <2>1. CASE events = out.cursor
    BY <1>4, <1>5, <2>1, Bounds DEF PageEnds
  <2>2. CASE events # out.cursor
    <3>1. Min({events, Base + PageSize}) = IF events <= Base + PageSize THEN events ELSE Base + PageSize
      BY <1>4, <1>5, Bounds, MinMaxIs
    <3>2. seq \in (Base + 1)..Min({events, Base + PageSize})
      BY <1>2, <2>2 DEF PageEnds
    <3> QED
      BY <1>4, <1>5, <3>1, <3>2, Bounds
  <2> QED
    BY <2>1, <2>2
<1>7. state = "done" => DoneThere
  BY <1>1, <1>3 DEF DoneThere
<1>8. state \in Final /\ child \notin Active => OverThere(state)
  BY <1>1, <1>3 DEF OverThere, Quiet
<1>9. Complete(reply') => seq >= ended \/ reply'.clipped
  <2>1. CASE seq >= ended
    BY <2>1
  <2>2. CASE ~(seq >= ended)
    <3>1. seq < events
      BY <1>4, <1>6, <2>2
    <3>2. Complete(reply') => state \in Final /\ seq < Base + PageSize
      <4>1. Complete(reply') => state \in Final /\ seq # Base + PageSize
        BY <1>2 DEF Complete
      <4> QED
        BY <1>5, <1>6, <4>1, Bounds
    <3> QED
      BY <1>2, <3>1, <3>2
  <2> QED
    BY <2>1, <2>2
<1>10. row = "done" => seq >= ended \/ clipped
  BY <1>4, <1>6 DEF Believed
<1> QED
  BY <1>2, <1>7, <1>8, <1>9, <1>10

\* Every step keeps the origin right about what it has settled, and about what it shows.
LEMMA BelievedNext == Typed /\ Heeded /\ Believed /\ [Next]_vars => Heeded' /\ Believed'
<1> SUFFICES ASSUME Typed, Heeded, Believed, [Next]_vars PROVE Heeded' /\ Believed'
  OBVIOUS
<1>0. /\ ExecutorInv /\ out.turn \in 0..MaxTurns /\ out.turn \in Nat /\ out \in Outbox
      /\ wire \subseteq Calls(out.turn) /\ Underway \subseteq Calls(out.turn)
      /\ mark \in Nat /\ work \in Nat
  BY Bounds, UnderwayIs DEF Typed, ExecutorInv, OriginTyped, Outbox, Carried, Numbers
<1>01. /\ reply.kind = "snapshot" => sync = "poll"
       /\ sync # "off" => ~out.settled
       /\ told => sync # "off"
       /\ row = "none" => out.settled
  BY DEF Typed, Control, Carried
<1>1. ASSUME UNCHANGED <<row, out, sync, told, clipped>>, reply'.kind \in {"snapshot", "ok"} => reply' = reply, Keeps
      PROVE  Heeded' /\ Believed'
  <2>1. mark >= out.turn => mark' >= out.turn
    <3>1. mark' \in Nat
      <4>1. Typed'
        BY TypedNext
      <4> QED
        BY <1>1, <1>0, <4>1 DEF Typed, Numbers
    <3> QED
      BY <1>0, <1>1, <3>1 DEF Keeps
  <2>2. Heeded'
    <3>1. ASSUME NEW s, OverThere(s) PROVE OverThere(s)'
      BY <1>1, <3>1 DEF Keeps, OverThere
    <3>2. CASE reply'.kind = "snapshot"
      <4>1. reply' = reply /\ out' = out /\ sync' = sync /\ told' = told /\ row' = row
        BY <1>1, <3>2
      <4>2. (DoneThere => DoneThere' /\ ended' = ended) /\ clipped' = clipped
        BY <1>1 DEF Keeps
      <4>3. work = out.turn => work' = work
        BY <1>1 DEF Keeps
      <4>4. OverThere(reply.status) => OverThere(reply.status)'
        BY <3>1, <4>1 DEF OverThere, Quiet
      <4> QED
        BY <2>1, <3>2, <4>1, <4>2, <4>3, <4>4 DEF Heeded, Believed, Complete
    <3>3. CASE reply'.kind # "snapshot"
      BY <1>1, <2>1, <3>3 DEF Keeps, Heeded
    <3> QED
      BY <3>2, <3>3
  <2>3. Believed'
    BY <1>1, <2>1 DEF Keeps, Believed, OverThere
  <2> QED
    BY <2>2, <2>3
<1>2. CASE Executor \/ ExecutorRestart \/ Deleted
  <2>1. UNCHANGED <<row, out, sync, told, clipped>> /\ (reply'.kind \in {"snapshot", "ok"} => reply' = reply)
    BY <1>2 DEF Executor, Starts, Delegates, ChildStarts, ChildEnds, Notes, Finishes, Forgets, UserCancels, ExecutorRestart,
                Deleted, origin, history, Said
  <2> QED
    BY <1>0, <1>1, <1>2, <2>1, StepsKeep
<1>3. CASE Hears
  <2>1. PICK call \in wire, said \in {"ok", "refused", "busy"} : Handle(call, said)
    BY <1>3 DEF Hears
  <2>2. UNCHANGED <<row, out, sync, told, reply, clipped>>
    BY <1>3, <2>1 DEF Hears, origin, Handle, Run, CancelTurn, history
  <2> QED
    BY <1>0, <1>1, <2>1, <2>2, HandleKeeps
<1>4. CASE Answers
  <2>1. PICK call \in Underway, said \in {"ok", "refused", "busy"} : Handle(call, said) /\ reply' = Said(said)
    BY <1>4 DEF Answers
  <2>2. UNCHANGED <<row, out, sync, told, clipped>> /\ sync \in {"run", "cancel"}
    BY <1>4, <2>1 DEF Answers, origin, Underway, Handle, Run, CancelTurn, history
  <2>3. /\ sync = "run" => call.op = "run" /\ call.turn = out.turn
        /\ sync = "cancel" => call.op = "cancel" /\ call.turn = out.turn
    BY <2>1 DEF Underway, RunCall, CancelCall
  <2>4. /\ Keeps
        /\ call.op = "run" /\ said = "ok" => call.turn <= work'
        /\ call.op = "cancel" => mark' >= call.turn
    BY <1>0, <2>1, <2>2, HandleKeeps
  <2>5. mark' \in Nat /\ work' \in 0..out.turn
    <3>1. Typed'
      BY TypedNext
    <3> QED
      BY <1>0, <2>2, <3>1 DEF Typed, Numbers
  <2>6. sync = "run" /\ said = "ok" => work' = out.turn
    BY <1>0, <2>3, <2>4, <2>5
  <2>7. told => mark' >= out.turn
    BY <1>0, <2>2, <2>3, <2>4, <2>5 DEF Heeded, Keeps
  <2>8. reply'.kind = said /\ said # "snapshot"
    BY <2>1 DEF Said
  <2>9. Heeded'
    BY <2>2, <2>6, <2>7, <2>8 DEF Heeded
  <2>10. Believed'
    BY <1>01, <2>2, <2>4 DEF Believed, Keeps
  <2> QED
    BY <2>9, <2>10
<1>5. CASE Snapshot
  <2>1. UNCHANGED <<origin, executor, outcome, ended, clipped>> /\ sync = "poll"
    BY <1>5 DEF Snapshot, history
  <2>2. Believed'
    BY <2>1 DEF Believed, OverThere, Quiet, DoneThere, origin, executor, task
  <2>3. /\ work' = work /\ mark' = mark /\ out' = out /\ sync' = sync /\ told' = told /\ row' = row
        /\ ended' = ended /\ clipped' = clipped
        /\ DoneThere' = DoneThere /\ OverThere(reply'.status) = OverThere(reply.status)'
    BY <2>1 DEF OverThere, Quiet, DoneThere, origin, executor, task
  <2>4. Heeded'
    BY <1>5, <2>1, <2>3, SnapshotIs DEF Heeded
  <2> QED
    BY <2>2, <2>4
<1>6. ASSUME UNCHANGED <<executor, outcome>>, reply'.kind # "snapshot",
             sync' = "poll" \/ (sync' = "run" /\ reply'.kind = "ok") => work = out'.turn,
             told' /\ (sync' \in {"run", "poll"} \/ reply'.kind = "ok") => mark >= out'.turn
      PROVE  Heeded'
  BY <1>6 DEF Heeded, executor, task
<1>7. ASSUME UNCHANGED <<executor, outcome, ended, clipped>>, row' = row \/ (row' # "done" /\ ~out'.settled),
             out'.turn = out.turn, out'.cursor = out.cursor, out'.settled => UNCHANGED <<out, row>>
      PROVE  Believed'
  BY <1>7 DEF Believed, OverThere, Quiet, DoneThere, executor, task
<1>8. CASE Tick
  <2>1. /\ UNCHANGED <<row, out, executor, outcome, ended, clipped>> /\ reply' = NoReply /\ sync' \in {"cancel", "run"}
        /\ told' => sync' = "cancel"
    BY <1>8 DEF Tick, Await, history
  <2> QED
    BY <1>6, <1>7, <2>1 DEF NoReply
<1>9. CASE SyncGoesOn
  <2>1. /\ UNCHANGED <<row, out, told, executor, outcome, ended, clipped>> /\ reply' = NoReply /\ reply.kind = "ok"
        /\ \/ sync = "cancel" /\ sync' = "run"
           \/ sync = "run" /\ sync' = "poll"
    BY <1>9 DEF SyncGoesOn, Await, history
  <2> QED
    BY <1>6, <1>7, <2>1 DEF NoReply, Heeded
<1>10. CASE TriesAgain
  <2>1. /\ UNCHANGED <<row, executor, outcome, ended, clipped>> /\ reply' = NoReply /\ sync' = "off" /\ told' = FALSE
        /\ out' = [out EXCEPT !.error = TRUE] /\ sync # "off"
    BY <1>10 DEF TriesAgain, Rest, Await, history
  <2>2. out'.turn = out.turn /\ out'.cursor = out.cursor /\ ~out'.settled
    BY <1>0, <1>01, <2>1 DEF Outbox
  <2> QED
    BY <1>6, <1>7, <2>1, <2>2 DEF NoReply
<1>11. CASE GivesUp
  <2>1. /\ UNCHANGED <<executor, outcome>> /\ reply' = NoReply /\ sync' = "off" /\ told' = FALSE /\ row' = "failed"
        /\ out' = [out EXCEPT !.settled = TRUE, !.error = TRUE]
    BY <1>11 DEF GivesUp, Rest, Await, history
  <2>2. out'.error
    BY <1>0, <2>1 DEF Outbox
  <2> QED
    BY <1>6, <2>1, <2>2 DEF NoReply, Believed
<1>12. CASE Apply
  <2>1. /\ UNCHANGED <<executor, outcome, ended>> /\ reply' = NoReply /\ sync' = "off" /\ told' = FALSE
        /\ sync = "poll" /\ reply.kind = "snapshot"
        /\ clipped' = IF Complete(reply) THEN reply.clipped ELSE clipped
        /\ row' = IF Complete(reply) /\ CancelTold THEN reply.status
                  ELSE IF row = "queued" THEN "running" ELSE row
        /\ out' = [out EXCEPT !.cursor = reply.seq, !.error = FALSE,
                              !.settled = Complete(reply) /\ ChildOver(reply) /\ CancelTold]
    BY <1>12 DEF Apply, Rest, Await, history
  <2>2. /\ out'.turn = out.turn /\ out'.cursor = reply.seq /\ out'.cancelled = out.cancelled
        /\ out'.settled = (Complete(reply) /\ ChildOver(reply) /\ CancelTold)
    BY <1>0, <2>1 DEF Outbox
  <2>3. Heeded'
    BY <1>6, <2>1 DEF NoReply
  <2>4. out'.settled => OverThere(reply.status) /\ row' = reply.status
    BY <2>1, <2>2 DEF Heeded, Complete, ChildOver
  <2>5. out'.settled /\ out.cancelled => mark >= out.turn
    BY <2>1, <2>2 DEF Heeded, CancelTold
  <2>6. row' = "done" => DoneThere /\ (reply.seq >= ended \/ clipped')
    <3>1. CASE Complete(reply) /\ CancelTold
      BY <2>1, <3>1 DEF Heeded
    <3>2. CASE ~(Complete(reply) /\ CancelTold)
      <4>1. row' = "done" => row = "done"
        BY <2>1, <3>2
      <4> QED
        BY <2>1, <4>1 DEF Heeded, Believed
    <3> QED
      BY <3>1, <3>2
  <2>7. Believed'
    BY <2>1, <2>2, <2>4, <2>5, <2>6 DEF Believed, OverThere, Quiet, DoneThere, executor, task
  <2> QED
    BY <2>3, <2>7
<1>13. CASE TurnAbove
  <2>1. UNCHANGED <<row, out, sync, told, reply, executor, outcome, ended, clipped>>
    BY <1>13 DEF TurnAbove
  <2>2. Keeps
    BY <1>0, <2>1 DEF Keeps, DoneThere, Quiet, executor, task
  <2> QED
    BY <1>1, <2>1, <2>2
<1>14. CASE Create \/ Delegate \/ Send
  <2>1. /\ UNCHANGED <<executor, outcome, sync, told, reply>> /\ row' = "queued" /\ out.settled
        /\ \/ \E given : out' = [out EXCEPT !.turn = 1, !.slots = given, !.settled = FALSE]
           \/ out' = [out EXCEPT !.turn = @ + 1, !.cancelled = FALSE, !.settled = FALSE]
    <3>1. CASE Create
      BY <1>01, <3>1 DEF Create, Open, history
    <3>2. CASE Delegate
      BY <1>01, <3>2 DEF Delegate, Open, history
    <3>3. CASE Send
      BY <3>3 DEF Send
    <3> QED
      BY <1>14, <3>1, <3>2, <3>3
  <2>2. ~out'.settled
    BY <1>0, <2>1 DEF Outbox
  <2>3. sync = "off" /\ ~told /\ reply.kind # "snapshot"
    BY <1>01, <2>1
  <2> QED
    BY <1>6, <2>1, <2>2, <2>3 DEF Believed
<1>15. CASE Cancel
  <2>1. /\ UNCHANGED <<executor, outcome, sync, told, reply, row, ended, clipped>>
        /\ out' = [out EXCEPT !.cancelled = TRUE, !.settled = FALSE]
    BY <1>15 DEF Cancel, history
  <2>2. ~out'.settled /\ out'.turn = out.turn /\ out'.cursor = out.cursor
    BY <1>0, <2>1 DEF Outbox
  <2>3. Believed'
    BY <1>7, <2>1, <2>2
  <2>4. Heeded'
    BY <2>1, <2>2 DEF Heeded, OverThere, Quiet, DoneThere, executor, task
  <2> QED
    BY <2>3, <2>4
<1>16. CASE ConnectionLost \/ OriginRestart
  <2>1. /\ UNCHANGED <<executor, outcome, row, out, ended, clipped>> /\ reply'.kind \in {"lost", "none"}
        /\ \/ UNCHANGED <<sync, told>>
           \/ sync' = "off" /\ told' = FALSE
    BY <1>16 DEF ConnectionLost, OriginRestart, Rest, Await, NoReply, Said, origin, history
  <2>2. Believed'
    BY <1>7, <2>1
  <2>3. Heeded'
    BY <1>6, <2>1 DEF Heeded
  <2> QED
    BY <2>2, <2>3
<1>17. CASE AgentBreaks \/ AgentMended \/ UNCHANGED vars
  <2>1. UNCHANGED <<row, out, sync, told, reply, executor, outcome, ended, clipped>>
    BY <1>17 DEF AgentBreaks, AgentMended, vars, origin, history
  <2>2. Keeps
    BY <1>0, <2>1 DEF Keeps, DoneThere, Quiet, executor, task
  <2> QED
    BY <1>1, <2>1, <2>2
<1> QED
  BY <1>2, <1>3, <1>4, <1>5, <1>8, <1>9, <1>10, <1>11, <1>12, <1>13, <1>14, <1>15, <1>16, <1>17
     DEF Next, Origin, Sync, Fault

\* At the start nothing is settled but that nothing was asked.
LEMMA BelievedInit == Init => Heeded /\ Believed
<1> SUFFICES ASSUME Init PROVE Heeded /\ Believed
  OBVIOUS
<1>1. /\ sync = "off" /\ told = FALSE /\ reply.kind = "none" /\ row = "none" /\ work = 0
      /\ out.turn = 0 /\ out.cancelled = FALSE
  BY DEF Init, NoReply
<1>2. OverThere(row)
  BY <1>1 DEF Init, OverThere, Quiet, Active
<1> QED
  BY <1>1, <1>2 DEF Heeded, Believed

\* A turn settled by a snapshot has nothing left to run on the executor (apply() and the receipts),
\* and a success that is shown is one, read to the turn's end unless the last page ended early.
THEOREM SettledTurnsOver == Spec => []SettledMeansOver
<1>1. Believed => SettledMeansOver
  BY DEF Believed, OverThere, DoneThere, Quiet, SettledMeansOver
<1> QED
  BY <1>1, TypedInit, TypedNext, BelievedInit, BelievedNext, PTL DEF Spec

\* A cancel that comes while a round is under way keeps its turn open until the executor heard it.
THEOREM CancelsTold == Spec => []CancelNotDropped
<1>1. Believed => CancelNotDropped
  BY DEF Believed, CancelNotDropped
<1> QED
  BY <1>1, TypedInit, TypedNext, BelievedInit, BelievedNext, PTL DEF Spec

(***************************************************************************)
(* A delegated task implements RemoteTurn.                                 *)
(***************************************************************************)

Stutter == UNCHANGED <<Heard, out.turn, starts, outcome>>

\* hub.cancelTask() ends the last turn taken in, or none.
LEMMA CancelTaskImplements ==
  ASSUME ExecutorInv, out.turn \in 0..MaxTurns, UNCHANGED <<Heard, out, starts>>, CancelTask
  PROVE  Remote!Next \/ Stutter
<1> USE DEF Active, Final, Remote!Outcomes, Remote!Turns
<1>1. CASE state # "queued"
  BY <1>1 DEF CancelTask, Stutter
<1>2. CASE state = "queued"
  <2>1. work \in Turns /\ work <= out.turn /\ outcome[work] = "none"
    BY <1>2, Bounds DEF ExecutorInv, Numbers, Running, Recorded
  <2>2. outcome' = [outcome EXCEPT ![work] = "cancelled"]
    BY <1>2 DEF CancelTask
  <2>3. Remote!End(work, "cancelled")
    BY <2>1, <2>2 DEF Remote!End
  <2> QED
    BY <2>1, <2>3, Bounds DEF Remote!Next
<1> QED
  BY <1>1, <1>2

\* A call ends one turn at most: the one it cancels.
LEMMA HandleImplements ==
  ASSUME ExecutorInv, out.turn \in 0..MaxTurns, UNCHANGED <<Heard, out>>,
         NEW call \in Calls(out.turn), NEW said, Handle(call, said)
  PROVE  Remote!Next \/ Stutter
<1> USE Bounds DEF Active, Final, Remote!Outcomes, Remote!Turns
<1>1. CASE \E n \in 1..out.turn : call = RunCall(n) /\ Run(n, said)
  <2>1. PICK n \in 1..out.turn : Run(n, said)
    BY <1>1
  <2>2. CASE UNCHANGED history
    BY <2>2 DEF history, Stutter
  <2>3. CASE /\ IsNext(n) /\ CancelledFirst(n) /\ UNCHANGED starts
             /\ outcome' = [m \in Turns |-> IF m = n \/ (m = work /\ state = "queued")
                                            THEN "cancelled" ELSE outcome[m]]
    <3>1. state # "queued" /\ n \in Turns /\ n <= out.turn /\ n > work
      BY <2>3 DEF IsNext, CancelledFirst, ExecutorInv, Running, Numbers
    <3>2. outcome[n] = "none" /\ outcome \in [Turns -> Final \cup {"none"}]
      BY <3>1 DEF ExecutorInv, Recorded, TaskTyped
    <3>3. outcome' = [outcome EXCEPT ![n] = "cancelled"]
      BY <2>3, <3>1, <3>2
    <3>4. Remote!End(n, "cancelled")
      BY <2>3, <3>1, <3>2, <3>3 DEF Remote!End
    <3> QED
      BY <3>1, <3>4 DEF Remote!Next
  <2> QED
    BY <2>1, <2>2, <2>3 DEF Run, history
<1>2. CASE \E n \in 1..out.turn : call = CancelCall(n) /\ CancelTurn(n, said)
  <2>1. UNCHANGED starts /\ (CancelTask \/ UNCHANGED outcome)
    BY <1>2 DEF CancelTurn
  <2> QED
    BY <2>1, CancelTaskImplements DEF Stutter
<1> QED
  BY <1>1, <1>2, HandleIs

\* The executor's turns begin once and in order, and end once.
LEMMA ExecutorImplements ==
  ASSUME ExecutorInv, out.turn \in 0..MaxTurns, UNCHANGED <<Heard, out>>, Executor \/ ExecutorRestart \/ Deleted
  PROVE  Remote!Next \/ Stutter
<1> USE Bounds DEF Active, Final, Remote!Outcomes, Remote!Turns
<1>0. /\ starts \in [Turns -> Nat] /\ outcome \in [Turns -> Final \cup {"none"}]
      /\ work \in 0..out.turn /\ turn \in 0..work
      /\ state # "none" => work \in Turns
  BY DEF ExecutorInv, Numbers, TaskTyped, Running
<1>1. CASE Starts
  <2>1. work \in Turns /\ outcome[work] = "none" /\ starts[work] = 0 /\ work <= out.turn
    BY <1>0, <1>1 DEF Starts, ExecutorInv, Recorded
  <2>2. CASE Left(slots)
    <3>1. \A m \in Turns : m >= work => starts[m] = 0
      BY <1>0, <2>1 DEF ExecutorInv, Recorded
    <3>2. starts' = [starts EXCEPT ![work] = 1] /\ outcome' = outcome
      <4>1. starts' = [starts EXCEPT ![work] = @ + 1] /\ outcome' = outcome
        BY <1>1, <2>2 DEF Starts
      <4> QED
        BY <2>1, <4>1
    <3>3. Remote!Begin(work)
      BY <2>1, <3>1, <3>2 DEF Remote!Begin
    <3> QED
      BY <2>1, <3>3 DEF Remote!Next
  <2>3. CASE ~Left(slots)
    <3>1. outcome' = [outcome EXCEPT ![work] = "failed"] /\ starts' = starts
      BY <1>1, <2>3 DEF Starts
    <3>2. Remote!End(work, "failed")
      BY <2>1, <3>1 DEF Remote!End
    <3> QED
      BY <2>1, <3>2 DEF Remote!Next
  <2> QED
    BY <2>2, <2>3
<1>2. CASE Finishes
  <2>1. PICK s \in Final : outcome' = [outcome EXCEPT ![turn] = s]
    BY <1>2 DEF Finishes
  <2>2. turn \in Turns /\ turn <= out.turn /\ outcome[turn] = "none" /\ starts[turn] = 1 /\ starts' = starts
    BY <1>0, <1>2 DEF Finishes, ExecutorInv, Recorded
  <2>3. Remote!End(turn, s)
    BY <2>1, <2>2 DEF Remote!End
  <2> QED
    BY <2>1, <2>2, <2>3 DEF Remote!Next
<1>3. CASE Delegates \/ ChildStarts \/ ChildEnds \/ Notes \/ Forgets \/ Deleted
  BY <1>3 DEF Delegates, ChildStarts, ChildEnds, Notes, Forgets, Deleted, Stutter, history
<1>4. CASE UserCancels
  <2>1. CancelTask /\ starts' = starts
    BY <1>4 DEF UserCancels
  <2> QED
    BY <2>1, CancelTaskImplements
<1>5. CASE ExecutorRestart
  <2>1. starts' = starts
    BY <1>5 DEF ExecutorRestart
  <2>2. CASE state \in Active
    <3>1. work \in Turns /\ work <= out.turn /\ outcome[work] = "none"
      BY <1>0, <2>2 DEF ExecutorInv, Running, Recorded
    <3>2. outcome' = [outcome EXCEPT ![work] = "failed"]
      BY <1>5, <2>2 DEF ExecutorRestart
    <3>3. Remote!End(work, "failed")
      BY <2>1, <3>1, <3>2 DEF Remote!End
    <3> QED
      BY <3>1, <3>3 DEF Remote!Next
  <2>3. CASE state \notin Active
    BY <1>5, <2>1, <2>3 DEF ExecutorRestart, Stutter
  <2> QED
    BY <2>2, <2>3
<1> QED
  BY <1>1, <1>2, <1>3, <1>4, <1>5 DEF Executor

\* What the origin has settled is what it heard: a request opens it and an answer closes it, and
\* a cancel of a turn that is settled opens it again.
LEMMA OriginImplements ==
  ASSUME Typed, Heeded, Origin \/ Sync, UNCHANGED <<starts, outcome>>
  PROVE  Remote!Next \/ Stutter
<1> USE Bounds DEF Active, Final, Remote!Outcomes, Heard
<1>0. /\ out \in Outbox /\ out.turn \in 0..MaxTurns /\ out.settled \in BOOLEAN
      /\ row \in Active \cup Final \cup {"none"}
      /\ row \in Active => ~out.settled
      /\ sync # "off" => ~out.settled
      /\ row = "none" <=> out.turn = 0
      /\ row = "none" => out.settled
      /\ reply.kind = "snapshot" => reply.status \in Active \cup Final
  BY DEF Typed, OriginTyped, Control, Outbox, Carried
<1>1. ASSUME ~out'.settled, out.settled, out'.turn \in {out.turn, out.turn + 1}, out'.turn \in 0..MaxTurns
      PROVE  Remote!Next
  <2>1. Heard # "open" /\ Heard' = "open"
    BY <1>0, <1>1
  <2> QED
    BY <1>1, <2>1 DEF Remote!Ask, Remote!Next
<1>2. ASSUME ~out.settled, out'.settled, out'.turn = out.turn, row' \in Final,
             row' = "done" => out.turn > 0 /\ outcome[out.turn] = "done"
      PROVE  Remote!Next
  <2>1. Heard = "open" /\ Heard' = row'
    BY <1>2
  <2>2. Remote!Hear(row')
    BY <1>2, <2>1 DEF Remote!Hear
  <2> QED
    BY <1>2, <2>2 DEF Remote!Next
<1>3. ASSUME ~out.settled, ~out'.settled, out'.turn = out.turn
      PROVE  Stutter
  BY <1>3 DEF Stutter
<1>4. CASE TurnAbove
  BY <1>4 DEF TurnAbove, Stutter
<1>5. CASE Create \/ Delegate
  <2>1. row = "none" /\ MaxTurns > 0 /\ \E given : out' = [out EXCEPT !.turn = 1, !.slots = given, !.settled = FALSE]
    BY <1>5 DEF Create, Delegate, Open
  <2>2. out.turn = 0 /\ out.settled /\ out'.turn = 1 /\ ~out'.settled
    BY <1>0, <2>1 DEF Outbox
  <2> QED
    BY <1>1, <2>1, <2>2
<1>6. CASE Send
  <2>1. out.settled /\ out.turn < MaxTurns
        /\ out' = [out EXCEPT !.turn = @ + 1, !.cancelled = FALSE, !.settled = FALSE]
    BY <1>6 DEF Send
  <2>2. out'.turn = out.turn + 1 /\ ~out'.settled /\ out.turn + 1 \in 0..MaxTurns
    BY <1>0, <2>1 DEF Outbox
  <2> QED
    BY <1>1, <2>1, <2>2
<1>7. CASE Cancel
  <2>1. out' = [out EXCEPT !.cancelled = TRUE, !.settled = FALSE]
    BY <1>7 DEF Cancel
  <2>2. out'.turn = out.turn /\ ~out'.settled
    BY <1>0, <2>1 DEF Outbox
  <2> QED
    BY <1>0, <1>1, <1>3, <2>2
<1>8. CASE Tick \/ SyncGoesOn
  BY <1>8 DEF Tick, SyncGoesOn, Stutter
<1>9. CASE Apply
  <2>1. /\ sync = "poll" /\ reply.kind = "snapshot"
        /\ row' = IF Complete(reply) /\ CancelTold THEN reply.status
                  ELSE IF row = "queued" THEN "running" ELSE row
        /\ out' = [out EXCEPT !.cursor = reply.seq, !.error = FALSE,
                              !.settled = Complete(reply) /\ ChildOver(reply) /\ CancelTold]
    BY <1>9 DEF Apply
  <2>2. /\ out'.turn = out.turn
        /\ out'.settled = (Complete(reply) /\ ChildOver(reply) /\ CancelTold)
    BY <1>0, <2>1 DEF Outbox
  <2>3. out'.settled => row' = reply.status /\ reply.status \in Final
    BY <2>1, <2>2 DEF Complete
  <2>4. reply.status = "done" => out.turn > 0 /\ outcome[out.turn] = "done"
    BY <2>1 DEF Heeded, DoneThere
  <2>5. ~out.settled
    BY <1>0, <2>1
  <2> QED
    BY <1>2, <1>3, <2>2, <2>3, <2>4, <2>5
<1>10. CASE GivesUp
  <2>1. out' = [out EXCEPT !.settled = TRUE, !.error = TRUE] /\ row' = "failed" /\ ~out.settled
    BY <1>0, <1>10 DEF GivesUp
  <2>2. out'.turn = out.turn /\ out'.settled
    BY <1>0, <2>1 DEF Outbox
  <2> QED
    BY <1>2, <2>1, <2>2
<1>11. CASE TriesAgain
  <2>1. out' = [out EXCEPT !.error = TRUE] /\ ~out.settled
    BY <1>0, <1>11 DEF TriesAgain
  <2>2. out'.turn = out.turn /\ ~out'.settled
    BY <1>0, <2>1 DEF Outbox
  <2> QED
    BY <1>3, <2>1, <2>2
<1> QED
  BY <1>4, <1>5, <1>6, <1>7, <1>8, <1>9, <1>10, <1>11 DEF Origin, Sync

\* Every step of the two daemons is a step of the promise or changes nothing it speaks of.
LEMMA StepImplements == Typed /\ Heeded /\ [Next]_vars => [Remote!Next]_(Remote!remoteVars)
<1> SUFFICES ASSUME Typed, Heeded, [Next]_vars PROVE Remote!Next \/ Stutter
  BY DEF Stutter, Remote!remoteVars
<1>0. ExecutorInv /\ out.turn \in 0..MaxTurns /\ wire \subseteq Calls(out.turn) /\ Underway \subseteq Calls(out.turn)
  BY UnderwayIs DEF Typed, OriginTyped, Outbox, ExecutorInv, Carried
<1>1. CASE Origin \/ Sync
  <2>1. UNCHANGED <<starts, outcome>>
    BY <1>1 DEF Origin, Sync, TurnAbove, Create, Delegate, Send, Cancel, Tick, SyncGoesOn, Apply, GivesUp, TriesAgain,
                history
  <2> QED
    BY <1>1, <2>1, OriginImplements
<1>2. CASE Executor \/ ExecutorRestart \/ Deleted
  <2>1. UNCHANGED <<Heard, out>>
    BY <1>2 DEF Executor, Starts, Delegates, ChildStarts, ChildEnds, Notes, Finishes, Forgets, UserCancels, ExecutorRestart,
                Deleted, origin, Heard
  <2> QED
    BY <1>0, <1>2, <2>1, ExecutorImplements
<1>3. CASE Answers \/ Hears
  <2>1. PICK call \in Calls(out.turn), said \in {"ok", "refused", "busy"} : Handle(call, said)
    BY <1>0, <1>3 DEF Answers, Hears
  <2>2. UNCHANGED <<Heard, out>>
    BY <1>3 DEF Answers, Hears, origin, Heard
  <2> QED
    BY <1>0, <2>1, <2>2, HandleImplements
<1>4. CASE Snapshot \/ ConnectionLost \/ OriginRestart \/ AgentBreaks \/ AgentMended \/ UNCHANGED vars
  BY <1>4 DEF Snapshot, ConnectionLost, OriginRestart, AgentBreaks, AgentMended, vars, origin, history, Stutter, Heard
<1> QED
  BY <1>1, <1>2, <1>3, <1>4 DEF Next, Fault

\* The two daemons, with all that gets lost between them and both of them stopping anywhere, keep
\* the promise of a turn on another machine, though neither of them is in charge.
THEOREM PeersImplement == Spec => ImplementsRemoteTurn
<1>1. Init => Remote!Init
  BY DEF Init, Remote!Init, Heard, Active, Turns, Remote!Turns
<1> QED
  BY <1>1, TypedInit, TypedNext, BelievedInit, BelievedNext, StepImplements, PTL
     DEF Spec, ImplementsRemoteTurn, Remote!Spec

(***************************************************************************)
(* What the promise is worth: these follow from RemoteTurn alone, and so   *)
(* hold of the two daemons of a peer task.                                 *)
(***************************************************************************)

\* A step of the promise keeps what it says of the turns so far.
LEMMA PromiseNext == Remote!Promise /\ [Remote!Next]_(Remote!remoteVars) => Remote!Promise'
<1> SUFFICES ASSUME Remote!Promise, [Remote!Next]_(Remote!remoteVars) PROVE Remote!Promise'
  OBVIOUS
<1> USE Bounds DEF Remote!Turns, Remote!Outcomes, Remote!Promise
<1>1. CASE Remote!Ask
  BY <1>1 DEF Remote!Ask
<1>2. CASE Remote!Send
  BY <1>2 DEF Remote!Send
<1>3. ASSUME NEW n \in Remote!Turns, Remote!Begin(n) PROVE Remote!Promise'
  BY <1>3 DEF Remote!Begin
<1>4. ASSUME NEW n \in Remote!Turns, NEW s \in Remote!Outcomes, Remote!End(n, s) PROVE Remote!Promise'
  BY <1>4 DEF Remote!End
<1>5. ASSUME NEW s \in Remote!Outcomes, Remote!Hear(s) PROVE Remote!Promise'
  BY <1>5 DEF Remote!Hear
<1>6. CASE UNCHANGED Remote!remoteVars
  BY <1>6 DEF Remote!remoteVars
<1> QED
  BY <1>1, <1>2, <1>3, <1>4, <1>5, <1>6 DEF Remote!Next

\* It takes back no outcome, and begins no turn that was passed.
LEMMA PromiseKeeps ==
  ASSUME Remote!Promise, Remote!Next, NEW n \in Remote!Turns
  PROVE  /\ outcome[n] # "none" => outcome'[n] = outcome[n]
         /\ starts[n] = 0 /\ (\E m \in Remote!Turns : m > n /\ starts[m] = 1) => starts'[n] = 0
<1> USE Bounds DEF Remote!Turns, Remote!Promise
<1>1. ASSUME UNCHANGED <<starts, outcome>>
      PROVE  starts'[n] = starts[n] /\ outcome'[n] = outcome[n]
  BY <1>1
<1>2. ASSUME NEW m \in Remote!Turns, Remote!Begin(m)
      PROVE  /\ outcome'[n] = outcome[n]
             /\ starts[n] = 0 /\ (\E k \in Remote!Turns : k > n /\ starts[k] = 1) => starts'[n] = 0
  <2>1. n # m => starts'[n] = starts[n]
    BY <1>2 DEF Remote!Begin
  <2>2. ~\E k \in Remote!Turns : k > m /\ starts[k] = 1
    BY <1>2 DEF Remote!Begin
  <2> QED
    BY <1>2, <2>1, <2>2 DEF Remote!Begin
<1>3. ASSUME NEW m \in Remote!Turns, NEW s, Remote!End(m, s)
      PROVE  starts'[n] = starts[n] /\ (outcome[n] # "none" => outcome'[n] = outcome[n])
  BY <1>3 DEF Remote!End
<1> QED
  BY <1>1, <1>2, <1>3 DEF Remote!Next, Remote!Ask, Remote!Send, Remote!Hear

\* What the origin has settled as done is the last turn that it sent, which the executor began exactly
\* once and ended so, over every lost answer and restart (sync, run, the executor's receipts).
THEOREM OriginShowsTheTruth == Spec => []Remote!DoneIsTrue
<1>1. Remote!Init => Remote!Promise
  BY Bounds DEF Remote!Init, Remote!Promise, Remote!Turns, Remote!Outcomes
<1>2. Remote!Promise => Remote!DoneIsTrue
  BY Bounds DEF Remote!Promise, Remote!DoneIsTrue, Remote!Turns
<1> QED
  BY <1>1, <1>2, PromiseNext, PeersImplement, PTL DEF ImplementsRemoteTurn, Remote!Spec

\* The executor gives a turn one outcome for ever, and begins none after a later one began, though
\* calls arrive late and twice.
THEOREM ExecutorTakesNothingBack == Spec => Remote!NeverTakenBack
<1>1. Remote!Init => Remote!Promise
  BY Bounds DEF Remote!Init, Remote!Promise, Remote!Turns, Remote!Outcomes
<1>2. Remote!Promise /\ [Remote!Next]_(Remote!remoteVars) =>
        [\A n \in Remote!Turns :
           /\ outcome[n] # "none" => outcome'[n] = outcome[n]
           /\ starts[n] = 0 /\ (\E m \in Remote!Turns : m > n /\ starts[m] = 1) => starts'[n] = 0
        ]_(Remote!remoteVars)
  BY PromiseKeeps
<1> QED
  BY <1>1, <1>2, PromiseNext, PeersImplement, PTL DEF ImplementsRemoteTurn, Remote!Spec, Remote!NeverTakenBack
===============================================================================
