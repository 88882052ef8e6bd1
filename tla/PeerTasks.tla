------------------------------- MODULE PeerTasks -------------------------------
(***************************************************************************)
(* A task that a daemon delegates to a peer (peer-tasks.ts and the parts   *)
(* of hub.ts and store.ts it calls).  The origin keeps a mirror of the     *)
(* task and an outbox; the executor keeps the task itself, its receipts    *)
(* and the task its turns may delegate in turn.  Neither is in charge:     *)
(* the turns of the whole tree come out of ranges of one budget that are   *)
(* handed down and never handed back.  The connection loses calls and      *)
(* answers, a call given up may still arrive, and both daemons stop at any *)
(* point and start again with what they stored.                            *)
(*                                                                         *)
(* A step is the code between two awaits; each store.transaction() is one. *)
(***************************************************************************)
EXTENDS Integers, FiniteSetsExt

CONSTANTS
  MaxTurns,   \* bound: turns the origin sends
  Budget,     \* turns of a tree (60)
  MaxShare,   \* the most a delegation takes (10)
  PageSize,   \* events of a snapshot (100)
  MaxEvents,  \* MAX_EVENTS_PER_TASK: the store keeps no more
  MaxRare     \* bound: lost connections, restarts, edits, deletions, turns above and below,
              \* cancels at the executor, events recorded on their own

ASSUME PeerAssumption ==
  /\ {MaxTurns, MaxRare} \subseteq Nat
  /\ {Budget, MaxShare, PageSize, MaxEvents} \subseteq Nat \ {0}

Turns  == 1..MaxTurns
Active == {"queued", "running"}
Final  == {"done", "failed", "cancelled"}
Slots  == 0..(Budget - 1)

VARIABLES
  \* ---- the origin ----
  above,     \* peer/budget of the task that delegates, NoSlots if the user asked the peer
  row,       \* tasks.status of the mirror
  out,       \* peer/out/<task>
  shadow,    \* tasks.status of the mirror's mirrored child
  sync,      \* the call sync() awaits, or "off"
  told,      \* sync() read the outbox with the cancel in it
  \* ---- between them ----
  wire,      \* calls given up that may still arrive, in any order and more than once
  reply,     \* what the call came back with
  \* ---- the executor ----
  work,      \* peer/in/...: the last turn taken in, 0 for none
  receipts,  \* peer/receipt/.../<turn>
  mark,      \* peer/cancel/...
  state,     \* tasks.status of the task, "none" without a row
  slots,     \* peer/budget/<task>
  turn,      \* the turn in hub.running, 0 for none
  aborted,   \* its AbortController fired
  ending,    \* it is finished, but still in hub.running
  events,    \* number of events recorded for the task
  child,     \* tasks.status of the task it delegated, "over" for every terminal one
  share,     \* the child's peer/budget
  broken,    \* which agents are gone or do not load: the task's own, the child's
  \* ---- for the properties ----
  spent,     \* how many turns each slot of the budget paid for, on either machine
  starts,    \* how often the executor began each turn
  outcome,   \* what became of each turn there
  ended,     \* events on record when a turn that had begun last ended
  clipped,   \* the last page of a turn that was over ended early, for its size
  rare       \* how many of those there were

origin   == <<above, row, out, shadow, sync, told>>
task     == <<state, slots, turn, aborted, ending, events, child, share>>
executor == <<work, receipts, mark, task>>
history  == <<spent, starts, outcome, ended, clipped>>
vars     == <<origin, wire, reply, executor, broken, history, rare>>

Span(a, b)   == [start |-> a, end |-> b]
NoSlots       == Span(0, 0)
RunCall(n)    == [op |-> "run", turn |-> n]
CancelCall(n) == [op |-> "cancel", turn |-> n]
NoReply       == [kind |-> "none"]
Said(kind)    == [kind |-> kind]   \* "ok", "refused", "busy" or "lost"

\* The call under way, if it changes something at the executor.
Underway == CASE sync = "run"    -> {RunCall(out.turn)}
              [] sync = "cancel" -> {CancelCall(out.turn)}
              [] OTHER           -> {}

\* The user asked an agent of the origin, whose turns may delegate, or an agent of the peer.
Init ==
  /\ above \in {Span(0, Budget), NoSlots}
  /\ row = "none" /\ shadow = "none" /\ sync = "off"
  /\ out = [turn |-> 0, slots |-> NoSlots, cursor |-> 0,
            cancelled |-> FALSE, settled |-> TRUE, error |-> FALSE]
  /\ told = FALSE
  /\ wire = {} /\ reply = NoReply
  /\ work = 0 /\ receipts = {} /\ mark = 0
  /\ state = "none" /\ slots = NoSlots
  /\ turn = 0 /\ aborted = FALSE /\ ending = FALSE /\ events = 0
  /\ child = "none" /\ share = NoSlots /\ broken = {}
  /\ spent = [s \in Slots |-> 0]
  /\ starts = [n \in Turns |-> 0]
  /\ outcome = [n \in Turns |-> "none"]
  /\ ended = 0 /\ clipped = FALSE
  /\ rare = 0
-------------------------------------------------------------------------------
(* The budget *)

Left(r) == r.end > r.start

\* allocate(): half of what is left, at least one turn, off the end of the range.
ShareSize(r) == Min({MaxShare, Max({1, (r.end - r.start) \div 2})})
Given(r)     == Span(r.end - ShareSize(r), r.end)
Remains(r)   == Span(r.start, r.end - ShareSize(r))

\* consume()
Consumed(r)  == Span(r.start + 1, r.end)
Spend(r)     == spent' = [spent EXCEPT ![r.start] = @ + 1]
-------------------------------------------------------------------------------
(* The origin *)

\* A turn of the delegating task starts; its first one is no rare event.
TurnAbove ==
  /\ Left(above)
  /\ above' = Consumed(above) /\ Spend(above)
  /\ IF above.start = 0 THEN UNCHANGED rare ELSE rare < MaxRare /\ rare' = rare + 1
  /\ UNCHANGED <<row, out, shadow, sync, told, wire, reply, executor, broken, starts, outcome,
                 ended, clipped>>

\* The outbox's first entry, written with the mirror's row.
Open(given) ==
  /\ row' = "queued"
  /\ out' = [out EXCEPT !.turn = 1, !.slots = given, !.settled = FALSE]

\* create(): the user asked the peer's agent, and the whole budget goes with the task.
Create ==
  /\ row = "none" /\ above = NoSlots /\ MaxTurns > 0
  /\ Open(Span(0, Budget))
  /\ UNCHANGED <<above, shadow, sync, told, wire, reply, executor, broken, history, rare>>

\* delegate(): a turn of the task above takes a share for it.
Delegate ==
  /\ row = "none" /\ above.start > 0 /\ Left(above) /\ MaxTurns > 0
  /\ above' = Remains(above)
  /\ Open(Given(above))
  /\ UNCHANGED <<shadow, sync, told, wire, reply, executor, broken, history, rare>>

\* send(): a follow-up, once the turn before is settled.
Send ==
  /\ row \in Final /\ out.settled /\ out.turn < MaxTurns
  /\ out' = [out EXCEPT !.turn = @ + 1, !.cancelled = FALSE, !.settled = FALSE]
  /\ row' = "queued" /\ clipped' = FALSE
  /\ UNCHANGED <<above, shadow, sync, told, wire, reply, executor, broken, spent, starts, outcome, ended, rare>>

\* cancel(): it is only noted here, even for a turn that is settled.
Cancel ==
  /\ out.turn > 0
  /\ out' = [out EXCEPT !.cancelled = TRUE, !.settled = FALSE]
  /\ out' # out
  /\ UNCHANGED <<above, row, shadow, sync, told, wire, reply, executor, broken, history, rare>>

Await(op) == sync' = op /\ reply' = NoReply
Rest      == Await("off") /\ told' = FALSE

\* Mutation: a mirror with an error is not tried again.
DueWithoutError == ~out.settled /\ ~out.error

\* What tick() takes up.
Due == ~out.settled

\* tick() and sync() up to its first call: a cancel goes ahead of the dispatch.
Tick ==
  /\ Due /\ sync = "off"
  /\ told' = out.cancelled
  /\ Await(IF out.cancelled THEN "cancel" ELSE "run")
  /\ UNCHANGED <<above, row, out, shadow, wire, executor, broken, history, rare>>

\* Every round sends the dispatch again, then asks for a snapshot.
SyncGoesOn ==
  /\ reply.kind = "ok"
  /\ \/ sync = "cancel" /\ Await("run")
     \/ sync = "run" /\ Await("poll")
  /\ UNCHANGED <<above, row, out, shadow, told, wire, executor, broken, history, rare>>

\* Mutation: the round settles though a cancel came while it was under way.
AnyRoundTells == TRUE

\* A cancel that came after sync() read the outbox has not been told.
CancelTold == out.cancelled => told

\* "Drain pages before finishing, so a waiter never sees a result without its transcript."
Complete(snapshot) == snapshot.status \in Final /\ ~snapshot.more

\* Mutation: what the turn delegated is not waited for.
ChildIgnored(snapshot) == TRUE

ChildOver(snapshot) == snapshot.child \notin Active

\* The snapshot is taken over in one transaction.  (The outbox is still at the turn that
\* sync() read, as a follow-up waits until the turn is settled.)
Apply ==
  /\ sync = "poll" /\ reply.kind = "snapshot"
  /\ shadow' = reply.child
  /\ out' = [out EXCEPT !.cursor = reply.seq, !.error = FALSE,
                        !.settled = Complete(reply) /\ ChildOver(reply) /\ CancelTold]
  /\ row' = IF Complete(reply) /\ CancelTold THEN reply.status
            ELSE IF row = "queued" THEN "running" ELSE row
  /\ clipped' = IF Complete(reply) THEN reply.clipped ELSE clipped
  /\ Rest
  /\ UNCHANGED <<above, wire, executor, broken, spent, starts, outcome, ended, rare>>

\* Errors that retrying cannot mend (PEER_AGENT_*, PEER_TURN_*, PEER_UNKNOWN_EXECUTION, ...)
\* settle the outbox and fail the mirror, whatever it showed and whatever came meanwhile.
GivesUp ==
  /\ sync # "off" /\ reply.kind = "refused"
  /\ out' = [out EXCEPT !.settled = TRUE, !.error = TRUE]
  /\ row' = "failed"
  /\ Rest
  /\ UNCHANGED <<above, shadow, wire, executor, broken, history, rare>>

\* Any other error: it is noted, and a later tick() tries again.
TriesAgain ==
  /\ sync # "off" /\ reply.kind \in {"lost", "busy"}
  /\ out' = [out EXCEPT !.error = TRUE]
  /\ Rest
  /\ UNCHANGED <<above, row, shadow, wire, executor, broken, history, rare>>
-------------------------------------------------------------------------------
(* The executor's RPCs *)

\* hub.finish() of `n` tasks that this one delegated: each leaves a notice in its transcript.
Noted(n) == events' = events + IF state = "none" THEN 0 ELSE n

\* A queued child that is cancelled ends at once.
ChildCancelled ==
  /\ child' = IF child = "queued" THEN "over" ELSE child
  /\ Noted(IF child = "queued" THEN 1 ELSE 0)

\* hub.cancelTask(): first what the task delegated, whether or not the task itself is over.
CancelTask ==
  /\ ChildCancelled
  /\ state' = IF state = "queued" THEN "cancelled" ELSE state
  /\ outcome' = IF state = "queued" THEN [outcome EXCEPT ![work] = "cancelled"] ELSE outcome
  /\ aborted' = (aborted \/ (state = "running" /\ turn # 0))

\* The cancel came before its dispatch.
CancelledFirst(n) == mark >= n

\* Mutation: the turn is taken in without its receipt.
TakeInUnrecorded(n) == work' = n /\ UNCHANGED receipts

\* peer/in and the receipt of the turn are stored with its effect.
TakeIn(n) == work' = n /\ receipts' = receipts \cup {n}

\* Mutation: every dispatch brings its budget along.
BroughtAgain(n) == slots' = out.slots

\* The budget comes with the first turn.
Brought(n) == slots' = IF work = 0 THEN out.slots ELSE slots

\* A receipt stands for the turn; otherwise the next turn may begin, if it can.
IsNext(n)  == n \notin receipts /\ n = work + 1
Free     == state \in Final /\ turn = 0

\* run(): what task.run does and answers.
Run(n, said) ==
  \/ /\ "own" \in broken \/ (n \notin receipts /\ n # work + 1)
     /\ said = "refused"
     /\ UNCHANGED <<executor, history>>
  \/ /\ "own" \notin broken /\ n \in receipts
     /\ said = "ok"
     /\ UNCHANGED <<executor, history>>
  \/ /\ "own" \notin broken /\ IsNext(n) /\ CancelledFirst(n) /\ (work > 0 => state # "none")
     /\ said = "ok"
     /\ TakeIn(n) /\ Brought(n)
     /\ state' = "cancelled"
     /\ ChildCancelled
     /\ aborted' = (aborted \/ (state = "running" /\ turn # 0))
     /\ outcome' = [m \in Turns |-> IF m = n \/ (m = work /\ state = "queued")
                                    THEN "cancelled" ELSE outcome[m]]
     /\ UNCHANGED <<mark, turn, ending, share, spent, starts, ended, clipped>>
  \/ /\ "own" \notin broken /\ IsNext(n) /\ ~CancelledFirst(n) /\ (work > 0 => Free)
     /\ said = "ok"
     /\ TakeIn(n) /\ Brought(n)
     /\ state' = "queued"
     /\ UNCHANGED <<mark, turn, aborted, ending, events, child, share, history>>
  \/ \* sendTask() or getTask() throws: a turn is in progress, or the row is gone.
     /\ "own" \notin broken /\ IsNext(n) /\ work > 0
     /\ state = "none" \/ (~CancelledFirst(n) /\ ~Free)
     /\ said = "busy"
     /\ UNCHANGED <<executor, history>>

\* task.cancel keeps the highest turn cancelled and cancels a turn up to it.
CancelTurn(n, said) ==
  /\ said = "ok"
  /\ mark' = Max({mark, n})
  /\ IF 0 < work /\ work <= n /\ state # "none"
     THEN CancelTask ELSE UNCHANGED <<child, events, state, outcome, aborted>>
  /\ UNCHANGED <<work, receipts, slots, turn, ending, share, spent, starts, ended, clipped>>

Handle(call, said) ==
  \/ call.op = "run" /\ Run(call.turn, said)
  \/ call.op = "cancel" /\ CancelTurn(call.turn, said)

\* The call that sync() awaits arrives and is answered in time.
Answers ==
  /\ reply = NoReply
  /\ \E call \in Underway, said \in {"ok", "refused", "busy"} :
       Handle(call, said) /\ reply' = Said(said)
  /\ UNCHANGED <<origin, wire, broken, rare>>

\* A call arrives whose answer nobody awaits any more.
Hears ==
  /\ \E call \in wire, said \in {"ok", "refused", "busy"} : Handle(call, said)
  /\ UNCHANGED <<origin, wire, reply, broken, rare>>

\* What is older than the last MaxEvents is deleted: the first event after the cursor that the
\* executor still has comes after this one.
Base == Max({out.cursor, events - MaxEvents})

\* store.events(): a page ends after PageSize events, or before, for its size.
PageEnds == IF events = out.cursor THEN {out.cursor} ELSE (Base + 1)..Min({events, Base + PageSize})

\* task.poll: status, a page of events, and the tree below.  Only a full page has `more`.
Snapshot ==
  /\ sync = "poll" /\ reply = NoReply
  /\ \/ /\ work = 0 \/ state = "none" \/ (child # "none" /\ "child" \in broken)
        /\ reply' = Said("refused")
     \/ /\ work # 0 /\ state # "none" /\ (child # "none" => "child" \notin broken)
        /\ \E seq \in PageEnds :
             reply' = [kind    |-> "snapshot",
                       status  |-> state,
                       seq     |-> seq,
                       more    |-> seq = Base + PageSize,
                       clipped |-> state \in Final /\ seq < events /\ seq < Base + PageSize,
                       child   |-> child]
  /\ UNCHANGED <<origin, wire, executor, broken, history, rare>>
-------------------------------------------------------------------------------
(* The executor's hub (HubTurns has all of it) *)

\* A turn starts if the task has a slot left for it, and fails at once if not.  One whose
\* agent does not load stays queued.
Starts ==
  /\ state = "queued" /\ turn = 0 /\ "own" \notin broken
  /\ turn' = work /\ aborted' = FALSE
  /\ IF Left(slots)
     THEN /\ state' = "running" /\ ending' = FALSE /\ events' = events + 1
          /\ slots' = Consumed(slots) /\ Spend(slots)
          /\ starts' = [starts EXCEPT ![work] = @ + 1]
          /\ UNCHANGED outcome
     ELSE /\ state' = "failed" /\ ending' = TRUE
          /\ outcome' = [outcome EXCEPT ![work] = "failed"]
          /\ UNCHANGED <<slots, events, spent, starts>>
  /\ UNCHANGED <<origin, wire, reply, work, receipts, mark, child, share, broken, ended, clipped, rare>>

\* The turn delegates: localChild() takes a share, a child it has gets a follow-up.
Delegates ==
  /\ turn # 0 /\ ~ending /\ "child" \notin broken
  /\ child' = "queued"
  /\ \/ /\ child = "none" /\ Left(slots)
        /\ slots' = Remains(slots) /\ share' = Given(slots) /\ Noted(1)
        /\ UNCHANGED rare
     \/ /\ child = "over" /\ rare < MaxRare
        /\ rare' = rare + 1
        /\ UNCHANGED <<slots, events, share>>
  /\ UNCHANGED <<origin, wire, reply, work, receipts, mark, state, turn, aborted, ending, broken, history>>

ChildStarts ==
  /\ child = "queued" /\ "child" \notin broken
  /\ IF Left(share)
     THEN child' = "running" /\ share' = Consumed(share) /\ Spend(share) /\ Noted(0)
     ELSE child' = "over" /\ UNCHANGED <<share, spent>> /\ Noted(1)
  /\ UNCHANGED <<origin, wire, reply, work, receipts, mark, state, slots, turn, aborted, ending,
                 broken, starts, outcome, ended, clipped, rare>>

ChildEnds ==
  /\ child = "running" /\ child' = "over"
  /\ Noted(1)
  /\ UNCHANGED <<origin, wire, reply, work, receipts, mark, state, slots, turn, aborted, ending,
                 share, broken, history, rare>>

\* An event of the turn's cell; or, while there is a row, a notice or the scan of a closing cell.
Notes ==
  /\ rare < MaxRare /\ rare' = rare + 1
  /\ state # "none"
  /\ events' = events + 1
  /\ UNCHANGED <<origin, wire, reply, work, receipts, mark, state, slots, turn, aborted, ending,
                 child, share, broken, history>>

\* execute() finishes the row, if it is still there; until run() goes on, the turn is still in
\* hub.running.
Finishes ==
  /\ turn # 0 /\ ~ending
  /\ \E s \in Final : /\ (s = "cancelled") <=> aborted
                      /\ state' = IF state = "none" THEN "none" ELSE s
                      /\ outcome' = [outcome EXCEPT ![turn] = s]
  /\ ending' = TRUE /\ events' = events + 1 /\ ended' = events + 1
  /\ UNCHANGED <<origin, wire, reply, work, receipts, mark, slots, turn, aborted, child, share,
                 broken, spent, starts, clipped, rare>>

Forgets ==
  /\ ending
  /\ turn' = 0 /\ ending' = FALSE /\ aborted' = FALSE
  /\ UNCHANGED <<origin, wire, reply, work, receipts, mark, state, slots, events, child, share,
                 broken, history, rare>>

\* The executor's own user may cancel the task (and may not send to it or retry it).
UserCancels ==
  /\ rare < MaxRare /\ rare' = rare + 1
  /\ state # "none"
  /\ CancelTask
  /\ UNCHANGED <<origin, wire, reply, work, receipts, mark, slots, turn, ending, share,
                 broken, spent, starts, ended, clipped>>
-------------------------------------------------------------------------------
(* What goes wrong *)

\* The connection fails, or a call takes longer than ten seconds.
ConnectionLost ==
  /\ rare < MaxRare /\ rare' = rare + 1
  /\ sync # "off"
  /\ reply' = Said("lost") /\ wire' = wire \cup Underway
  /\ UNCHANGED <<origin, executor, broken, history>>

\* The origin's daemon starts again: mirrors stay as they were, unlike its own tasks.
OriginRestart ==
  /\ rare < MaxRare /\ rare' = rare + 1
  /\ wire' = wire \cup Underway
  /\ Rest
  /\ UNCHANGED <<above, row, out, shadow, executor, broken, history>>

\* Mutation: the recovery queues an unfinished turn again.
QueuesAgain == "queued"

\* recoverInterrupted() on the executor, which has nothing to resume the task by.
Recovered == "failed"

\* The executor's daemon starts again: unfinished turns failed.
ExecutorRestart ==
  /\ rare < MaxRare /\ rare' = rare + 1
  /\ Noted((IF state \in Active THEN 1 ELSE 0) + (IF child \in Active THEN 1 ELSE 0))
  /\ IF state \in Active
     THEN /\ state' = Recovered /\ ended' = events'
          /\ outcome' = [outcome EXCEPT ![work] = "failed"]
     ELSE UNCHANGED <<state, outcome, ended>>
  /\ child' = IF child \in Active THEN "over" ELSE child
  /\ turn' = 0 /\ aborted' = FALSE /\ ending' = FALSE
  /\ reply' = IF sync # "off" /\ reply = NoReply THEN Said("lost") ELSE reply
  /\ UNCHANGED <<origin, wire, work, receipts, mark, slots, share, broken, spent, starts,
                 clipped>>

\* Somebody breaks, moves or deletes an agent of the executor.
AgentBreaks ==
  /\ rare < MaxRare /\ rare' = rare + 1
  /\ \E a \in {"own", "child"} \ broken : broken' = broken \cup {a}
  /\ UNCHANGED <<origin, wire, reply, executor, history>>

\* It is put right again; to its peers the agent of the task is then another generation.
AgentMended ==
  /\ "child" \in broken
  /\ broken' = broken \ {"child"}
  /\ UNCHANGED <<origin, wire, reply, executor, history, rare>>

\* The executor's user deletes the finished task with its child; the receipts stay.
Deleted ==
  /\ rare < MaxRare /\ rare' = rare + 1
  /\ state \in Final /\ child \notin Active
  /\ state' = "none" /\ child' = "none"
  /\ slots' = NoSlots /\ share' = NoSlots
  /\ UNCHANGED <<origin, wire, reply, work, receipts, mark, turn, aborted, ending, events,
                 broken, history>>
-------------------------------------------------------------------------------
Origin   == TurnAbove \/ Create \/ Delegate \/ Send \/ Cancel
Sync     == Tick \/ SyncGoesOn \/ Apply \/ GivesUp \/ TriesAgain
Executor == Starts \/ Delegates \/ ChildStarts \/ ChildEnds \/ Notes
            \/ Finishes \/ Forgets \/ UserCancels
Fault    == ConnectionLost \/ OriginRestart \/ ExecutorRestart \/ AgentBreaks \/ AgentMended \/ Deleted

Next == Origin \/ Sync \/ Answers \/ Hears \/ Snapshot \/ Executor \/ Fault
Spec == Init /\ [][Next]_vars

\* Timers tick, a call that is not lost is answered, and turns end by their timer.  Users,
\* agents and whatever is still on the wire owe nothing.
Fairness ==
  /\ WF_vars(Sync) /\ WF_vars(Answers) /\ WF_vars(Snapshot)
  /\ WF_vars(Starts) /\ WF_vars(Finishes) /\ WF_vars(Forgets)
  /\ WF_vars(ChildStarts) /\ WF_vars(ChildEnds)

FairSpec == Spec /\ Fairness
-------------------------------------------------------------------------------
(* Properties *)

\* Every variable has its type, and the executor has taken in no turn that was not sent.
TypeOK ==
  LET Spans == [start : 0..Budget, end : 0..Budget] IN
  /\ {above, slots, share, out.slots} \subseteq Spans
  /\ row \in Active \cup Final \cup {"none"}
  /\ shadow \in Active \cup {"none", "over"} /\ child \in Active \cup {"none", "over"}
  /\ out \in [turn : 0..MaxTurns, slots : Spans, cursor : Nat,
             cancelled : BOOLEAN, settled : BOOLEAN, error : BOOLEAN]
  /\ sync \in {"off", "cancel", "run", "poll"} /\ told \in BOOLEAN
  /\ work \in 0..out.turn /\ receipts = 1..work /\ mark \in 0..out.turn
  /\ state \in Active \cup Final \cup {"none"} /\ turn \in 0..work
  /\ {aborted, ending} \subseteq BOOLEAN /\ broken \subseteq {"own", "child"}
  /\ events \in Nat /\ spent \in [Slots -> Nat] /\ starts \in [Turns -> Nat]
  /\ outcome \in [Turns -> Final \cup {"none"}]
  /\ ended \in Nat /\ clipped \in BOOLEAN
  /\ rare \in 0..MaxRare

\* "Disjoint ranges need no central counter": no slot of a tree's budget pays for two turns,
\* on whichever machines they run, though dispatches are repeated and follow-ups share the
\* range of the first turn.
NoSlotTwice == \A s \in Slots : spent[s] <= 1

\* Once the origin has settled a turn by a snapshot, nothing of it is left to run on the
\* executor: neither the task nor what it delegated.  (Unless the turn was cancelled before it
\* came: a turn before it that the origin gave up may still delegate while it stops.)  A mirror
\* that shows "done" is right about it, and has read the transcript to the turn's end, unless the
\* last page ended early for its size: nobody asks for the rest of that one.
SettledMeansOver ==
  /\ out.settled /\ ~out.error => /\ state \notin Active
                                 /\ (row = "cancelled" \/ child \notin Active)
  /\ row = "done" => outcome[out.turn] = "done" /\ (out.cursor >= ended \/ clipped)

\* A cancel that comes at any point of a round is not lost: the turn is not settled by a
\* snapshot before the executor has heard of it.
CancelNotDropped == out.settled /\ out.cancelled /\ ~out.error => mark >= out.turn

\* Every turn ends for the origin, over lost connections and restarts of both daemons, unless
\* the executor deleted its task: then sendTask() there fails for ever.
TurnEnds == row \in Active ~> (row \in Final \/ (work > 0 /\ state = "none"))

\* The promise of any turn on another machine.  What the origin has settled is what it heard.
Heard == IF out.settled THEN row ELSE "open"
Remote == INSTANCE RemoteTurn WITH heard <- Heard, turn <- out.turn
ImplementsRemoteTurn == Remote!Spec
===============================================================================
