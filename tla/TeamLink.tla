------------------------------- MODULE TeamLink -------------------------------
(***************************************************************************)
(* Turns of one task that execute on another node: team-coordinator.ts on  *)
(* the daemon that owns the task, team.ts on the node that runs its turns, *)
(* and the parts of hub.ts they call.  Their connection loses calls and    *)
(* replies, and a call whose caller gave up may still arrive.  Both        *)
(* daemons stop at any point and start again with what they stored.        *)
(*                                                                         *)
(* Each task has its own outbound job, receipts and marks, so one task is  *)
(* the whole model.  Step of the coordinator: the code between two awaits. *)
(* What may happen between two of its commits is only that it stops; where *)
(* that matters ("dispatch", "finish") the code is cut in two.             *)
(***************************************************************************)
EXTENDS Integers, FiniteSetsExt

CONSTANTS
  MaxTurns,   \* bound: requests accepted by the coordinator
  Requests,   \* tool calls that may be relayed, each <<turn that makes it, its id>>
  PageSize,   \* EVENTS_PAGE_LIMIT
  MaxEvents,  \* MAX_EVENTS_PER_TASK: the store keeps no more
  MaxRare     \* bound: lost connections, restarts, edits and deletions on the node, relayed calls,
              \* events the node records on its own

ASSUME LinkAssumption ==
  /\ {MaxTurns, MaxRare} \subseteq Nat
  /\ {PageSize, MaxEvents} \subseteq Nat \ {0}
  /\ \A r \in Requests : r[1] \in 1..MaxTurns

Turns    == 1..MaxTurns
Active   == {"queued", "running"}
Final    == {"done", "failed", "cancelled"}

VARIABLES
  \* ---- the coordinator ----
  row,       \* tasks.status
  asked,     \* requests accepted so far
  out,       \* outbound/<task>: turn, active, cancel, seq (afterSeq)
  answer,    \* answer/<task>/<turn>/<id>: the outcome on record
  kept,      \* requests with a receipt of their effect (effect/<task>/...)
  job,       \* the hub has the task's job in a queue
  loop,      \* where execute() is: a call it awaits, a sleep, a cut, or "off"
  verdict,   \* what it will return
  calling,   \* answer(): "off", "working" in the tool, or the outcome it is sending
  \* ---- between them ----
  wire,      \* calls given up that may still arrive, in any order and more than once
  reply,     \* what the call that execute() awaits came back with
  \* ---- the execution node ----
  work,      \* worker/<task>: the last turn taken in, 0 for no job
  receipts,  \* received/<task>/<turn>
  mark,      \* cancel/<task>
  request,   \* request/<task>/<id>: "none", "open" or the outcome
  state,     \* tasks.status of the imported task, "none" without a row
  turn,      \* the turn in hub.running, 0 for none
  aborted,   \* its AbortController fired
  ending,    \* it is finished, but still in hub.running
  events,    \* number of events recorded for the task
  dropped,   \* the queued turn lost its job: pump() took it, and the agent could not be resolved
  healthy,   \* the agent can be resolved and is the one it was
  \* ---- for the properties ----
  starts,    \* how often the node began each turn
  outcome,   \* what became of each turn there
  effects,   \* how often each relayed call had its effect
  ended,     \* events on record when a turn that had begun last ended
  taken,     \* events that the coordinator recorded
  told,      \* events that a notice in its transcript stands for
  rare       \* how many of those there were

coordinator == <<row, asked, out, answer, kept, job, loop, verdict, calling>>
node        == <<work, receipts, mark, request, state, turn, aborted, ending, events, dropped>>
history     == <<starts, outcome, effects, ended, taken, told>>
vars        == <<coordinator, wire, reply, node, healthy, history, rare>>

RunCall(n)       == [op |-> "run", turn |-> n]
CancelCall(n)    == [op |-> "cancel", turn |-> n]
ReplyCall(r, o)  == [op |-> "reply", request |-> r, outcome |-> o]
NoReply          == [kind |-> "none"]
Said(kind)       == [kind |-> kind]   \* "ok", "refused", "busy" or "lost"
Awaiting         == {"describe", "precancel", "run", "cancel", "poll"}
Sending          == {r \in Requests : calling[r] \in {"result", "error"}}

\* The calls under way that change something on the node.
Underway ==
  {ReplyCall(r, calling[r]) : r \in Sending}
  \cup (IF loop = "run" THEN {RunCall(out.turn)} ELSE {})
  \cup (IF loop \in {"precancel", "cancel"} THEN {CancelCall(out.turn)} ELSE {})

Init ==
  /\ row = "none" /\ asked = 0
  /\ out = [turn |-> 0, active |-> FALSE, cancel |-> FALSE, seq |-> 0]
  /\ answer = [r \in Requests |-> "none"] /\ kept = {}
  /\ job = FALSE /\ loop = "off" /\ verdict = "none"
  /\ calling = [r \in Requests |-> "off"]
  /\ wire = {} /\ reply = NoReply
  /\ work = 0 /\ receipts = {} /\ mark = 0
  /\ request = [r \in Requests |-> "none"]
  /\ state = "none" /\ turn = 0 /\ aborted = FALSE /\ ending = FALSE
  /\ events = 0 /\ dropped = FALSE /\ healthy = TRUE
  /\ starts = [n \in Turns |-> 0]
  /\ outcome = [n \in Turns |-> "none"]
  /\ effects = [r \in Requests |-> 0]
  /\ ended = 0 /\ taken = {} /\ told = {}
  /\ rare = 0
-------------------------------------------------------------------------------
(* The coordinator's hub *)

\* createTask() and sendTask(), also for a retry.
Ask ==
  /\ row \notin Active /\ ~job /\ loop = "off" /\ asked < MaxTurns
  /\ row' = "queued" /\ job' = TRUE /\ asked' = asked + 1
  /\ UNCHANGED <<out, answer, kept, loop, verdict, calling, wire, reply, node, healthy, history, rare>>

\* pump() and execute() up to team.run(): an active job is joined, not counted again.
Pump ==
  /\ job /\ row = "queued"
  /\ job' = FALSE /\ row' = "running" /\ loop' = "dispatch"
  /\ UNCHANGED <<asked, out, answer, kept, verdict, calling, wire, reply, node, healthy, history, rare>>

\* cancelTask(): it notes the cancel in the job; without a turn in progress it also finishes.
\* No call of a client comes between the commits of the two cuts.
Cancel ==
  /\ row \in Active /\ loop \notin {"dispatch", "finish"}
  /\ out' = [out EXCEPT !.cancel = @ \/ out.active]
  /\ job' = FALSE
  /\ row' = IF loop = "off" THEN "cancelled" ELSE row
  /\ <<out', job', row'>> # <<out, job, row>>
  /\ UNCHANGED <<asked, answer, kept, loop, verdict, calling, wire, reply, node, healthy, history, rare>>

\* Mutation: the recovery forgets to queue the turn it reattaches.
RecoveryQueuesNothing == FALSE

\* recoverInterrupted() queues an unfinished turn whose job is active.
Requeued == out.active

\* The daemon stops and starts: stop() awaits nothing that changes what is stored.
CoordinatorRestart ==
  /\ rare < MaxRare /\ rare' = rare + 1
  /\ row' = CASE row \notin Active -> row
              [] row \in Active /\ out.active -> "queued"
              [] OTHER -> "failed"
  /\ job' = (row \in Active /\ Requeued)
  /\ loop' = "off" /\ verdict' = "none" /\ reply' = NoReply
  /\ calling' = [r \in Requests |-> "off"]
  /\ wire' = wire \cup Underway
  /\ UNCHANGED <<asked, out, answer, kept, node, healthy, history>>
-------------------------------------------------------------------------------
(* execute() of the coordinator *)

\* request(): the call goes out and the loop awaits its answer.
Await(op) ==
  /\ loop' = op /\ reply' = NoReply
  /\ UNCHANGED wire

\* The turn's job is stored and what was kept for the turn before is dropped.
Dispatch ==
  /\ loop = "dispatch"
  /\ IF out.active THEN UNCHANGED <<out, answer, kept>>
     ELSE /\ out' = [out EXCEPT !.turn = @ + 1, !.active = TRUE, !.cancel = FALSE]
          /\ answer' = [r \in Requests |-> IF r[1] = out.turn THEN "none" ELSE answer[r]]
          /\ kept' = {r \in kept : r[1] # out.turn}
  /\ Await("describe")
  /\ UNCHANGED <<row, asked, job, verdict, calling, node, healthy, history, rare>>

\* The node described the agent; a cancel goes ahead of the dispatch.
Described ==
  /\ loop = "describe" /\ reply.kind = "ok"
  /\ IF out.cancel THEN Await("precancel")
                   ELSE Await("run")
  /\ UNCHANGED <<row, asked, out, answer, kept, job, verdict, calling, node, healthy, history, rare>>

PreCancelled ==
  /\ loop = "precancel" /\ reply.kind = "ok"
  /\ Await("run")
  /\ UNCHANGED <<row, asked, out, answer, kept, job, verdict, calling, node, healthy, history, rare>>

\* The dispatch was acknowledged (`started`), or the sleep before the next poll is over.
Follow ==
  /\ loop = "sleep" \/ (loop = "run" /\ reply.kind = "ok")
  /\ IF out.cancel THEN Await("cancel") ELSE Await("poll")
  /\ UNCHANGED <<row, asked, out, answer, kept, job, verdict, calling, node, healthy, history, rare>>

CancelTold ==
  /\ loop = "cancel" /\ reply.kind = "ok"
  /\ Await("poll")
  /\ UNCHANGED <<row, asked, out, answer, kept, job, verdict, calling, node, healthy, history, rare>>

\* Mutation: a terminal status ends the turn while events are still to be fetched.
EndsWithoutDraining == reply.status \in Final

\* "Drain events before committing the terminal state".
Drained == reply.status \in Final /\ reply.seq = out.seq

\* Mutation: teamEffect() runs the effect whatever is on record.
EffectTwice(rs) == [r \in Requests |-> effects[r] + IF r \in rs THEN 1 ELSE 0]

\* teamEffect(): the effect and its receipt are one transaction, a receipt stands for both.
Effect(rs) == [r \in Requests |-> effects[r] + IF r \in rs \ kept THEN 1 ELSE 0]

\* answer() up to its first await: an outcome on record is sent again, a call refused is
\* recorded as an error, and the tool has its effect before anything is awaited.
Answer(recorded, denied, served) ==
  /\ answer' = [r \in Requests |-> IF r \in denied THEN "error" ELSE answer[r]]
  /\ effects' = Effect(served)
  /\ kept' = kept \cup served
  /\ calling' = [r \in Requests |-> CASE r \in served -> "working"
                                      [] r \in recorded -> answer[r]
                                      [] r \in denied -> "error"
                                      [] OTHER -> calling[r]]

\* A snapshot: its events are recorded together with the cursor, after a notice if those before
\* them expired on the node.  Its open requests are answered unless the turn is cancelled or a
\* call is being answered, and an end is noted.
\* A cancel noted since the loop last looked either hides the requests or refuses them.
Polled ==
  /\ loop = "poll" /\ reply.kind = "snapshot"
  /\ out' = [out EXCEPT !.seq = reply.seq, !.active = ~Drained]
  \* No notice when nothing expired: the interval is empty.
  /\ told' = told \cup (out.seq + 1)..reply.base
  /\ taken' = taken \cup (reply.base + 1)..reply.seq
  /\ LET open == {r \in reply.requests : r[1] = out.turn /\ calling[r] = "off"}
         due  == {r \in open : answer[r] = "none"}
     IN  \E denied \in SUBSET due :
           \/ ~out.cancel /\ Answer(open \ due, denied, due \ denied)
           \/ out.cancel /\ denied = due /\ Answer(open \ due, denied, {})
           \/ out.cancel /\ denied = {} /\ Answer({}, {}, {})
  /\ verdict' = IF Drained THEN reply.status ELSE "none"
  /\ loop' = IF Drained THEN "finish" ELSE "sleep"
  /\ reply' = NoReply
  /\ UNCHANGED <<row, asked, job, wire, node, healthy, starts, outcome, ended, rare>>

\* Errors that retrying cannot mend (TEAM_AGENT_UNAVAILABLE, TEAM_TURN_OUT_OF_ORDER, ...).
GivesUp ==
  /\ loop \in Awaiting /\ reply.kind = "refused"
  /\ out' = [out EXCEPT !.active = FALSE]
  /\ verdict' = "failed" /\ loop' = "finish" /\ reply' = NoReply
  /\ UNCHANGED <<row, asked, answer, kept, job, calling, wire, node, healthy, history, rare>>

\* Mutation: after an error the loop goes on polling without having dispatched the turn.
PollsAtOnce ==
  /\ loop \in Awaiting /\ reply.kind \in {"lost", "busy"}
  /\ Await("poll")
  /\ UNCHANGED <<row, asked, out, answer, kept, job, verdict, calling, node, healthy, history, rare>>

\* Any other error: after a pause it starts again with the description.
Reconnects ==
  /\ loop \in Awaiting /\ reply.kind \in {"lost", "busy"}
  /\ Await("describe")
  /\ UNCHANGED <<row, asked, out, answer, kept, job, verdict, calling, node, healthy, history, rare>>

\* The hub gets the outcome and finishes the row.
Finish ==
  /\ loop = "finish"
  /\ row' = verdict /\ loop' = "off" /\ verdict' = "none"
  /\ UNCHANGED <<asked, out, answer, kept, job, calling, wire, reply, node, healthy, history, rare>>

\* The tool is through: its outcome is recorded and sent.
ToolDone(r) ==
  /\ calling[r] = "working"
  /\ \E o \in {"result", "error"} : /\ answer' = [answer EXCEPT ![r] = o]
                                  /\ calling' = [calling EXCEPT ![r] = o]
  /\ UNCHANGED <<row, asked, out, kept, job, loop, verdict, wire, reply, node, healthy, history, rare>>
-------------------------------------------------------------------------------
(* The execution node's RPCs.  Each is one transaction. *)

\* hub.cancelTask(): a queued turn ends here, a running one is aborted.
CancelWork ==
  /\ aborted' = (aborted \/ (state = "running" /\ turn # 0))
  /\ state' = IF state = "queued" THEN "cancelled" ELSE state
  /\ outcome' = IF state = "queued" THEN [outcome EXCEPT ![work] = "cancelled"] ELSE outcome
  /\ dropped' = FALSE

\* The cancel came before its dispatch.
CancelledFirst(n) == mark >= n

\* Mutation: the dispatch is taken in without its receipt.
TakeInUnrecorded(n) ==
  /\ work' = n /\ UNCHANGED receipts
  /\ request' = [r \in Requests |-> "none"]

\* The turn and its receipt are stored together; requests of the turn before are dropped.
TakeIn(n) ==
  /\ work' = n /\ receipts' = receipts \cup {n}
  /\ request' = [r \in Requests |-> "none"]

\* What team.run does and answers: a turn on record is not taken in again.
Run(n, said) ==
  \/ /\ ~healthy \/ (n \notin receipts /\ n # work + 1)
     /\ said = "refused"
     /\ UNCHANGED <<node, history>>
  \/ /\ healthy /\ n \in receipts
     /\ said = "ok"
     /\ UNCHANGED <<node, history>>
  \/ /\ healthy /\ n \notin receipts /\ n = work + 1 /\ CancelledFirst(n)
     /\ work > 0 => state # "none"
     /\ said = "ok"
     /\ TakeIn(n)
     /\ state' = "cancelled"
     /\ aborted' = (aborted \/ (state = "running" /\ turn # 0))
     /\ outcome' = [m \in Turns |-> IF m = n \/ (m = work /\ state = "queued")
                                    THEN "cancelled" ELSE outcome[m]]
     /\ dropped' = FALSE
     /\ UNCHANGED <<mark, turn, ending, events, starts, effects, ended, taken, told>>
  \/ /\ healthy /\ n \notin receipts /\ n = work + 1 /\ ~CancelledFirst(n)
     /\ work > 0 => (state \in Final \/ dropped) /\ turn = 0
     /\ said = "ok"
     /\ TakeIn(n)
     /\ state' = "queued" /\ dropped' = FALSE
     /\ UNCHANGED <<mark, turn, aborted, ending, events, history>>
  \/ \* sendTask() throws: a turn is in progress, or the row is gone.
     /\ healthy /\ n \notin receipts /\ n = work + 1 /\ work > 0
     /\ state = "none" \/ (~CancelledFirst(n) /\ ((state \in Active /\ ~dropped) \/ turn # 0))
     /\ said = "busy"
     /\ UNCHANGED <<node, history>>

\* team.cancel keeps the highest turn cancelled and cancels a turn up to it.
CancelTurn(n, said) ==
  /\ said = "ok"
  /\ mark' = IF n > mark THEN n ELSE mark
  /\ IF 0 < work /\ work <= n /\ state # "none"
     THEN CancelWork ELSE UNCHANGED <<aborted, state, outcome, dropped>>
  /\ UNCHANGED <<work, receipts, request, turn, ending, events, starts, effects, ended, taken, told>>

\* team.reply: only to a request of the turn in work, and never another outcome.
TakeReply(r, o, said) ==
  \/ /\ state # "none" /\ work = r[1] /\ request[r] \in {"open", o}
     /\ said = "ok"
     /\ request' = [request EXCEPT ![r] = o]
     /\ UNCHANGED <<work, receipts, mark, state, turn, aborted, ending, events, dropped, history>>
  \/ /\ ~(state # "none" /\ work = r[1] /\ request[r] \in {"open", o})
     /\ said = "refused"
     /\ UNCHANGED <<node, history>>

Handle(call, said) ==
  \/ call.op = "run" /\ Run(call.turn, said)
  \/ call.op = "cancel" /\ CancelTurn(call.turn, said)
  \/ call.op = "reply" /\ TakeReply(call.request, call.outcome, said)

\* The call execute() awaits arrives and is answered in time.
NodeAnswers ==
  /\ loop \in {"precancel", "run", "cancel"} /\ reply = NoReply
  /\ \E said \in {"ok", "refused", "busy"} :
       /\ Handle(IF loop = "run" THEN RunCall(out.turn) ELSE CancelCall(out.turn), said)
       /\ reply' = Said(said)
  /\ UNCHANGED <<coordinator, wire, healthy, rare>>

\* team.reply arrives; whatever came back, the next poll may offer the request again.
NodeReplied(r) ==
  /\ r \in Sending
  /\ \E said \in {"ok", "refused"} : TakeReply(r, calling[r], said)
  /\ calling' = [calling EXCEPT ![r] = "off"]
  /\ UNCHANGED <<row, asked, out, answer, kept, job, loop, verdict, wire, reply, healthy, rare>>

\* A call arrives whose answer nobody awaits any more.
NodeHears ==
  /\ \E call \in wire, said \in {"ok", "refused", "busy"} : Handle(call, said)
  /\ UNCHANGED <<coordinator, wire, reply, healthy, rare>>

\* team.describe, and every error it has.
NodeDescribes ==
  /\ loop = "describe" /\ reply = NoReply
  /\ reply' = Said(IF healthy THEN "ok" ELSE "refused")
  /\ UNCHANGED <<coordinator, wire, node, healthy, history, rare>>

\* appendEvent() deletes what is older than the last MaxEvents: the first event after the cursor
\* that the node still has comes after this one.
Base == Max({out.seq, events - MaxEvents})

\* store.events(): a page ends after PageSize events, or before, for its size.
PageEnds == IF events = out.seq THEN {out.seq} ELSE (Base + 1)..Min({events, Base + PageSize})

\* team.poll: status, a page of events, and the requests that still want an outcome.
NodeSnapshot ==
  /\ loop = "poll" /\ reply = NoReply
  /\ IF work = 0 \/ state = "none" THEN reply' = Said("refused")
     ELSE \E seq \in PageEnds :
            reply' = [kind     |-> "snapshot",
                      status   |-> state,
                      base     |-> Base,
                      seq      |-> seq,
                      requests |-> IF state \in Active
                                   THEN {r \in Requests : r[1] = work /\ request[r] = "open"}
                                   ELSE {}]
  /\ UNCHANGED <<coordinator, wire, node, healthy, history, rare>>
-------------------------------------------------------------------------------
(* The execution node's hub (HubTurns has all of it) *)

\* The turn starts once the agent has a slot.
NodeStarts ==
  /\ state = "queued" /\ turn = 0 /\ healthy /\ ~dropped
  /\ state' = "running" /\ turn' = work /\ aborted' = FALSE
  /\ events' = events + 1
  /\ starts' = [starts EXCEPT ![work] = @ + 1]
  /\ UNCHANGED <<coordinator, wire, reply, work, receipts, mark, request, ending, dropped, healthy, outcome, effects,
                 ended, taken, told, rare>>

\* The agent file broke after the turn was taken in: agentFor() throws, and the row stays queued
\* without a job.  Or the agent moved, to another node or runtime: the turn fails.
NodeDrops ==
  /\ state = "queued" /\ turn = 0 /\ ~healthy /\ ~dropped
  /\ \/ dropped' = TRUE /\ UNCHANGED <<state, outcome, events>>
     \/ /\ state' = "failed" /\ outcome' = [outcome EXCEPT ![work] = "failed"]
        /\ events' \in {events, events + 1}
        /\ UNCHANGED dropped
  /\ UNCHANGED <<coordinator, wire, reply, work, receipts, mark, request, turn, aborted, ending, healthy,
                 starts, effects, ended, taken, told, rare>>

\* An event of the turn's cell; or, while there is a row, a notice or the scan of a closing cell.
NodeNotes ==
  /\ rare < MaxRare /\ rare' = rare + 1
  /\ state # "none"
  /\ events' = events + 1
  /\ UNCHANGED <<coordinator, wire, reply, work, receipts, mark, request, state, turn, aborted, ending, dropped,
                 healthy, history>>

\* relay(): a tool call of the turn's cell is queued for the coordinator.
NodeRelays(r) ==
  /\ rare < MaxRare /\ rare' = rare + 1
  /\ turn # 0 /\ ~ending /\ state = "running" /\ r[1] = work /\ request[r] = "none"
  /\ request' = [request EXCEPT ![r] = "open"]
  /\ UNCHANGED <<coordinator, wire, reply, work, receipts, mark, state, turn, aborted, ending, events, dropped, healthy,
                 history>>

\* execute() finishes the row, if it is still there; until run() goes on, the turn is still in
\* hub.running.
NodeFinishes ==
  /\ turn # 0 /\ ~ending
  /\ \E s \in Final :
       /\ (s = "cancelled") <=> aborted
       /\ state' = IF state = "none" THEN "none" ELSE s
       /\ outcome' = [outcome EXCEPT ![turn] = s]
  /\ ending' = TRUE /\ events' = events + 1 /\ ended' = events + 1
  /\ UNCHANGED <<coordinator, wire, reply, work, receipts, mark, request, turn, aborted, dropped, healthy, starts,
                 effects, taken, told, rare>>

NodeForgets ==
  /\ ending
  /\ turn' = 0 /\ ending' = FALSE /\ aborted' = FALSE
  /\ UNCHANGED <<coordinator, wire, reply, work, receipts, mark, request, state, events, dropped, healthy, history, rare>>

\* The node's own user may cancel the task (and may not send to it or retry it).
NodeUserCancels ==
  /\ state \in Active /\ ~aborted
  /\ CancelWork
  /\ UNCHANGED <<coordinator, wire, reply, work, receipts, mark, request, turn, ending, events, healthy, starts, effects,
                 ended, taken, told, rare>>

\* The connection fails, or a call takes longer than twenty seconds.
ConnectionLost ==
  /\ rare < MaxRare /\ rare' = rare + 1
  /\ loop \in Awaiting \/ Sending # {}
  /\ reply' = IF loop \in Awaiting THEN Said("lost") ELSE reply
  /\ wire' = wire \cup Underway
  /\ calling' = [r \in Requests |-> IF r \in Sending THEN "off" ELSE calling[r]]
  /\ UNCHANGED <<row, asked, out, answer, kept, job, loop, verdict, node, healthy, history>>

\* The node's daemon starts again: cells are gone, unfinished turns failed.
NodeRestart ==
  /\ rare < MaxRare /\ rare' = rare + 1
  /\ state' = IF state \in Active THEN "failed" ELSE state
  /\ outcome' = IF state \in Active THEN [outcome EXCEPT ![work] = "failed"] ELSE outcome
  /\ events' = IF state \in Active THEN events + 1 ELSE events
  /\ ended' = IF state \in Active THEN events + 1 ELSE ended
  /\ turn' = 0 /\ aborted' = FALSE /\ ending' = FALSE /\ dropped' = FALSE
  /\ reply' = IF loop \in Awaiting /\ reply = NoReply THEN Said("lost") ELSE reply
  /\ calling' = [r \in Requests |-> IF r \in Sending THEN "off" ELSE calling[r]]
  /\ UNCHANGED <<row, asked, out, answer, kept, job, loop, verdict, wire,
                 work, receipts, mark, request, healthy, starts, effects, taken, told>>

\* Somebody breaks or moves the agent on the node, or puts it right again.
NodeAgentEdited ==
  /\ rare < MaxRare /\ rare' = rare + 1
  /\ healthy' = ~healthy
  /\ UNCHANGED <<coordinator, wire, reply, node, history>>

\* The node's copy of a finished task is deleted; its receipts stay.
NodeDeletes ==
  /\ rare < MaxRare /\ rare' = rare + 1
  /\ state \in Final
  /\ state' = "none"
  /\ request' = [r \in Requests |-> "none"]
  /\ UNCHANGED <<coordinator, wire, reply, work, receipts, mark, turn, aborted, ending, events, dropped, healthy,
                 history>>
-------------------------------------------------------------------------------
Hub   == Ask \/ Pump \/ Cancel \/ CoordinatorRestart \/ Finish
Loop  == Dispatch \/ Described \/ PreCancelled \/ Follow \/ CancelTold \/ Polled
         \/ GivesUp \/ Reconnects
Relay == \E r \in Requests : ToolDone(r) \/ NodeReplied(r) \/ NodeRelays(r)
Rpcs  == NodeAnswers \/ NodeHears \/ NodeDescribes \/ NodeSnapshot
Node  == NodeStarts \/ NodeDrops \/ NodeNotes \/ NodeFinishes \/ NodeForgets \/ NodeUserCancels
Fault == ConnectionLost \/ NodeRestart \/ NodeAgentEdited \/ NodeDeletes

Next == Hub \/ Loop \/ Relay \/ Rpcs \/ Node \/ Fault
Spec == Init /\ [][Next]_vars

\* Event loops go on, a call that is not lost is answered, and the node's turns end by their
\* timer.  Clients, tools and the cells' calls owe nothing.
Fairness ==
  /\ WF_vars(Pump) /\ WF_vars(Finish) /\ WF_vars(Loop)
  /\ WF_vars(NodeAnswers) /\ WF_vars(NodeDescribes \/ NodeSnapshot)
  /\ WF_vars(NodeStarts \/ NodeDrops) /\ WF_vars(NodeFinishes) /\ WF_vars(NodeForgets)

FairSpec == Spec /\ Fairness
-------------------------------------------------------------------------------
(* Properties *)

\* Every variable has its type, and the node has taken in no turn that was not sent.
TypeOK ==
  /\ row \in Active \cup Final \cup {"none"} /\ asked \in 0..MaxTurns
  /\ out \in [turn : 0..MaxTurns, active : BOOLEAN, cancel : BOOLEAN, seq : Nat]
  /\ answer \in [Requests -> {"none", "result", "error"}] /\ kept \subseteq Requests
  /\ job \in BOOLEAN /\ verdict \in Final \cup {"none"}
  /\ loop \in Awaiting \cup {"off", "dispatch", "finish", "sleep"}
  /\ calling \in [Requests -> {"off", "working", "result", "error"}]
  /\ work \in 0..out.turn /\ receipts = 1..work /\ mark \in 0..out.turn
  /\ request \in [Requests -> {"none", "open", "result", "error"}]
  /\ state \in Active \cup Final \cup {"none"} /\ turn \in 0..work
  /\ {aborted, ending, healthy} \subseteq BOOLEAN
  /\ events \in Nat /\ dropped \in BOOLEAN /\ starts \in [Turns -> Nat]
  /\ outcome \in [Turns -> Final \cup {"none"}] /\ effects \in [Requests -> Nat]
  /\ ended \in Nat /\ taken \subseteq Nat /\ told \subseteq Nat
  /\ rare \in 0..MaxRare

\* A relayed call has its effect at most once, and its cell gets a result only if it had it,
\* over lost replies and restarts (teamEffect's receipt, the receipts of answers).
EffectOnce ==
  \A r \in Requests : /\ effects[r] <= 1
                      /\ request[r] = "result" => effects[r] = 1

\* Whoever reads that a turn is done can read its transcript to the turn's end, and everything in
\* it or a notice where events expired on the node: the terminal status is committed only after the
\* last page of events.  (What the node records after that comes with the next turn.)
TranscriptComplete ==
  row = "done" => out.seq >= ended /\ 1..ended \subseteq taken \cup told

\* Every request ends over lost connections and restarts of both daemons, unless the node
\* deleted its copy of the task, where sendTask() then fails for ever, or dropped the turn, which
\* only a cancel or a restart of the node ends.
TurnEnds ==
  row \in Active ~> \/ row \in Final
                    \/ work > 0 /\ state = "none"
                    \/ dropped /\ ~out.cancel

\* What the link promises: turns begin once and in order, and "done" is true.
Heard == IF row \in Active THEN "open" ELSE row
Remote == INSTANCE RemoteTurn WITH heard <- Heard, turn <- out.turn
ImplementsRemoteTurn == Remote!Spec
===============================================================================
