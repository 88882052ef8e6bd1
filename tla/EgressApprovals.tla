---------------------------- MODULE EgressApprovals ----------------------------
(***************************************************************************)
(* Writes that wait for the user.  The egress proxy holds a cell's request *)
(* (services/egress_proxy.py, Approvals) and streams its queue to the      *)
(* daemon, whose ApprovalWatcher (daemon/src/approvals.ts) mirrors it and  *)
(* sends the user's verdicts back through a command of its own.  The same  *)
(* watcher lists the writes that a connector service holds by policy.      *)
(*                                                                         *)
(* Verdicts, the proxy's timer, the lines of the stream and the replies of *)
(* the commands overtake each other; several clients decide at once; the   *)
(* stream, the proxy and the daemon stop and start again.  A step is the   *)
(* code between two awaits.                                                *)
(***************************************************************************)
EXTENDS Naturals, FiniteSets, SequencesExt

CONSTANTS
  Writes,      \* requests the proxy may hold, numbered in the order in which they ask
  Policies,    \* pending grants of the policy service
  Clients,     \* who decides through the daemon: terminals, the desktop, the command line
  PendingMax,  \* APPROVALS_PENDING_MAX
  MaxAsked,    \* bound: how many of them come to ask
  MaxVerdicts, \* bound: verdicts sent by the clients
  MaxNamed,    \* bound: how often the cells name a grant
  MaxRare      \* bound: broken streams, restarts, lost commands

ASSUME ApprovalsAssumption ==
  /\ PendingMax \in Nat \ {0} /\ {MaxAsked, MaxVerdicts, MaxNamed, MaxRare} \subseteq Nat
  /\ Writes \subseteq Nat /\ IsFiniteSet(Writes) /\ Writes \cap Policies = {}

Approvals == Writes \cup Policies
Verdicts  == {"allow", "deny"}

VARIABLES
  \* ---- the proxy, and the policy service ----
  write,     \* of each request: "new", "held", or what ask() returned; "lost" with the proxy
  future,    \* the future that ask() awaits
  grant,     \* grants.state, "none" without a row
  late,      \* grants whose `expires` has passed
  \* ---- the stream of the proxy's queue ----
  stream,    \* "down", "open", or "ending": no longer written, not yet read to its end
  pipe,      \* its lines that the daemon has not read
  \* ---- the daemon ----
  pending,   \* ApprovalWatcher.pending
  decided,   \* ApprovalWatcher.decided
  policy,    \* ApprovalWatcher.policy
  adding,    \* calls of addPolicy() that were shown the grant as pending
  call,      \* decide() per client and approval: its verdict and where it is
  notes,     \* what the transcript of its task says became of each write
  named,     \* how often a cell named each grant, answered APPROVAL_REQUIRED
  rare       \* how many of those there were

proxy   == <<write, future>>
service == <<grant, late>>
link    == <<stream, pipe>>
daemon  == <<pending, decided, policy, adding>>
vars    == <<proxy, service, link, daemon, call, notes, named, rare>>

Held     == {w \in Writes : write[w] = "held"}
Asked    == {w \in Writes : write[w] # "new"} \cup {p \in Policies : grant[p] # "none"}
Line(t, w) == [type |-> t, id |-> w]
NoCall   == [verdict |-> "allow", at |-> "no"]
UnderWay == {"sent", "taken", "refused", "unsure"}

Init ==
  /\ write = [w \in Writes |-> "new"] /\ future = [w \in Writes |-> "none"]
  /\ grant = [p \in Policies |-> "none"] /\ late = {}
  /\ stream = "down" /\ pipe = <<>>
  /\ pending = {} /\ decided = {} /\ policy = {}
  /\ adding = [p \in Policies |-> 0] /\ named = [p \in Policies |-> 0]
  /\ call = [c \in Clients |-> [a \in Approvals |-> NoCall]]
  /\ notes = [a \in Approvals |-> {}]
  /\ rare = 0

Note(a, text) == notes' = [notes EXCEPT ![a] = @ \cup {text}]
At(c, a, step) == call' = [call EXCEPT ![c][a].at = step]

-------------------------------------------------------------------------------
(* The proxy. *)

\* Approvals.broadcast: to whoever watches; nobody else ever gets the line.
Broadcast(lines) == pipe' = IF stream = "open" THEN pipe \o lines ELSE pipe

\* ask(), up to its await; a full queue refuses at once.
Ask(w) ==
  /\ write[w] = "new" /\ (\A v \in Writes : v < w => write[v] # "new")
  /\ Cardinality(Asked) < MaxAsked
  /\ IF Cardinality(Held) >= PendingMax
     THEN write' = [write EXCEPT ![w] = "denied"] /\ UNCHANGED pipe
     ELSE write' = [write EXCEPT ![w] = "held"] /\ Broadcast(<<Line("pending", w)>>)
  /\ UNCHANGED <<future, service, stream, daemon, call, notes, named, rare>>

\* The timer of wait_for cancels the future.  One that was answered in the same pass of the
\* event loop, before ask() could run on, is lost to the timer as well (Python 3.12).
TimerFires(w) ==
  /\ w \in Held /\ future[w] # "cancelled"
  /\ future' = [future EXCEPT ![w] = "cancelled"]
  /\ UNCHANGED <<write, service, link, daemon, call, notes, named, rare>>

Outcome(answer) ==
  CASE answer = "allow" -> "approved" [] answer = "deny" -> "denied" [] OTHER -> "timeout"

\* ask() runs on: it returns, after leaving the queue and saying so.
Answered(w) ==
  /\ w \in Held /\ future[w] # "none"
  /\ write' = [write EXCEPT ![w] = Outcome(future[w])]
  /\ Broadcast(<<Line("resolved", w)>>)
  /\ UNCHANGED <<future, service, stream, daemon, call, notes, named, rare>>

\* approvals.decide of the control socket: the first verdict counts, a later one is refused.
TakesLater(w) == w \in Held /\ future[w] # "cancelled"
Takes(w) == w \in Held /\ future[w] = "none"

ProxyDecides(c, w) ==
  /\ call[c][w].at \in {"sent", "stray"}
  /\ future' = IF Takes(w) THEN [future EXCEPT ![w] = call[c][w].verdict] ELSE future
  /\ At(c, w, IF call[c][w].at = "stray" THEN "lost" ELSE IF Takes(w) THEN "taken" ELSE "refused")
  /\ UNCHANGED <<write, service, link, daemon, notes, named, rare>>

\* The proxy stops: the cells' held requests break off, and what it knew is gone.
ProxyRestart ==
  /\ rare < MaxRare /\ rare' = rare + 1
  /\ write' = [w \in Writes |-> IF w \in Held THEN "lost" ELSE write[w]]
  /\ stream' = IF stream = "open" THEN "ending" ELSE stream
  /\ \E n \in 0..Len(pipe) : pipe' = SubSeq(pipe, 1, n)
  /\ UNCHANGED <<future, service, daemon, call, notes, named>>

-------------------------------------------------------------------------------
(* The stream: `anchi-cell approvals watch`, started again when it ends. *)

\* watch(): what is held first, then every later event.  An answered ask() runs on in the next
\* pass of the proxy's loop, before it serves a connection made after the reply came back.
NoBacklog == <<>>
Backlog == SetToSeq({Line("pending", w) : w \in Held})

Connect ==
  /\ stream = "down"
  /\ \A w \in Held, c \in Clients : call[c][w].at # "done"
  /\ stream' = "open" /\ pipe' = Backlog
  /\ UNCHANGED <<proxy, service, daemon, call, notes, named, rare>>

\* The relay, the virtual machine or the connection stops; lines under way may be lost.
StreamBreaks ==
  /\ stream = "open" /\ rare < MaxRare /\ rare' = rare + 1
  /\ stream' = "ending"
  /\ \E n \in 0..Len(pipe) : pipe' = SubSeq(pipe, 1, n)
  /\ UNCHANGED <<proxy, service, daemon, call, notes, named>>

\* onLine for `pending`: listed (and the task told that it waits, which is not kept here).
LinePending ==
  /\ pipe # <<>> /\ Head(pipe).type = "pending"
  /\ pipe' = Tail(pipe)
  /\ pending' = pending \cup {Head(pipe).id}
  /\ UNCHANGED <<proxy, service, stream, decided, policy, adding, call, notes, named, rare>>

\* onLine for `resolved`: no longer listed; without a verdict the task is told it expired.
LineResolved ==
  /\ pipe # <<>> /\ Head(pipe).type = "resolved"
  /\ LET w == Head(pipe).id IN
     /\ pending' = pending \ {w}
     /\ decided' = IF w \in pending THEN decided \ {w} ELSE decided
     /\ IF w \in pending /\ w \notin decided THEN Note(w, "expired") ELSE UNCHANGED notes
  /\ pipe' = Tail(pipe)
  /\ UNCHANGED <<proxy, service, stream, policy, adding, call, named, rare>>

\* The child closed: "Whatever was pending is gone with the stream".
StreamClosedKeeps ==
  /\ stream = "ending" /\ pipe = <<>>
  /\ stream' = "down"
  /\ UNCHANGED <<proxy, service, pipe, daemon, call, notes, named, rare>>

StreamClosed ==
  /\ stream = "ending" /\ pipe = <<>>
  /\ stream' = "down" /\ pending' = {}
  /\ UNCHANGED <<proxy, service, pipe, decided, policy, adding, call, notes, named, rare>>

-------------------------------------------------------------------------------
(* Grants of the policy service, listed because a cell named them. *)

\* authorize() leaves a pending grant; the connector answers APPROVAL_REQUIRED.
PolicyAsks(p) ==
  /\ grant[p] = "none" /\ Cardinality(Asked) < MaxAsked
  /\ grant' = [grant EXCEPT ![p] = "pending"]
  /\ UNCHANGED <<proxy, late, link, daemon, call, notes, named, rare>>

\* addPolicy() up to what policyShow answers: nothing more to do for a grant that is listed or
\* no longer pending.
AddPolicy(p) ==
  /\ grant[p] # "none" /\ named[p] < MaxNamed
  /\ named' = [named EXCEPT ![p] = @ + 1]
  /\ adding' = IF p \notin policy /\ grant[p] = "pending"
               THEN [adding EXCEPT ![p] = @ + 1] ELSE adding
  /\ UNCHANGED <<proxy, service, link, pending, decided, policy, call, notes, rare>>

\* The rest of addPolicy(): listed as it was shown.
PolicyListed(p) ==
  /\ adding[p] > 0
  /\ adding' = [adding EXCEPT ![p] = @ - 1]
  /\ policy' = policy \cup {p}
  /\ UNCHANGED <<proxy, service, link, pending, decided, call, notes, named, rare>>

\* Ten minutes pass; a pending grant can no longer be decided.
GrantLapses(p) ==
  /\ grant[p] # "none" /\ p \notin late
  /\ late' = late \cup {p}
  /\ UNCHANGED <<proxy, grant, link, daemon, call, notes, named, rare>>

\* The timer of a listed grant: dropPolicy(id, false).
PolicyTimer(p) ==
  /\ p \in policy /\ p \in late
  /\ policy' = policy \ {p}
  /\ Note(p, "expired")
  /\ UNCHANGED <<proxy, service, link, pending, decided, adding, call, named, rare>>

\* decide() of policy.py: only a pending grant is approved; a verdict of "deny" also takes an
\* approval back.
Decidable(p, verdict) ==
  /\ p \notin late
  /\ grant[p] \in (IF verdict = "allow" THEN {"pending"} ELSE {"pending", "approved"})

PolicyDecides(c, p) ==
  /\ call[c][p].at \in {"sent", "stray"}
  /\ grant' = IF Decidable(p, call[c][p].verdict)
              THEN [grant EXCEPT ![p] = Outcome(call[c][p].verdict)] ELSE grant
  /\ At(c, p, IF call[c][p].at = "stray" THEN "lost"
              ELSE IF Decidable(p, call[c][p].verdict) THEN "taken" ELSE "refused")
  /\ UNCHANGED <<proxy, late, link, daemon, notes, named, rare>>

-------------------------------------------------------------------------------
(* The daemon's decide(). *)

Listed == pending \cup policy

\* Up to the await of the command; a proxy write is marked as decided before it.
Decide(c, a, verdict) ==
  /\ a \in Listed /\ call[c][a].at = "no"
  /\ Cardinality({s \in Clients \X Approvals : call[s[1]][s[2]].at # "no"}) < MaxVerdicts
  /\ call' = [call EXCEPT ![c][a] = [verdict |-> verdict, at |-> "sent"]]
  /\ decided' = IF a \in Writes THEN decided \cup {a} ELSE decided
  /\ UNCHANGED <<proxy, service, link, pending, policy, adding, notes, named, rare>>

\* Failure: "The proxy refused the write on its own first: nobody decided it."
ExpiresNow(a) == a \in Writes /\ a \notin decided /\ a \notin pending

FailureNoted(a) ==
  /\ decided' = decided \ {a}
  /\ IF ExpiresNow(a) THEN Note(a, "expired") ELSE UNCHANGED notes

\* The command fails on its way there or back: a code other than 0, whatever the proxy did.
CommandFails(c, a) ==
  /\ call[c][a].at \in {"sent", "taken"} /\ rare < MaxRare /\ rare' = rare + 1
  /\ At(c, a, "unsure")
  /\ UNCHANGED <<proxy, service, link, daemon, notes, named>>

\* It is killed after two minutes, which is a failure; what it asks for may still arrive.
CommandTimesOut(c, a) ==
  /\ call[c][a].at = "sent" /\ rare < MaxRare /\ rare' = rare + 1
  /\ At(c, a, "stray")
  /\ FailureNoted(a)
  /\ UNCHANGED <<proxy, service, link, pending, policy, adding, named>>

\* It cannot even be started: exec() rejects, and decide() goes no further.
CommandNotStarted(c, a) ==
  /\ call[c][a].at = "sent" /\ rare < MaxRare /\ rare' = rare + 1
  /\ At(c, a, "lost")
  /\ UNCHANGED <<proxy, service, link, daemon, notes, named>>

\* One that was given up never arrives.
StrayLost(c, a) ==
  /\ call[c][a].at = "stray"
  /\ At(c, a, "lost")
  /\ UNCHANGED <<proxy, service, link, daemon, notes, named, rare>>

\* Success: the RPC handler notes the verdict; a policy entry is dropped.
DecideReturns(c, a) ==
  /\ call[c][a].at = "taken"
  /\ At(c, a, "done")
  /\ policy' = policy \ {a}
  /\ Note(a, Outcome(call[c][a].verdict))
  /\ UNCHANGED <<proxy, service, link, pending, decided, adding, named, rare>>

DecideFails(c, a) ==
  /\ call[c][a].at \in {"refused", "unsure"}
  /\ At(c, a, IF call[c][a].at = "refused" THEN "failed" ELSE "lost")
  /\ FailureNoted(a)
  /\ UNCHANGED <<proxy, service, link, pending, policy, adding, named, rare>>

\* The daemon stops: its lists are only in memory, its commands go on without it.
DaemonRestart ==
  /\ rare < MaxRare /\ rare' = rare + 1
  /\ pending' = {} /\ decided' = {} /\ policy' = {}
  /\ adding' = [p \in Policies |-> 0]
  /\ call' = [c \in Clients |-> [a \in Approvals |->
                [call[c][a] EXCEPT !.at = IF @ = "sent" THEN "stray"
                                          ELSE IF @ \in UnderWay THEN "lost" ELSE @]]]
  /\ stream' = "down" /\ pipe' = <<>>
  /\ UNCHANGED <<proxy, service, notes, named>>

-------------------------------------------------------------------------------
CommandGoesOn(c, a) ==
  \/ a \in Writes /\ ProxyDecides(c, a)
  \/ a \in Policies /\ PolicyDecides(c, a)
  \/ DecideReturns(c, a)
  \/ DecideFails(c, a)

StreamGoesOn == Connect \/ LinePending \/ LineResolved \/ StreamClosed

Next ==
  \/ \E w \in Writes : Ask(w) \/ TimerFires(w) \/ Answered(w)
  \/ \E p \in Policies :
       PolicyAsks(p) \/ AddPolicy(p) \/ PolicyListed(p) \/ GrantLapses(p) \/ PolicyTimer(p)
  \/ \E c \in Clients, a \in Approvals, v \in Verdicts : Decide(c, a, v)
  \/ \E c \in Clients, a \in Approvals :
       \/ CommandGoesOn(c, a) \/ StrayLost(c, a)
       \/ CommandFails(c, a) \/ CommandTimesOut(c, a) \/ CommandNotStarted(c, a)
  \/ StreamGoesOn
  \/ StreamBreaks
  \/ ProxyRestart
  \/ DaemonRestart

Spec == Init /\ [][Next]_vars

\* Timers fire, the event loops run on, commands come back, and the watcher reconnects and
\* reads.  Nobody has to decide, and nothing has to go wrong.
FairSpec ==
  /\ Spec
  /\ \A w \in Writes : WF_vars(TimerFires(w)) /\ WF_vars(Answered(w))
  /\ \A p \in Policies : WF_vars(GrantLapses(p)) /\ WF_vars(PolicyTimer(p))
  /\ WF_vars(StreamGoesOn)

-------------------------------------------------------------------------------
(* Properties. *)

\* Every variable keeps its shape; only what is held has an open future, and only writes that
\* a verdict is or was under way for are marked as decided.
TypeOK ==
  /\ write \in [Writes -> {"new", "held", "approved", "denied", "timeout", "lost"}]
  /\ future \in [Writes -> {"none", "allow", "deny", "cancelled"}]
  /\ grant \in [Policies -> {"none", "pending", "approved", "denied"}]
  /\ late \subseteq Policies
  /\ stream \in {"down", "open", "ending"}
  /\ pipe \in Seq([type : {"pending", "resolved"}, id : Writes])
  /\ pending \subseteq Writes /\ decided \subseteq Writes /\ policy \subseteq Policies
  /\ named \in [Policies -> 0..MaxNamed]
  /\ adding \in [Policies -> 0..MaxNamed] /\ \A p \in Policies : adding[p] <= named[p]
  /\ call \in [Clients -> [Approvals ->
       [verdict : Verdicts,
        at : UnderWay \cup {"no", "stray", "done", "failed", "lost"}]]]
  /\ notes \in [Approvals -> SUBSET {"approved", "denied", "expired"}]
  /\ rare \in 0..MaxRare
  /\ Cardinality(Held) <= PendingMax
  /\ stream = "down" => pipe = <<>> /\ pending = {}
  /\ \A w \in decided : \E c \in Clients : call[c][w].at # "no"

\* Watching, the daemon's list is the proxy's queue but for the lines it has yet to read:
\* every held write can be answered, and no entry stays for a write that is over.
LinesOf(w) == {i \in DOMAIN pipe : pipe[i].id = w}

WillBeListed(w) ==
  IF LinesOf(w) = {} THEN w \in pending
  ELSE \E i \in LinesOf(w) : pipe[i].type = "pending" /\ \A j \in LinesOf(w) : j <= i

MirrorFollows == stream = "open" => \A w \in Writes : w \in Held <=> WillBeListed(w)

\* Whether several clients sent a verdict, and whether one never heard what became of it.
Deciders(a) == {c \in Clients : call[c][a].at # "no"}
Contended(a) == \E c, d \in Deciders(a) : c # d
Unheard(a)  == \E c \in Deciders(a) : call[c][a].at \in {"unsure", "stray", "lost"}

\* What the transcript says of a write is what became of it.  A verdict it notes was the one
\* that counted, unless the timer took it back; with one verdict, whose reply came back, a
\* write noted as expired was not decided by anyone.  (A deny takes a grant's approval back.)
NotesTellOutcome ==
  /\ \A w \in Writes :
       /\ "approved" \in notes[w] => write[w] \in {"held", "approved", "timeout", "lost"}
       /\ "denied" \in notes[w] => write[w] \in {"held", "denied", "timeout", "lost"}
       /\ ~({"approved", "denied"} \subseteq notes[w])
       /\ "expired" \in notes[w] /\ ~Contended(w) /\ ~Unheard(w) => write[w] = "timeout"
  /\ \A p \in Policies :
       /\ "approved" \in notes[p] => grant[p] \in {"approved", "denied"}
       /\ "denied" \in notes[p] => grant[p] = "denied"

\* Whatever the daemon lists goes from its list again, by a verdict, by a timer or with the stream.
ListingEnds == \A a \in Approvals : (a \in Listed) ~> (a \notin Listed)
===============================================================================
