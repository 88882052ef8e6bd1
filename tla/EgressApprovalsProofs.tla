-------------------------- MODULE EgressApprovalsProofs --------------------------
(* Theorems about EgressApprovals, for any writes, grants, clients and bounds. *)
EXTENDS EgressApprovals, FiniteSetTheorems, TLAPS

(***************************************************************************)
(* The inductive invariant.                                                *)
(***************************************************************************)

\* The parts of TypeOK.
ProxyTyped ==
  /\ write \in [Writes -> {"new", "held", "approved", "denied", "timeout", "lost"}]
  /\ future \in [Writes -> {"none", "allow", "deny", "cancelled"}]
  /\ grant \in [Policies -> {"none", "pending", "approved", "denied"}]
  /\ late \subseteq Policies
  /\ stream \in {"down", "open", "ending"}
  /\ pipe \in Seq([type : {"pending", "resolved"}, id : Writes])
  /\ Cardinality(Held) <= PendingMax
  /\ rare \in 0..MaxRare

DaemonTyped ==
  /\ pending \subseteq Writes /\ decided \subseteq Writes /\ policy \subseteq Policies
  /\ named \in [Policies -> 0..MaxNamed]
  /\ adding \in [Policies -> 0..MaxNamed] /\ \A p \in Policies : adding[p] <= named[p]
  /\ call \in [Clients -> [Approvals ->
       [verdict : Verdicts,
        at : UnderWay \cup {"no", "stray", "done", "failed", "lost"}]]]
  /\ notes \in [Approvals -> SUBSET {"approved", "denied", "expired"}]
  /\ stream = "down" => pipe = <<>> /\ pending = {}
  /\ \A w \in decided : \E c \in Clients : call[c][w].at # "no"

\* How the proxy ended a request agrees with the future it awaited; of a full queue there is none.
Ended ==
  \A w \in Writes :
    /\ write[w] = "new" => future[w] = "none"
    /\ write[w] = "approved" => future[w] = "allow"
    /\ write[w] = "denied" => future[w] \in {"deny", "none"}
    /\ write[w] = "timeout" => future[w] = "cancelled"

\* ask() was answered and returned.
Settled(w) == write[w] \in {"approved", "denied", "timeout"} /\ future[w] # "none"

\* The lines of a write tell that it is held, then that it is not.
Told ==
  /\ \A i \in DOMAIN pipe : pipe[i].type = "resolved" => Settled(pipe[i].id)
  /\ \A i, j \in DOMAIN pipe : pipe[i].type = "resolved" /\ i < j => pipe[j] # Line("pending", pipe[i].id)

\* The verdict that counted was the first, and it still counts unless the timer fired.
Took(c, a) == call[c][a].at \in {"taken", "done"}

Counted ==
  \A w \in Writes :
    /\ future[w] \in {"allow", "deny"} => \E c \in Clients : call[c][w].at \in {"taken", "done", "unsure", "lost"}
    /\ \A c \in Clients : Took(c, w) => /\ future[w] \in {call[c][w].verdict, "cancelled"}
                                        /\ \A d \in Clients : Took(d, w) => d = c

\* A write whose only verdict has not come back is marked as decided, until it is over and off
\* the list for good.  One whose verdict came back is not listed again.
Ahead(w) == \E i \in DOMAIN pipe : pipe[i] = Line("pending", w)

Marked ==
  \A w \in Writes, c \in Clients :
    (/\ call[c][w].at \in UnderWay \cup {"done"} /\ ~Contended(w) /\ w \notin decided) =>
      /\ w \notin pending /\ ~Ahead(w)
      /\ call[c][w].at # "done" => Settled(w)

\* A noted verdict is that of a call that came back.
Noted ==
  \A w \in Writes :
    /\ "approved" \in notes[w] => \E c \in Clients : call[c][w] = [verdict |-> "allow", at |-> "done"]
    /\ "denied" \in notes[w] => \E c \in Clients : call[c][w] = [verdict |-> "deny", at |-> "done"]

Expired ==
  \A w \in Writes : "expired" \in notes[w] /\ ~Contended(w) /\ ~Unheard(w) => write[w] = "timeout"

\* Approving a grant and denying it leave their mark on it.
Stands(p, text) == grant[p] \in (IF text = "approved" THEN {"approved", "denied"} ELSE {"denied"})

Granted ==
  \A p \in Policies :
    /\ \A c \in Clients : Took(c, p) => Stands(p, Outcome(call[c][p].verdict))
    /\ \A text \in notes[p] \ {"expired"} : Stands(p, text)

Inv ==
  /\ ProxyTyped /\ DaemonTyped /\ Ended /\ Told /\ MirrorFollows /\ Counted /\ Marked
  /\ Noted /\ Expired /\ Granted

(***************************************************************************)
(* The lines of the stream.                                                *)
(***************************************************************************)

Lines == [type : {"pending", "resolved"}, id : Writes]

\* A line that is sent comes after those under way, if anyone reads.
LEMMA BroadcastIs ==
  ASSUME pipe \in Seq(Lines), NEW t \in {"pending", "resolved"}, NEW w \in Writes, Broadcast(<<Line(t, w)>>)
  PROVE  /\ pipe' \in Seq(Lines)
         /\ stream # "open" => pipe' = pipe
         /\ stream = "open" => /\ Len(pipe') = Len(pipe) + 1 /\ pipe'[Len(pipe) + 1] = Line(t, w)
                               /\ \A i \in 1..Len(pipe) : pipe'[i] = pipe[i]
<1>1. Line(t, w) \in Lines /\ <<Line(t, w)>> \in Seq(Lines) /\ Len(<<Line(t, w)>>) = 1
  BY DEF Line, Lines
<1>2. CASE stream = "open"
  <2>1. pipe' = pipe \o <<Line(t, w)>>
    BY <1>2 DEF Broadcast
  <2> QED
    BY <1>1, <1>2, <2>1
<1> QED
  BY <1>2 DEF Broadcast

\* The line that is read goes.
LEMMA TailIs ==
  ASSUME pipe \in Seq(Lines), pipe # <<>>, pipe' = Tail(pipe)
  PROVE  /\ pipe' \in Seq(Lines) /\ Len(pipe') = Len(pipe) - 1 /\ Head(pipe) = pipe[1] /\ pipe[1] \in Lines
         /\ \A i \in 1..Len(pipe') : pipe'[i] = pipe[i + 1]
OBVIOUS

\* Lines are lost from the end.
LEMMA PrefixIs ==
  ASSUME pipe \in Seq(Lines), NEW n \in 0..Len(pipe), pipe' = SubSeq(pipe, 1, n)
  PROVE  /\ pipe' \in Seq(Lines) /\ Len(pipe') = n
         /\ \A i \in 1..n : pipe'[i] = pipe[i]
<1>1. n \in Nat /\ n <= Len(pipe)
  OBVIOUS
<1> QED
  BY <1>1

\* A new reader is told what is held, each request once.
LEMMA BacklogIs ==
  /\ Backlog \in Seq(Lines)
  /\ \A i \in DOMAIN Backlog : \E w \in Held : Backlog[i] = Line("pending", w)
  /\ \A w \in Held : \E i \in DOMAIN Backlog : Backlog[i] = Line("pending", w)
  /\ \A i, j \in DOMAIN Backlog : Backlog[i] = Backlog[j] => i = j
<1> DEFINE S == {Line("pending", w) : w \in Held}
           n == Cardinality(S)
           f == Backlog
<1>1. IsFiniteSet(Held)
  BY ApprovalsAssumption, FS_Subset DEF Held
<1>2. IsFiniteSet(S)
  <2>1. [w \in Held |-> Line("pending", w)] \in Surjection(Held, S)
    BY DEF Surjection
  <2> QED
    BY <1>1, <2>1, FS_Surjection
<1>3. n \in Nat /\ \E g \in [1..n -> S] : IsInjective(g)
  <2>1. n \in Nat /\ ExistsBijection(1..n, S)
    BY <1>2, FS_CardinalityType
  <2> QED
    BY <2>1 DEF ExistsBijection, Bijection, Injection
<1>4. f \in [1..n -> S] /\ IsInjective(f)
  BY <1>3 DEF Backlog, SetToSeq
<1>5. Cardinality(1..n) = n
  BY <1>3, FS_Interval
<1>6. f \in Surjection(1..n, S)
  BY <1>2, <1>4, <1>5, FS_Injection DEF Injection
<1>7. S \subseteq Lines
  BY DEF Held, Line, Lines
<1>8. DOMAIN f = 1..n /\ \A s \in S : \E i \in 1..n : f[i] = s
  BY <1>4, <1>6 DEF Surjection
<1>9. f \in Seq(Lines)
  <2> HIDE DEF f, n
  <2>1. f \in [1..n -> Lines]
    BY <1>4, <1>7
  <2> QED
    BY <1>3, <2>1
<1>10. \A i, j \in DOMAIN f : f[i] = f[j] => i = j
  BY <1>4 DEF IsInjective
<1>11. \A i \in DOMAIN f : \E w \in Held : f[i] = Line("pending", w)
  <2> HIDE DEF f, n
  <2> QED
    BY <1>4
<1>12. \A w \in Held : \E i \in DOMAIN f : f[i] = Line("pending", w)
  <2> HIDE DEF f, n
  <2>1. \A w \in Held : Line("pending", w) \in S
    OBVIOUS
  <2> HIDE DEF S
  <2> QED
    BY <1>8, <2>1
<1> QED
  BY <1>9, <1>10, <1>11, <1>12

(***************************************************************************)
(* What a step does to the calls, to the requests and to the notes.        *)
(***************************************************************************)

\* A step of a call is a step of that call alone.
LEMMA AtIs ==
  ASSUME DaemonTyped, NEW c \in Clients, NEW a \in Approvals,
         NEW step \in UnderWay \cup {"no", "stray", "done", "failed", "lost"}, At(c, a, step)
  PROVE  /\ call' \in [Clients -> [Approvals ->
              [verdict : Verdicts, at : UnderWay \cup {"no", "stray", "done", "failed", "lost"}]]]
         /\ call'[c][a] = [verdict |-> call[c][a].verdict, at |-> step]
         /\ \A d \in Clients, b \in Approvals : d # c \/ b # a => call'[d][b] = call[d][b]
<1> DEFINE Calls == [verdict : Verdicts, at : UnderWay \cup {"no", "stray", "done", "failed", "lost"}]
<1>1. call \in [Clients -> [Approvals -> Calls]]
  BY DEF DaemonTyped
<1>2. call[c][a] \in Calls /\ call[c][a] = [verdict |-> call[c][a].verdict, at |-> call[c][a].at]
  BY <1>1
<1>3. call' = [call EXCEPT ![c] = [call[c] EXCEPT ![a] = [call[c][a] EXCEPT !.at = step]]]
  BY <1>1 DEF At
<1>4. [call[c][a] EXCEPT !.at = step] = [verdict |-> call[c][a].verdict, at |-> step]
  BY <1>2
<1>5. [verdict |-> call[c][a].verdict, at |-> step] \in Calls
  BY <1>2
<1> HIDE DEF Calls
<1> QED
  BY <1>1, <1>3, <1>4, <1>5 DEF Calls

\* A note is added to what is said of one write.
LEMMA NoteIs ==
  ASSUME DaemonTyped, NEW a \in Approvals, NEW text \in {"approved", "denied", "expired"}, Note(a, text)
  PROVE  /\ notes' \in [Approvals -> SUBSET {"approved", "denied", "expired"}]
         /\ notes'[a] = notes[a] \cup {text}
         /\ \A b \in Approvals : b # a => notes'[b] = notes[b]
BY DEF DaemonTyped, Note

\* The steps that take a call further, and to where.
CallStep(c, a) ==
  \/ \E v \in Verdicts : Decide(c, a, v)
  \/ CommandGoesOn(c, a) \/ StrayLost(c, a)
  \/ CommandFails(c, a) \/ CommandTimesOut(c, a) \/ CommandNotStarted(c, a)

\* Whose step it is: the proxy's, the policy service's, a client's, the stream's, or a stop.
ProxyStep  == \E w \in Writes : Ask(w) \/ TimerFires(w) \/ Answered(w)
PolicyStep ==
  \E p \in Policies : PolicyAsks(p) \/ AddPolicy(p) \/ PolicyListed(p) \/ GrantLapses(p) \/ PolicyTimer(p)
CommandStep ==
  \/ \E c \in Clients, a \in Approvals, v \in Verdicts : Decide(c, a, v)
  \/ \E c \in Clients, a \in Approvals :
       \/ CommandGoesOn(c, a) \/ StrayLost(c, a)
       \/ CommandFails(c, a) \/ CommandTimesOut(c, a) \/ CommandNotStarted(c, a)
StreamStep == StreamGoesOn \/ StreamBreaks
StopStep   == ProxyRestart \/ DaemonRestart

\* Every step is one of these.
LEMMA NextIs ==
  ASSUME Next
  PROVE  ProxyStep \/ PolicyStep \/ CommandStep \/ StreamStep \/ StopStep
BY Zenon DEF Next, ProxyStep, PolicyStep, CommandStep, StreamStep, StopStep

\* Which steps take a call of a client further.
LEMMA StepsOfCalls ==
  ASSUME Next
  PROVE  \/ \E c \in Clients, a \in Approvals : CallStep(c, a)
         \/ DaemonRestart
         \/ call' = call
<1>1. CASE ProxyStep
  BY <1>1 DEF ProxyStep, Ask, TimerFires, Answered
<1>2. CASE PolicyStep
  BY <1>2 DEF PolicyStep, PolicyAsks, AddPolicy, PolicyListed, GrantLapses, PolicyTimer
<1>3. CASE CommandStep
  BY <1>3, Zenon DEF CommandStep, CallStep
<1>4. CASE StreamStep
  BY <1>4 DEF StreamStep, StreamGoesOn, Connect, LinePending, LineResolved, StreamClosed, StreamBreaks
<1>5. CASE StopStep
  BY <1>5 DEF StopStep, ProxyRestart
<1> QED
  BY <1>1, <1>2, <1>3, <1>4, <1>5, NextIs

\* Where a step may take a call.
Onward(from) ==
  CASE from = "no" -> {"no", "sent"}
    [] from = "sent" -> {"sent", "taken", "refused", "unsure", "stray", "lost"}
    [] from = "taken" -> {"taken", "unsure", "done", "lost"}
    [] from = "refused" -> {"refused", "failed", "lost"}
    [] from = "unsure" -> {"unsure", "lost"}
    [] from = "stray" -> {"stray", "lost"}
    [] from = "done" -> {"done"}
    [] from = "failed" -> {"failed"}
    [] OTHER -> {"lost"}

\* A call goes on as its step lets it, and keeps the verdict it asked for.
LEMMA CallsGoOn ==
  ASSUME DaemonTyped, Next
  PROVE  /\ call' \in [Clients -> [Approvals ->
              [verdict : Verdicts, at : UnderWay \cup {"no", "stray", "done", "failed", "lost"}]]]
         /\ \A c \in Clients, a \in Approvals :
              /\ call'[c][a].at \in Onward(call[c][a].at)
              /\ call[c][a].at # "no" => call'[c][a].verdict = call[c][a].verdict
<1> DEFINE Calls == [verdict : Verdicts, at : UnderWay \cup {"no", "stray", "done", "failed", "lost"}]
<1>1. call \in [Clients -> [Approvals -> Calls]]
  BY DEF DaemonTyped
<1>2. \A c \in Clients, a \in Approvals : call[c][a] \in Calls /\ call[c][a].at \in Onward(call[c][a].at)
  BY <1>1 DEF Onward, UnderWay
<1>3. ASSUME NEW c \in Clients, NEW a \in Approvals, CallStep(c, a)
      PROVE  /\ call' \in [Clients -> [Approvals -> Calls]]
             /\ call'[c][a].at \in Onward(call[c][a].at)
             /\ call[c][a].at # "no" => call'[c][a].verdict = call[c][a].verdict
             /\ \A d \in Clients, b \in Approvals : d # c \/ b # a => call'[d][b] = call[d][b]
  <2>1. CASE \E v \in Verdicts : Decide(c, a, v)
    <3>1. PICK v \in Verdicts : Decide(c, a, v)
      BY <2>1
    <3>2. call' = [call EXCEPT ![c] = [call[c] EXCEPT ![a] = [verdict |-> v, at |-> "sent"]]] /\ call[c][a].at = "no"
      BY <3>1, <1>1 DEF Decide
    <3>3. [verdict |-> v, at |-> "sent"] \in Calls
      BY DEF UnderWay
    <3> HIDE DEF Calls
    <3> QED
      BY <1>1, <3>2, <3>3 DEF Onward
  <2>2. CASE ~\E v \in Verdicts : Decide(c, a, v)
    <3>1. \E step \in UnderWay \cup {"no", "stray", "done", "failed", "lost"} :
             At(c, a, step) /\ step \in Onward(call[c][a].at)
      BY <2>2, <1>3 DEF CallStep, CommandGoesOn, ProxyDecides, PolicyDecides, DecideReturns, DecideFails, StrayLost,
                        CommandFails, CommandTimesOut, CommandNotStarted, Onward, UnderWay
    <3>2. PICK step \in UnderWay \cup {"no", "stray", "done", "failed", "lost"} :
             At(c, a, step) /\ step \in Onward(call[c][a].at)
      BY <3>1
    <3>3. /\ call' \in [Clients -> [Approvals -> Calls]]
          /\ call'[c][a] = [verdict |-> call[c][a].verdict, at |-> step]
          /\ \A d \in Clients, b \in Approvals : d # c \/ b # a => call'[d][b] = call[d][b]
      BY <3>2, AtIs
    <3> HIDE DEF Calls
    <3> QED
      BY <3>2, <3>3
  <2> QED
    BY <2>1, <2>2
<1>4. CASE DaemonRestart
  <2>1. call' = [c \in Clients |-> [a \in Approvals |->
                   [call[c][a] EXCEPT !.at = IF @ = "sent" THEN "stray" ELSE IF @ \in UnderWay THEN "lost" ELSE @]]]
    BY <1>4 DEF DaemonRestart
  <2>2. ASSUME NEW c \in Clients, NEW a \in Approvals
        PROVE  /\ call'[c][a] \in Calls /\ call'[c][a].verdict = call[c][a].verdict
               /\ call'[c][a].at \in Onward(call[c][a].at)
    <3> DEFINE was == call[c][a].at
               is  == IF was = "sent" THEN "stray" ELSE IF was \in UnderWay THEN "lost" ELSE was
    <3>1. call[c][a] \in Calls
      BY <1>2
    <3>2. call'[c][a] = [call[c][a] EXCEPT !.at = is]
      BY <2>1
    <3>3. was \in UnderWay \cup {"no", "stray", "done", "failed", "lost"}
      BY <3>1
    <3>4. is \in UnderWay \cup {"no", "stray", "done", "failed", "lost"} /\ is \in Onward(was)
      <4> HIDE DEF was
      <4> QED
        BY <3>3 DEF Onward, UnderWay
    <3> HIDE DEF is
    <3>5. call'[c][a] \in Calls /\ call'[c][a].verdict = call[c][a].verdict /\ call'[c][a].at = is
      BY <3>1, <3>2, <3>4
    <3> QED
      BY <3>4, <3>5
  <2>3. call' \in [Clients -> [Approvals -> Calls]]
    <3> HIDE DEF Calls
    <3>1. \A c \in Clients : call'[c] = [a \in Approvals |-> call'[c][a]]
      BY <2>1
    <3>2. DOMAIN call' = Clients /\ call' = [c \in Clients |-> call'[c]]
      BY <2>1
    <3>3. \A c \in Clients : call'[c] \in [Approvals -> Calls]
      BY <3>1, <2>2
    <3> QED
      BY <3>2, <3>3
  <2> QED
    BY <2>2, <2>3
<1>5. CASE call' = call
  BY <1>5, <1>1, <1>2
<1>6. CASE \E c \in Clients, a \in Approvals : CallStep(c, a)
  <2>1. PICK c \in Clients, a \in Approvals : CallStep(c, a)
    BY <1>6
  <2>2. /\ call' \in [Clients -> [Approvals -> Calls]]
        /\ call'[c][a].at \in Onward(call[c][a].at)
        /\ call[c][a].at # "no" => call'[c][a].verdict = call[c][a].verdict
        /\ \A d \in Clients, b \in Approvals : d # c \/ b # a => call'[d][b] = call[d][b]
    BY <2>1, <1>3
  <2> HIDE DEF Calls
  <2>3. ASSUME NEW d \in Clients, NEW b \in Approvals
        PROVE  /\ call'[d][b].at \in Onward(call[d][b].at)
               /\ call[d][b].at # "no" => call'[d][b].verdict = call[d][b].verdict
    BY <2>2, <1>2
  <2> QED
    BY <2>2, <2>3 DEF Calls
<1> QED
  BY <1>4, <1>5, <1>6, StepsOfCalls

\* What the commands of decide() leave alone, and who changes the rest.
LEMMA CommandFrame ==
  ASSUME CommandStep
  PROVE  /\ UNCHANGED <<write, late, link, pending, adding, named>>
         /\ rare' = rare \/ (rare < MaxRare /\ rare' = rare + 1)
         /\ policy' \subseteq policy
         /\ \/ future' = future
            \/ \E c \in Clients, w \in Writes : ProxyDecides(c, w)
         /\ \/ grant' = grant
            \/ \E c \in Clients, p \in Policies : PolicyDecides(c, p)
         /\ \/ decided' = decided
            \/ \E c \in Clients, a \in Writes, v \in Verdicts : Decide(c, a, v) /\ decided' = decided \cup {a}
            \/ \E c \in Clients, a \in Approvals :
                 (CommandTimesOut(c, a) \/ DecideFails(c, a)) /\ decided' = decided \ {a}
<1>1. ASSUME NEW c \in Clients, NEW a \in Approvals, NEW v \in Verdicts, Decide(c, a, v)
      PROVE  /\ UNCHANGED <<proxy, service, link, pending, policy, adding, named, rare>>
             /\ a \in Writes => decided' = decided \cup {a}
             /\ a \notin Writes => decided' = decided
  BY <1>1 DEF Decide
<1>2. ASSUME NEW c \in Clients, NEW a \in Writes, ProxyDecides(c, a)
      PROVE  UNCHANGED <<write, service, link, daemon, named, rare>>
  BY <1>2 DEF ProxyDecides
<1>3. ASSUME NEW c \in Clients, NEW a \in Policies, PolicyDecides(c, a)
      PROVE  UNCHANGED <<proxy, late, link, daemon, named, rare>>
  BY <1>3 DEF PolicyDecides
<1>4. ASSUME NEW c \in Clients, NEW a \in Approvals, DecideReturns(c, a)
      PROVE  UNCHANGED <<proxy, service, link, pending, decided, adding, named, rare>> /\ policy' \subseteq policy
  BY <1>4 DEF DecideReturns
<1>5. ASSUME NEW c \in Clients, NEW a \in Approvals, DecideFails(c, a)
      PROVE  /\ UNCHANGED <<proxy, service, link, pending, policy, adding, named, rare>>
             /\ decided' = decided \ {a}
  BY <1>5 DEF DecideFails, FailureNoted
<1>6. ASSUME NEW c \in Clients, NEW a \in Approvals, CommandTimesOut(c, a)
      PROVE  /\ UNCHANGED <<proxy, service, link, pending, policy, adding, named>>
             /\ rare < MaxRare /\ rare' = rare + 1 /\ decided' = decided \ {a}
  BY <1>6 DEF CommandTimesOut, FailureNoted
<1>7. ASSUME NEW c \in Clients, NEW a \in Approvals, CommandFails(c, a) \/ CommandNotStarted(c, a)
      PROVE  UNCHANGED <<proxy, service, link, daemon, named>> /\ rare < MaxRare /\ rare' = rare + 1
  BY <1>7 DEF CommandFails, CommandNotStarted
<1>8. ASSUME NEW c \in Clients, NEW a \in Approvals, StrayLost(c, a)
      PROVE  UNCHANGED <<proxy, service, link, daemon, named, rare>>
  BY <1>8 DEF StrayLost
<1> QED
  <2> USE DEF proxy, service, link, daemon
  <2>1. CASE \E c \in Clients, a \in Approvals, v \in Verdicts : Decide(c, a, v)
    <3>1. PICK c \in Clients, a \in Approvals, v \in Verdicts : Decide(c, a, v)
      BY <2>1
    <3> QED
      BY <3>1, <1>1
  <2>2. CASE \E c \in Clients, a \in Approvals :
               \/ CommandGoesOn(c, a) \/ StrayLost(c, a)
               \/ CommandFails(c, a) \/ CommandTimesOut(c, a) \/ CommandNotStarted(c, a)
    <3>1. PICK c \in Clients, a \in Approvals :
            \/ CommandGoesOn(c, a) \/ StrayLost(c, a)
            \/ CommandFails(c, a) \/ CommandTimesOut(c, a) \/ CommandNotStarted(c, a)
      BY <2>2
    <3>2. CASE a \in Writes /\ ProxyDecides(c, a)
      BY <3>2, <1>2
    <3>3. CASE a \in Policies /\ PolicyDecides(c, a)
      BY <3>3, <1>3
    <3>4. CASE DecideReturns(c, a)
      BY <3>4, <1>4
    <3>5. CASE DecideFails(c, a)
      BY <3>5, <1>5
    <3>6. CASE CommandTimesOut(c, a)
      BY <3>6, <1>6
    <3>7. CASE CommandFails(c, a) \/ CommandNotStarted(c, a)
      BY <3>7, <1>7
    <3>8. CASE StrayLost(c, a)
      BY <3>8, <1>8
    <3> QED
      BY <3>1, <3>2, <3>3, <3>4, <3>5, <3>6, <3>7, <3>8 DEF CommandGoesOn
  <2> QED
    BY <2>1, <2>2 DEF CommandStep

\* The steps that change a request or its future.
LEMMA StepsOfRequests ==
  ASSUME Next
  PROVE  \/ \E w \in Writes : Ask(w) \/ TimerFires(w) \/ Answered(w)
         \/ \E c \in Clients, w \in Writes : ProxyDecides(c, w)
         \/ ProxyRestart
         \/ UNCHANGED proxy
<1>1. CASE ProxyStep
  BY <1>1 DEF ProxyStep, proxy
<1>2. CASE PolicyStep
  BY <1>2 DEF PolicyStep, PolicyAsks, AddPolicy, PolicyListed, GrantLapses, PolicyTimer, proxy
<1>3. CASE CommandStep
  BY <1>3, CommandFrame DEF proxy
<1>4. CASE StreamStep
  BY <1>4 DEF StreamStep, StreamGoesOn, Connect, LinePending, LineResolved, StreamClosed, StreamBreaks, proxy
<1>5. CASE StopStep
  BY <1>5 DEF StopStep, DaemonRestart, proxy
<1> QED
  BY <1>1, <1>2, <1>3, <1>4, <1>5, NextIs

\* A request that is over stays as it ended, and only a held one has its future changed.
LEMMA RequestsGoOn ==
  ASSUME ProxyTyped, DaemonTyped, Next
  PROVE  /\ write' \in [Writes -> {"new", "held", "approved", "denied", "timeout", "lost"}]
         /\ future' \in [Writes -> {"none", "allow", "deny", "cancelled"}]
         /\ \A w \in Writes :
              /\ write[w] \notin {"new", "held"} => write'[w] = write[w]
              /\ future'[w] # future[w] => write[w] = "held" /\ write'[w] = "held"
              /\ write'[w] = "held" => write[w] \in {"new", "held"}
              /\ write'[w] = "new" => write[w] = "new"
              /\ Settled(w) => Settled(w)'
<1> SUFFICES /\ write' \in [Writes -> {"new", "held", "approved", "denied", "timeout", "lost"}]
             /\ future' \in [Writes -> {"none", "allow", "deny", "cancelled"}]
             /\ \A w \in Writes :
                  /\ write[w] \notin {"new", "held"} => write'[w] = write[w]
                  /\ future'[w] # future[w] => write[w] = "held" /\ write'[w] = "held"
                  /\ write'[w] = "held" => write[w] \in {"new", "held"}
                  /\ write'[w] = "new" => write[w] = "new"
  BY DEF Settled
<1> USE DEF ProxyTyped, Held
<1>1. CASE \E w \in Writes : Ask(w) \/ TimerFires(w) \/ Answered(w)
  BY <1>1 DEF Ask, TimerFires, Answered, Outcome
<1>2. CASE \E c \in Clients, w \in Writes : ProxyDecides(c, w)
  <2>1. PICK c \in Clients, w \in Writes : ProxyDecides(c, w)
    BY <1>2
  <2>2. call[c][w].verdict \in {"allow", "deny"}
    BY DEF DaemonTyped, Approvals, Verdicts
  <2>3. \/ future' = future
        \/ write[w] = "held" /\ future' = [future EXCEPT ![w] = call[c][w].verdict]
    BY <2>1 DEF ProxyDecides, Takes
  <2>4. write' = write
    BY <2>1 DEF ProxyDecides
  <2> QED
    BY <2>2, <2>3, <2>4
<1>3. CASE ProxyRestart
  BY <1>3 DEF ProxyRestart
<1>4. CASE UNCHANGED proxy
  BY <1>4 DEF proxy
<1> QED
  BY <1>1, <1>2, <1>3, <1>4, StepsOfRequests

(***************************************************************************)
(* Types.                                                                  *)
(***************************************************************************)

\* The queue is never longer than the proxy's limit.
LEMMA HeldNext ==
  ASSUME Inv, Next
  PROVE  Cardinality(Held') <= PendingMax
<1>1. IsFiniteSet(Held) /\ IsFiniteSet(Held') /\ Held \subseteq Writes
  BY ApprovalsAssumption, FS_Subset DEF Held
<1>2. Cardinality(Held) \in Nat /\ Cardinality(Held') \in Nat /\ PendingMax \in Nat /\ Cardinality(Held) <= PendingMax
  BY <1>1, FS_CardinalityType, ApprovalsAssumption DEF Inv, ProxyTyped
<1>3. CASE Held' \subseteq Held
  BY <1>1, <1>2, <1>3, FS_Subset
<1>4. CASE \E w \in Writes : w \notin Held /\ Held' = Held \cup {w} /\ ~(Cardinality(Held) >= PendingMax)
  BY <1>1, <1>2, <1>4, FS_AddElement
<1>5. ASSUME NEW w \in Writes, Ask(w)
      PROVE  \/ Held' \subseteq Held
             \/ w \notin Held /\ Held' = Held \cup {w} /\ ~(Cardinality(Held) >= PendingMax)
  BY <1>5 DEF Ask, Held, Inv, ProxyTyped
<1>6. CASE ~\E w \in Writes : Ask(w)
  <2>1. \A w \in Writes : write'[w] = "held" => write[w] = "held"
    BY <1>6, StepsOfRequests DEF Inv, ProxyTyped, TimerFires, Answered, ProxyDecides, ProxyRestart, proxy, Held, Outcome
  <2> QED
    BY <1>3, <2>1 DEF Held
<1> QED
  BY <1>3, <1>4, <1>5, <1>6

\* What the stream may carry next.
LEMMA PipeNext ==
  ASSUME ProxyTyped, Next
  PROVE  \/ pipe' = pipe
         \/ \E w \in Writes : Ask(w) /\ ~(Cardinality(Held) >= PendingMax) /\ Broadcast(<<Line("pending", w)>>)
         \/ \E w \in Writes : Answered(w) /\ Broadcast(<<Line("resolved", w)>>)
         \/ (ProxyRestart \/ StreamBreaks) /\ \E n \in 0..Len(pipe) : pipe' = SubSeq(pipe, 1, n)
         \/ Connect
         \/ (LinePending \/ LineResolved) /\ pipe # <<>> /\ pipe' = Tail(pipe)
         \/ DaemonRestart /\ pipe' = <<>>
<1>1. CASE ProxyStep
  BY <1>1 DEF ProxyStep, Ask, TimerFires, Answered, link
<1>2. CASE PolicyStep
  BY <1>2 DEF PolicyStep, PolicyAsks, AddPolicy, PolicyListed, GrantLapses, PolicyTimer, link
<1>3. CASE CommandStep
  BY <1>3, CommandFrame DEF link
<1>4. CASE StreamStep
  BY <1>4 DEF StreamStep, StreamGoesOn, LinePending, LineResolved, StreamClosed, StreamBreaks, link
<1>5. CASE StopStep
  BY <1>5 DEF StopStep, ProxyRestart, DaemonRestart, link
<1> QED
  BY <1>1, <1>2, <1>3, <1>4, <1>5, NextIs

\* The stream of the approvals carries lines.
LEMMA PipeTyped ==
  ASSUME ProxyTyped, Next
  PROVE  pipe' \in Seq(Lines)
<1>1. pipe \in Seq(Lines)
  BY DEF ProxyTyped, Lines
<1>2. CASE Connect
  BY <1>2, BacklogIs DEF Connect
<1>3. CASE \E n \in 0..Len(pipe) : pipe' = SubSeq(pipe, 1, n)
  BY <1>1, <1>3, PrefixIs
<1>4. CASE \E w \in Writes : Broadcast(<<Line("pending", w)>>) \/ Broadcast(<<Line("resolved", w)>>)
  <2>1. PICK w \in Writes, t \in {"pending", "resolved"} : Broadcast(<<Line(t, w)>>)
    BY <1>4
  <2> QED
    BY <1>1, <2>1, BroadcastIs
<1>5. CASE pipe # <<>> /\ pipe' = Tail(pipe)
  BY <1>1, <1>5, TailIs
<1>6. CASE pipe' = <<>>
  BY <1>6
<1>7. \/ pipe' = pipe \/ pipe' = <<>> \/ Connect
      \/ \E w \in Writes : Broadcast(<<Line("pending", w)>>) \/ Broadcast(<<Line("resolved", w)>>)
      \/ \E n \in 0..Len(pipe) : pipe' = SubSeq(pipe, 1, n)
      \/ pipe # <<>> /\ pipe' = Tail(pipe)
  BY PipeNext, Zenon
<1>8. CASE pipe' = pipe
  BY <1>1, <1>8
<1> QED
  BY <1>2, <1>3, <1>4, <1>5, <1>6, <1>7, <1>8

\* Only asking for a grant and deciding it write to it.
LEMMA StepsOfGrants ==
  ASSUME Next
  PROVE  \/ grant' = grant
         \/ \E p \in Policies : PolicyAsks(p)
         \/ \E c \in Clients, p \in Policies : PolicyDecides(c, p)
<1>1. CASE ProxyStep
  BY <1>1 DEF ProxyStep, Ask, TimerFires, Answered, service
<1>2. CASE PolicyStep
  BY <1>2 DEF PolicyStep, AddPolicy, PolicyListed, GrantLapses, PolicyTimer, service
<1>3. CASE CommandStep
  BY <1>3, CommandFrame, Zenon
<1>4. CASE StreamStep
  BY <1>4 DEF StreamStep, StreamGoesOn, Connect, LinePending, LineResolved, StreamClosed, StreamBreaks,
      service
<1>5. CASE StopStep
  BY <1>5 DEF StopStep, ProxyRestart, DaemonRestart, service
<1> QED
  BY <1>1, <1>2, <1>3, <1>4, <1>5, NextIs

\* The parts of TypeOK about the proxy, the policy service and the stream go on.
LEMMA ProxyTypedNext ==
  ASSUME Inv, Next
  PROVE  ProxyTyped'
<1>1. /\ write' \in [Writes -> {"new", "held", "approved", "denied", "timeout", "lost"}]
      /\ future' \in [Writes -> {"none", "allow", "deny", "cancelled"}]
      /\ pipe' \in Seq(Lines) /\ Cardinality(Held') <= PendingMax
  BY RequestsGoOn, PipeTyped, HeldNext DEF Inv
<1>2. (rare' = rare) \/ (rare < MaxRare /\ rare' = rare + 1)
  <2>1. CASE ProxyStep
    BY <2>1 DEF ProxyStep, Ask, TimerFires, Answered
  <2>2. CASE PolicyStep
    BY <2>2 DEF PolicyStep, PolicyAsks, AddPolicy, PolicyListed, GrantLapses, PolicyTimer
  <2>3. CASE CommandStep
    BY <2>3, CommandFrame
  <2>4. CASE StreamStep
    BY <2>4 DEF StreamStep, StreamGoesOn, Connect, LinePending, LineResolved, StreamClosed, StreamBreaks
  <2>5. CASE StopStep
    BY <2>5 DEF StopStep, ProxyRestart, DaemonRestart
  <2> QED
    BY <2>1, <2>2, <2>3, <2>4, <2>5, NextIs
<1>3. rare' \in 0..MaxRare
  BY <1>2, ApprovalsAssumption DEF Inv, ProxyTyped
<1>4. stream' \in {stream, "down", "open", "ending"}
  <2>1. CASE ProxyStep
    BY <2>1 DEF ProxyStep, Ask, TimerFires, Answered, link
  <2>2. CASE PolicyStep
    BY <2>2 DEF PolicyStep, PolicyAsks, AddPolicy, PolicyListed, GrantLapses, PolicyTimer, link
  <2>3. CASE CommandStep
    BY <2>3, CommandFrame DEF link
  <2>4. CASE StreamStep
    BY <2>4 DEF StreamStep, StreamGoesOn, Connect, LinePending, LineResolved, StreamClosed, StreamBreaks, link
  <2>5. CASE StopStep
    BY <2>5 DEF StopStep, ProxyRestart, DaemonRestart, link
  <2> QED
    BY <2>1, <2>2, <2>3, <2>4, <2>5, NextIs
<1>5. late' \subseteq Policies
  <2>1. CASE ProxyStep
    BY <2>1 DEF ProxyStep, Ask, TimerFires, Answered, Inv, ProxyTyped, service
  <2>2. CASE PolicyStep
    BY <2>2 DEF PolicyStep, PolicyAsks, AddPolicy, PolicyListed, GrantLapses, PolicyTimer, Inv, ProxyTyped,
        service
  <2>3. CASE CommandStep
    BY <2>3, CommandFrame DEF Inv, ProxyTyped, service
  <2>4. CASE StreamStep
    BY <2>4 DEF StreamStep, StreamGoesOn, Connect, LinePending, LineResolved, StreamClosed, StreamBreaks, Inv,
        ProxyTyped, service
  <2>5. CASE StopStep
    BY <2>5 DEF StopStep, ProxyRestart, DaemonRestart, Inv, ProxyTyped, service
  <2> QED
    BY <2>1, <2>2, <2>3, <2>4, <2>5, NextIs
<1>6. grant' \in [Policies -> {"none", "pending", "approved", "denied"}]
  <2>1. \/ grant' = grant
        \/ \E p \in Policies : PolicyAsks(p)
        \/ \E c \in Clients, p \in Policies : PolicyDecides(c, p)
    BY StepsOfGrants, Zenon
  <2>2. CASE \E c \in Clients, p \in Policies : PolicyDecides(c, p)
    <3>1. PICK c \in Clients, p \in Policies : PolicyDecides(c, p)
      BY <2>2
    <3>2. Outcome(call[c][p].verdict) \in {"approved", "denied"}
      BY DEF Inv, DaemonTyped, Approvals, Verdicts, Outcome
    <3> QED
      BY <3>1, <3>2 DEF PolicyDecides, Inv, ProxyTyped
  <2> QED
    BY <2>1, <2>2 DEF PolicyAsks, Inv, ProxyTyped
<1> QED
  BY <1>1, <1>3, <1>4, <1>5, <1>6 DEF Inv, ProxyTyped, Lines

\* Who adds a note, and which.
LEMMA StepsOfNotes ==
  ASSUME Next
  PROVE  \/ notes' = notes
         \/ /\ LineResolved /\ Head(pipe).id \in pending /\ Head(pipe).id \notin decided
            /\ Note(Head(pipe).id, "expired")
         \/ \E p \in Policies : PolicyTimer(p) /\ Note(p, "expired")
         \/ \E c \in Clients, a \in Approvals :
              \/ DecideReturns(c, a) /\ Note(a, Outcome(call[c][a].verdict))
              \/ (CommandTimesOut(c, a) \/ DecideFails(c, a)) /\ ExpiresNow(a) /\ Note(a, "expired")
<1>1. \/ notes' = notes
      \/ LineResolved \/ \E p \in Policies : PolicyTimer(p)
      \/ \E c \in Clients, a \in Approvals : DecideReturns(c, a) \/ CommandTimesOut(c, a) \/ DecideFails(c, a)
  <2>1. CASE ProxyStep
    BY <2>1 DEF ProxyStep, Ask, TimerFires, Answered
  <2>2. CASE PolicyStep
    BY <2>2 DEF PolicyStep, PolicyAsks, AddPolicy, PolicyListed, GrantLapses
  <2>3. CASE CommandStep
    BY <2>3 DEF CommandStep, CommandGoesOn, ProxyDecides, PolicyDecides, Decide, StrayLost, CommandFails,
        CommandNotStarted
  <2>4. CASE StreamStep
    BY <2>4 DEF StreamStep, StreamGoesOn, Connect, LinePending, StreamClosed, StreamBreaks
  <2>5. CASE StopStep
    BY <2>5 DEF StopStep, ProxyRestart, DaemonRestart
  <2> QED
    BY <2>1, <2>2, <2>3, <2>4, <2>5, NextIs
<1>2. LineResolved => \/ notes' = notes
                      \/ /\ Head(pipe).id \in pending /\ Head(pipe).id \notin decided
                         /\ Note(Head(pipe).id, "expired")
  BY DEF LineResolved
<1>3. ASSUME NEW p \in Policies, PolicyTimer(p) PROVE Note(p, "expired")
  BY <1>3 DEF PolicyTimer
<1>4. ASSUME NEW c \in Clients, NEW a \in Approvals, DecideReturns(c, a) PROVE Note(a, Outcome(call[c][a].verdict))
  BY <1>4 DEF DecideReturns
<1>5. ASSUME NEW c \in Clients, NEW a \in Approvals, CommandTimesOut(c, a) \/ DecideFails(c, a)
      PROVE  notes' = notes \/ (ExpiresNow(a) /\ Note(a, "expired"))
  BY <1>5 DEF CommandTimesOut, DecideFails, FailureNoted
<1> QED
  BY <1>1, <1>2, <1>3, <1>4, <1>5, Zenon

\* The notes say how an approval ended.
LEMMA NotesTyped ==
  ASSUME Inv, Next
  PROVE  notes' \in [Approvals -> SUBSET {"approved", "denied", "expired"}]
<1>1. DaemonTyped /\ pending \subseteq Approvals /\ Policies \subseteq Approvals
  BY DEF Inv, DaemonTyped, Approvals
<1>2. \A c \in Clients, a \in Approvals : Outcome(call[c][a].verdict) \in {"approved", "denied", "expired"}
  BY DEF Inv, DaemonTyped, Verdicts, Outcome
<1>3. (\E a \in Approvals, text \in {"approved", "denied", "expired"} : Note(a, text)) \/ notes' = notes
  BY <1>1, <1>2, StepsOfNotes
<1> QED
  BY <1>1, <1>3, NoteIs DEF DaemonTyped

\* The parts of TypeOK about the daemon go on.
LEMMA DaemonTypedNext ==
  ASSUME Inv, Next
  PROVE  DaemonTyped'
<1> USE DEF Inv
<1>1. call' \in [Clients -> [Approvals ->
         [verdict : Verdicts, at : UnderWay \cup {"no", "stray", "done", "failed", "lost"}]]]
  BY CallsGoOn
<1>2. \A c \in Clients, a \in Approvals : call[c][a].at # "no" => call'[c][a].at # "no"
  <2>1. \A c \in Clients, a \in Approvals : call[c][a].at \in UnderWay \cup {"no", "stray", "done", "failed", "lost"}
    BY DEF DaemonTyped
  <2> QED
    BY <2>1, CallsGoOn DEF Onward, UnderWay
<1>3. pending' \subseteq Writes
  <2>1. \/ pending' \subseteq pending
        \/ pipe # <<>> /\ pending' = pending \cup {Head(pipe).id}
    <3>1. CASE ProxyStep
      BY <3>1 DEF ProxyStep, Ask, TimerFires, Answered, daemon
    <3>2. CASE PolicyStep
      BY <3>2 DEF PolicyStep, PolicyAsks, AddPolicy, PolicyListed, GrantLapses, PolicyTimer, daemon
    <3>3. CASE CommandStep
      BY <3>3, CommandFrame DEF daemon
    <3>4. CASE StreamStep
      BY <3>4 DEF StreamStep, StreamGoesOn, Connect, LinePending, LineResolved, StreamClosed, StreamBreaks,
          daemon
    <3>5. CASE StopStep
      BY <3>5 DEF StopStep, ProxyRestart, DaemonRestart, daemon
    <3> QED
      BY <3>1, <3>2, <3>3, <3>4, <3>5, NextIs
  <2>2. ASSUME pipe # <<>> PROVE Head(pipe).id \in Writes
    <3>1. pipe \in Seq(Lines) /\ pipe # <<>>
      BY <2>2 DEF ProxyTyped, Lines
    <3>2. Head(pipe) \in Lines
      BY <3>1
    <3> QED
      BY <3>2 DEF Lines
  <2> QED
    BY <2>1, <2>2 DEF DaemonTyped
<1>4. /\ decided' \subseteq Writes
      /\ \A w \in decided' : \E c \in Clients : call'[c][w].at # "no"
  <2>1. \/ decided' \subseteq decided
        \/ \E c \in Clients, a \in Writes, v \in Verdicts : Decide(c, a, v) /\ decided' = decided \cup {a}
    <3>1. CASE ProxyStep
      BY <3>1 DEF ProxyStep, Ask, TimerFires, Answered, daemon
    <3>2. CASE PolicyStep
      BY <3>2 DEF PolicyStep, PolicyAsks, AddPolicy, PolicyListed, GrantLapses, PolicyTimer, daemon
    <3>3. CASE CommandStep
      BY <3>3, CommandFrame DEF daemon
    <3>4. CASE StreamStep
      BY <3>4 DEF StreamStep, StreamGoesOn, Connect, LinePending, LineResolved, StreamClosed, StreamBreaks,
          daemon
    <3>5. CASE StopStep
      BY <3>5 DEF StopStep, ProxyRestart, DaemonRestart, daemon
    <3> QED
      BY <3>1, <3>2, <3>3, <3>4, <3>5, NextIs
  <2>2. ASSUME NEW c \in Clients, NEW a \in Writes, NEW v \in Verdicts, Decide(c, a, v)
        PROVE  call'[c][a].at # "no"
    BY <2>2 DEF Decide, DaemonTyped, Approvals
  <2>3. decided \subseteq Approvals
    BY DEF DaemonTyped, Approvals
  <2> QED
    BY <1>2, <2>1, <2>2, <2>3 DEF DaemonTyped
<1>5. policy' \subseteq Policies
  <2>1. CASE ProxyStep
    BY <2>1 DEF ProxyStep, Ask, TimerFires, Answered, DaemonTyped, daemon
  <2>2. CASE PolicyStep
    BY <2>2 DEF PolicyStep, PolicyAsks, AddPolicy, PolicyListed, GrantLapses, PolicyTimer, DaemonTyped, daemon
  <2>3. CASE CommandStep
    BY <2>3, CommandFrame DEF DaemonTyped, daemon
  <2>4. CASE StreamStep
    BY <2>4 DEF StreamStep, StreamGoesOn, Connect, LinePending, LineResolved, StreamClosed, StreamBreaks,
        DaemonTyped, daemon
  <2>5. CASE StopStep
    BY <2>5 DEF StopStep, ProxyRestart, DaemonRestart, DaemonTyped, daemon
  <2> QED
    BY <2>1, <2>2, <2>3, <2>4, <2>5, NextIs
<1>6. /\ named' \in [Policies -> 0..MaxNamed]
      /\ adding' \in [Policies -> 0..MaxNamed] /\ \A p \in Policies : adding'[p] <= named'[p]
  <2>1. \/ named' = named /\ adding' = adding
        \/ named' = named /\ adding' = [p \in Policies |-> 0]
        \/ \E p \in Policies : AddPolicy(p) \/ PolicyListed(p)
    <3>1. CASE ProxyStep
      BY <3>1 DEF ProxyStep, Ask, TimerFires, Answered, daemon
    <3>2. CASE PolicyStep
      BY <3>2 DEF PolicyStep, PolicyAsks, GrantLapses, PolicyTimer, daemon
    <3>3. CASE CommandStep
      BY <3>3, CommandFrame DEF daemon
    <3>4. CASE StreamStep
      BY <3>4 DEF StreamStep, StreamGoesOn, Connect, LinePending, LineResolved, StreamClosed, StreamBreaks,
          daemon
    <3>5. CASE StopStep
      BY <3>5 DEF StopStep, ProxyRestart, DaemonRestart, daemon
    <3> QED
      BY <3>1, <3>2, <3>3, <3>4, <3>5, NextIs
  <2>2. MaxNamed \in Nat
    BY ApprovalsAssumption
  <2>3. CASE named' = named /\ adding' = [p \in Policies |-> 0]
    BY <2>2, <2>3 DEF DaemonTyped
  <2>4. ASSUME NEW p \in Policies, AddPolicy(p)
        PROVE  /\ named' \in [Policies -> 0..MaxNamed]
               /\ adding' \in [Policies -> 0..MaxNamed] /\ \A q \in Policies : adding'[q] <= named'[q]
    <3>1. named[p] \in Nat /\ adding[p] \in Nat /\ named[p] < MaxNamed /\ adding[p] <= named[p]
      BY <2>4 DEF DaemonTyped, AddPolicy
    <3>2. named' = [named EXCEPT ![p] = named[p] + 1]
      BY <2>4 DEF AddPolicy
    <3>3. adding' = [adding EXCEPT ![p] = adding[p] + 1] \/ adding' = adding
      BY <2>4 DEF AddPolicy
    <3> QED
      BY <2>2, <3>1, <3>2, <3>3 DEF DaemonTyped
  <2>5. ASSUME NEW p \in Policies, PolicyListed(p)
        PROVE  /\ named' \in [Policies -> 0..MaxNamed]
               /\ adding' \in [Policies -> 0..MaxNamed] /\ \A q \in Policies : adding'[q] <= named'[q]
    BY <2>2, <2>5 DEF DaemonTyped, PolicyListed
  <2> QED
    BY <2>1, <2>3, <2>4, <2>5 DEF DaemonTyped
<1>7. stream' = "down" => pipe' = <<>> /\ pending' = {}
  <2>1. CASE StreamClosed \/ DaemonRestart
    BY <2>1 DEF StreamClosed, DaemonRestart
  <2>2. CASE Connect \/ StreamBreaks \/ LinePending \/ LineResolved
    BY <2>2 DEF Connect, StreamBreaks, LinePending, LineResolved, DaemonTyped
  <2>3. CASE ProxyRestart
    <3>1. stream' = "down" => stream = "down"
      BY <2>3 DEF ProxyRestart
    <3>2. pending' = pending /\ \E n \in 0..Len(pipe) : pipe' = SubSeq(pipe, 1, n)
      BY <2>3 DEF ProxyRestart, daemon
    <3>3. SUFFICES ASSUME stream = "down" PROVE pipe' = <<>> /\ pending' = {}
      BY <3>1
    <3>4. PICK n \in 0..Len(pipe) : pipe' = SubSeq(pipe, 1, n)
      BY <3>2
    <3>5. pipe = <<>> /\ pending = {}
      BY <3>3 DEF DaemonTyped
    <3>6. n = 0
      BY <3>4, <3>5
    <3> QED
      BY <3>2, <3>4, <3>5, <3>6
  <2>4. CASE ~(StreamClosed \/ DaemonRestart \/ Connect \/ StreamBreaks \/ LinePending \/ LineResolved \/ ProxyRestart)
    <3>1. stream' = stream /\ pending' = pending
      <4>1. CASE ProxyStep
        BY <2>4, <4>1 DEF ProxyStep, Ask, TimerFires, Answered, daemon, link
      <4>2. CASE PolicyStep
        BY <2>4, <4>2 DEF PolicyStep, PolicyAsks, AddPolicy, PolicyListed, GrantLapses, PolicyTimer, daemon,
            link
      <4>3. CASE CommandStep
        BY <2>4, <4>3, CommandFrame DEF daemon, link
      <4>4. CASE StreamStep
        BY <2>4, <4>4 DEF StreamStep, StreamGoesOn, daemon, link
      <4>5. CASE StopStep
        BY <2>4, <4>5 DEF StopStep, daemon, link
      <4> QED
        BY <4>1, <4>2, <4>3, <4>4, <4>5, NextIs
    <3>2. stream # "open" => pipe' = pipe
      BY <2>4, PipeNext DEF Broadcast
    <3> QED
      BY <3>1, <3>2 DEF DaemonTyped
  <2> QED
    BY <2>1, <2>2, <2>3, <2>4 DEF DaemonTyped
<1> QED
  BY <1>1, <1>3, <1>4, <1>5, <1>6, <1>7, NotesTyped DEF DaemonTyped

(***************************************************************************)
(* The proxy and the stream.                                               *)
(***************************************************************************)

\* A request ends as its future was answered.
LEMMA EndedNext ==
  ASSUME Inv, Next
  PROVE  Ended'
<1> USE DEF Inv, ProxyTyped, Ended
<1>1. CASE \E w \in Writes : Ask(w) \/ TimerFires(w) \/ Answered(w)
  BY <1>1 DEF Ask, TimerFires, Answered, Outcome, Held
<1>2. CASE \E c \in Clients, w \in Writes : ProxyDecides(c, w)
  <2>1. PICK c \in Clients, w \in Writes : ProxyDecides(c, w)
    BY <1>2
  <2>2. write' = write /\ \A v \in Writes : future'[v] # future[v] => write[v] = "held"
    BY <2>1, RequestsGoOn DEF ProxyDecides
  <2> QED
    BY <2>2
<1>3. CASE ProxyRestart
  BY <1>3 DEF ProxyRestart, Held
<1>4. CASE UNCHANGED proxy
  BY <1>4 DEF proxy
<1> QED
  BY <1>1, <1>2, <1>3, <1>4, StepsOfRequests

\* What is said of a request's end comes after all else that is said of it.
LEMMA ToldNext ==
  ASSUME Inv, Next
  PROVE  Told'
<1> USE DEF Inv
<1>1. pipe \in Seq(Lines) /\ pipe' \in Seq(Lines) /\ \A i \in DOMAIN pipe : pipe[i].id \in Writes
  <2>1. pipe \in Seq(Lines)
    BY DEF ProxyTyped, Lines
  <2>2. \A i \in DOMAIN pipe : pipe[i] \in Lines
    BY <2>1
  <2> QED
    BY <2>1, <2>2, PipeTyped DEF Lines
<1>2. \A w \in Writes : Settled(w) => Settled(w)'
  BY RequestsGoOn
<1>3. CASE pipe' = pipe
  BY <1>1, <1>2, <1>3 DEF Told, Settled
<1>4. ASSUME NEW w \in Writes, Ask(w), Broadcast(<<Line("pending", w)>>), stream = "open"
      PROVE  Told'
  <2>1. /\ Len(pipe') = Len(pipe) + 1 /\ pipe'[Len(pipe) + 1] = Line("pending", w)
        /\ \A i \in 1..Len(pipe) : pipe'[i] = pipe[i]
    BY <1>1, <1>4, BroadcastIs
  <2>2. ~Settled(w) /\ Line("pending", w).type # "resolved" /\ Line("pending", w).id = w
    BY <1>4 DEF Ask, Settled, Line
  <2>3. \A v \in Writes : v # w => Line("pending", v) # Line("pending", w)
    BY DEF Line
  <2> QED
    BY <1>1, <1>2, <2>1, <2>2, <2>3 DEF Told, Settled
<1>5. ASSUME NEW w \in Writes, Answered(w), Broadcast(<<Line("resolved", w)>>), stream = "open"
      PROVE  Told'
  <2>1. /\ Len(pipe') = Len(pipe) + 1 /\ pipe'[Len(pipe) + 1] = Line("resolved", w)
        /\ \A i \in 1..Len(pipe) : pipe'[i] = pipe[i]
    BY <1>1, <1>5, BroadcastIs
  <2>2. Settled(w)'
    BY <1>5 DEF Answered, Settled, Outcome, ProxyTyped
  <2>3. Line("resolved", w).id = w /\ \A v \in Writes : Line("pending", v) # Line("resolved", w)
    BY DEF Line
  <2> QED
    BY <1>1, <1>2, <2>1, <2>2, <2>3 DEF Told, Settled
<1>6. ASSUME NEW n \in 0..Len(pipe), pipe' = SubSeq(pipe, 1, n)
      PROVE  Told'
  <2>1. n \in Nat /\ n <= Len(pipe) /\ Len(pipe') = n /\ \A i \in 1..n : pipe'[i] = pipe[i]
    BY <1>1, <1>6, PrefixIs
  <2> QED
    BY <1>1, <1>2, <2>1 DEF Told, Settled
<1>7. CASE Connect
  <2>1. \A i \in DOMAIN pipe' : \E w \in Held : pipe'[i] = Line("pending", w)
    BY <1>7, BacklogIs DEF Connect
  <2>2. \A i \in DOMAIN pipe' : pipe'[i].type # "resolved"
    BY <2>1 DEF Line
  <2> QED
    BY <2>2 DEF Told
<1>8. CASE pipe # <<>> /\ pipe' = Tail(pipe)
  <2>1. /\ Len(pipe') = Len(pipe) - 1 /\ \A i \in 1..Len(pipe') : pipe'[i] = pipe[i + 1]
    BY <1>1, <1>8, TailIs
  <2>2. \A i \in DOMAIN pipe' : i + 1 \in DOMAIN pipe /\ pipe'[i] = pipe[i + 1]
    BY <1>1, <2>1
  <2>3. \A i, j \in DOMAIN pipe' : i < j => i + 1 < j + 1
    BY <1>1
  <2> QED
    BY <1>1, <1>2, <2>2, <2>3 DEF Told, Settled
<1>9. CASE pipe' = <<>>
  BY <1>9 DEF Told
<1>10. stream # "open" => \A lines : Broadcast(lines) => pipe' = pipe
  BY DEF Broadcast
<1>11. \/ pipe' = pipe \/ pipe' = <<>> \/ Connect
       \/ \E w \in Writes : \/ Ask(w) /\ Broadcast(<<Line("pending", w)>>)
                            \/ Answered(w) /\ Broadcast(<<Line("resolved", w)>>)
       \/ \E n \in 0..Len(pipe) : pipe' = SubSeq(pipe, 1, n)
       \/ pipe # <<>> /\ pipe' = Tail(pipe)
  BY PipeNext, Zenon
<1> QED
  BY <1>3, <1>4, <1>5, <1>6, <1>7, <1>8, <1>9, <1>10, <1>11, Zenon

\* A line that is sent decides whether its write will be listed, and no other.
LEMMA SentDecides ==
  ASSUME pipe \in Seq(Lines), stream = "open", NEW t \in {"pending", "resolved"}, NEW w \in Writes,
         Broadcast(<<Line(t, w)>>), pending' = pending
  PROVE  \A v \in Writes : WillBeListed(v)' <=> IF v = w THEN t = "pending" ELSE WillBeListed(v)
<1>1. /\ pipe' \in Seq(Lines) /\ Len(pipe') = Len(pipe) + 1 /\ pipe'[Len(pipe) + 1] = Line(t, w)
      /\ \A i \in 1..Len(pipe) : pipe'[i] = pipe[i]
  BY BroadcastIs
<1>2. Line(t, w).type = t /\ Line(t, w).id = w
  BY DEF Line
<1>3. DOMAIN pipe = 1..Len(pipe) /\ DOMAIN pipe' = 1..(Len(pipe) + 1) /\ Len(pipe) \in Nat
  BY <1>1
<1>4. ASSUME NEW v \in Writes, v # w
      PROVE  LinesOf(v)' = LinesOf(v)
  BY <1>1, <1>2, <1>3, <1>4 DEF LinesOf
<1>5. ASSUME NEW v \in Writes, v # w
      PROVE  WillBeListed(v)' <=> WillBeListed(v)
  BY <1>1, <1>3, <1>4, <1>5 DEF WillBeListed, LinesOf
<1>6. Len(pipe) + 1 \in LinesOf(w)' /\ \A j \in LinesOf(w)' : j \in 1..(Len(pipe) + 1)
  BY <1>1, <1>2, <1>3 DEF LinesOf
<1>7. WillBeListed(w)' <=> t = "pending"
  BY <1>1, <1>2, <1>3, <1>6 DEF WillBeListed
<1> QED
  BY <1>5, <1>7

\* Reading a line changes the list as the line says, and nothing about what will be listed.
LEMMA ReadKeeps ==
  ASSUME pipe \in Seq(Lines), LinePending \/ LineResolved, pipe # <<>>, pipe' = Tail(pipe)
  PROVE  \A v \in Writes : WillBeListed(v)' <=> WillBeListed(v)
<1>1. /\ pipe' \in Seq(Lines) /\ Len(pipe') = Len(pipe) - 1 /\ Head(pipe) = pipe[1] /\ pipe[1] \in Lines
      /\ \A i \in 1..Len(pipe') : pipe'[i] = pipe[i + 1]
  BY TailIs
<1>2. DOMAIN pipe = 1..Len(pipe) /\ DOMAIN pipe' = 1..(Len(pipe) - 1) /\ Len(pipe) \in Nat /\ Len(pipe) >= 1
  BY <1>1
<1> SUFFICES ASSUME NEW v \in Writes PROVE WillBeListed(v)' <=> WillBeListed(v)
  OBVIOUS
<1>3. \A i \in 1..(Len(pipe) - 1) : i + 1 \in 1..Len(pipe) /\ pipe'[i] = pipe[i + 1]
  BY <1>1, <1>2
<1>4. \A i \in 1..Len(pipe) : i # 1 => i - 1 \in 1..(Len(pipe) - 1) /\ pipe'[i - 1] = pipe[i]
  BY <1>2, <1>3
<1>5. \A i \in 1..(Len(pipe) - 1) : i \in LinesOf(v)' <=> i + 1 \in LinesOf(v)
  BY <1>2, <1>3 DEF LinesOf
<1>6. \A i \in 1..Len(pipe) : i # 1 => (i \in LinesOf(v) <=> i - 1 \in LinesOf(v)')
  BY <1>2, <1>4 DEF LinesOf
<1>7. LinesOf(v) \subseteq 1..Len(pipe) /\ LinesOf(v)' \subseteq 1..(Len(pipe) - 1)
  BY <1>2 DEF LinesOf
<1>8. 1 \in LinesOf(v) <=> pipe[1].id = v
  BY <1>2 DEF LinesOf
<1>9. CASE LinesOf(v)' # {}
  <2>1. LinesOf(v) # {}
    BY <1>5, <1>7, <1>9
  <2>2. ASSUME NEW i \in LinesOf(v)', pipe'[i].type = "pending", \A j \in LinesOf(v)' : j <= i
        PROVE  WillBeListed(v)
    <3>1. i + 1 \in LinesOf(v) /\ pipe[i + 1].type = "pending"
      BY <1>3, <1>5, <1>7, <2>2
    <3>2. ASSUME NEW j \in LinesOf(v) PROVE j <= i + 1
      <4>1. j = 1 \/ j - 1 \in LinesOf(v)'
        BY <1>6, <1>7
      <4> QED
        BY <1>7, <2>2, <4>1
    <3> QED
      BY <2>1, <3>1, <3>2 DEF WillBeListed
  <2>3. ASSUME NEW i \in LinesOf(v), pipe[i].type = "pending", \A j \in LinesOf(v) : j <= i
        PROVE  WillBeListed(v)'
    <3>1. PICK k \in LinesOf(v)' : TRUE
      BY <1>9
    <3>2. k + 1 \in LinesOf(v) /\ k + 1 <= i /\ i # 1
      BY <1>5, <1>7, <2>3
    <3>3. i - 1 \in LinesOf(v)' /\ pipe'[i - 1].type = "pending"
      BY <1>4, <1>6, <1>7, <2>3, <3>2
    <3>4. ASSUME NEW j \in LinesOf(v)' PROVE j <= i - 1
      <4>1. j + 1 \in LinesOf(v) /\ j + 1 <= i
        BY <1>5, <1>7, <2>3
      <4> QED
        BY <1>7, <4>1
    <3> QED
      BY <1>9, <3>3, <3>4 DEF WillBeListed
  <2>4. WillBeListed(v)' <=> \E i \in LinesOf(v)' : pipe'[i].type = "pending" /\ \A j \in LinesOf(v)' : j <= i
    BY <1>9 DEF WillBeListed
  <2>5. WillBeListed(v) <=> \E i \in LinesOf(v) : pipe[i].type = "pending" /\ \A j \in LinesOf(v) : j <= i
    BY <2>1 DEF WillBeListed
  <2> QED
    BY <2>2, <2>3, <2>4, <2>5
<1>10. CASE LinesOf(v)' = {}
  <2>1. WillBeListed(v)' <=> v \in pending'
    BY <1>10 DEF WillBeListed
  <2>2. LinesOf(v) \subseteq {1}
    BY <1>6, <1>7, <1>10
  <2>3. CASE pipe[1].id = v
    <3>1. LinesOf(v) = {1}
      BY <1>8, <2>2, <2>3
    <3>2. WillBeListed(v) <=> pipe[1].type = "pending"
      BY <3>1 DEF WillBeListed
    <3>3. v \in pending' <=> pipe[1].type = "pending"
      BY <1>1, <2>3 DEF LinePending, LineResolved, Lines
    <3> QED
      BY <2>1, <3>2, <3>3
  <2>4. CASE pipe[1].id # v
    <3>1. LinesOf(v) = {}
      BY <1>8, <2>2, <2>4
    <3>2. v \in pending' <=> v \in pending
      BY <1>1, <2>4 DEF LinePending, LineResolved
    <3> QED
      BY <2>1, <3>1, <3>2 DEF WillBeListed
  <2> QED
    BY <2>3, <2>4
<1> QED
  BY <1>9, <1>10

\* A new reader will list what is held.
LEMMA BacklogTells ==
  ASSUME pending' = {}, pipe' = Backlog
  PROVE  \A v \in Writes : WillBeListed(v)' <=> v \in Held
<1> SUFFICES ASSUME NEW v \in Writes PROVE WillBeListed(v)' <=> v \in Held
  OBVIOUS
<1>1. /\ \A i \in DOMAIN pipe' : \E w \in Held : pipe'[i] = Line("pending", w)
      /\ \A w \in Held : \E i \in DOMAIN pipe' : pipe'[i] = Line("pending", w)
      /\ \A i, j \in DOMAIN pipe' : pipe'[i] = pipe'[j] => i = j
      /\ DOMAIN pipe' \subseteq Nat
  BY BacklogIs
<1>2. /\ Held \subseteq Writes
      /\ \A w \in Writes : Line("pending", w).type = "pending" /\ Line("pending", w).id = w
  BY DEF Line, Held
<1>3. LinesOf(v)' = {i \in DOMAIN pipe' : pipe'[i] = Line("pending", v)}
  BY <1>1, <1>2 DEF LinesOf, Line
<1>4. LinesOf(v)' = {} <=> v \notin Held
  BY <1>1, <1>2, <1>3
<1>5. \A i, j \in LinesOf(v)' : i = j /\ i \in Nat /\ pipe'[i].type = "pending"
  BY <1>1, <1>3 DEF Line
<1>6. \A i, j \in LinesOf(v)' : j <= i
  BY <1>5
<1> QED
  BY <1>4, <1>5, <1>6 DEF WillBeListed

\* Steps that leave the queue, the stream and the list alone leave the mirror alone.
LEMMA MirrorSame ==
  ASSUME MirrorFollows, stream' = stream, pipe' = pipe, pending' = pending, Held' = Held
  PROVE  MirrorFollows'
BY DEF MirrorFollows, WillBeListed, LinesOf

\* The mirror follows the queue.
LEMMA MirrorNext ==
  ASSUME Inv, Next
  PROVE  MirrorFollows'
<1> USE DEF Inv
<1>1. pipe \in Seq(Lines)
  BY DEF ProxyTyped, Lines
<1>2. SUFFICES ASSUME stream' = "open" PROVE \A w \in Writes : (w \in Held)' <=> WillBeListed(w)'
  BY DEF MirrorFollows
<1>3. CASE Connect
  <2>1. pending' = {} /\ pipe' = Backlog /\ Held' = Held
    BY <1>3 DEF Connect, DaemonTyped, daemon, proxy, Held
  <2> QED
    BY <2>1, BacklogTells
<1>4. CASE StreamClosed \/ StreamBreaks \/ ProxyRestart \/ DaemonRestart
  BY <1>2, <1>4 DEF StreamClosed, StreamBreaks, ProxyRestart, DaemonRestart, ProxyTyped
<1>5. CASE LinePending \/ LineResolved
  <2>1. pipe # <<>> /\ pipe' = Tail(pipe) /\ stream' = stream /\ Held' = Held
    BY <1>5 DEF LinePending, LineResolved, proxy, Held
  <2>2. \A w \in Writes : WillBeListed(w)' <=> WillBeListed(w)
    BY <1>1, <1>5, <2>1, ReadKeeps
  <2> QED
    BY <1>2, <2>1, <2>2 DEF MirrorFollows
<1>6. ASSUME NEW w \in Writes, Ask(w)
      PROVE  \A v \in Writes : (v \in Held)' <=> WillBeListed(v)'
  <2>1. stream = "open" /\ pending' = pending /\ write[w] = "new"
    BY <1>2, <1>6 DEF Ask, daemon
  <2>2. CASE Cardinality(Held) >= PendingMax
    <3>1. pipe' = pipe /\ stream' = stream /\ write' = [write EXCEPT ![w] = "denied"]
      BY <1>6, <2>2 DEF Ask
    <3>2. Held' = Held
      BY <2>1, <3>1 DEF Held, ProxyTyped
    <3> QED
      BY <1>2, <2>1, <3>1, <3>2, MirrorSame DEF MirrorFollows
  <2>3. CASE ~(Cardinality(Held) >= PendingMax)
    <3>1. Broadcast(<<Line("pending", w)>>) /\ write' = [write EXCEPT ![w] = "held"]
      BY <1>6, <2>3 DEF Ask
    <3>2. \A v \in Writes : WillBeListed(v)' <=> IF v = w THEN "pending" = "pending" ELSE WillBeListed(v)
      BY <1>1, <2>1, <3>1, SentDecides
    <3>3. \A v \in Writes : (v \in Held)' <=> v = w \/ v \in Held
      BY <3>1 DEF Held, ProxyTyped
    <3> QED
      BY <2>1, <3>2, <3>3 DEF MirrorFollows
  <2> QED
    BY <2>2, <2>3
<1>7. ASSUME NEW w \in Writes, Answered(w)
      PROVE  \A v \in Writes : (v \in Held)' <=> WillBeListed(v)'
  <2>1. stream = "open" /\ pending' = pending /\ Broadcast(<<Line("resolved", w)>>)
    BY <1>2, <1>7 DEF Answered, daemon
  <2>2. \A v \in Writes : WillBeListed(v)' <=> IF v = w THEN "resolved" = "pending" ELSE WillBeListed(v)
    BY <1>1, <2>1, SentDecides
  <2>3. \A v \in Writes : (v \in Held)' <=> v # w /\ v \in Held
    BY <1>7 DEF Answered, Held, ProxyTyped, Outcome
  <2> QED
    BY <2>1, <2>2, <2>3 DEF MirrorFollows
<1>8. CASE /\ stream' = stream /\ pipe' = pipe /\ pending' = pending /\ Held' = Held
  BY <1>2, <1>8, MirrorSame DEF MirrorFollows
<1> DEFINE Moves == \/ Connect \/ StreamClosed \/ StreamBreaks \/ ProxyRestart \/ DaemonRestart
                    \/ LinePending \/ LineResolved
                    \/ \E w \in Writes : Ask(w) \/ Answered(w)
<1>9. ASSUME ~Moves
      PROVE  stream' = stream /\ pipe' = pipe /\ pending' = pending /\ write' = write
  <2>1. CASE ProxyStep
    BY <1>9, <2>1 DEF ProxyStep, TimerFires, link, daemon
  <2>2. CASE PolicyStep
    BY <2>2 DEF PolicyStep, PolicyAsks, AddPolicy, PolicyListed, GrantLapses, PolicyTimer, daemon, link, proxy
  <2>3. CASE CommandStep
    BY <2>3, CommandFrame DEF daemon, link, proxy
  <2>4. CASE StreamStep \/ StopStep
    BY <1>9, <2>4 DEF StreamStep, StreamGoesOn, StopStep
  <2> QED
    BY <2>1, <2>2, <2>3, <2>4, NextIs
<1>10. write' = write => Held' = Held
  BY DEF Held
<1> QED
  BY <1>3, <1>4, <1>5, <1>6, <1>7, <1>8, <1>9, <1>10

(***************************************************************************)
(* Which verdict counts.                                                   *)
(***************************************************************************)

\* What a step of one call leaves of the others.
LEMMA OneCall ==
  ASSUME Inv, NEW c \in Clients, NEW a \in Approvals, CallStep(c, a)
  PROVE  \A d \in Clients, b \in Approvals : d # c \/ b # a => call'[d][b] = call[d][b]
<1>1. CASE \E v \in Verdicts : Decide(c, a, v)
  BY <1>1 DEF Decide, Inv, DaemonTyped
<1>2. CASE ~\E v \in Verdicts : Decide(c, a, v)
  <2>1. \E step \in UnderWay \cup {"no", "stray", "done", "failed", "lost"} : At(c, a, step)
    BY <1>2 DEF CallStep, CommandGoesOn, ProxyDecides, PolicyDecides, DecideReturns, DecideFails, StrayLost,
                CommandFails, CommandTimesOut, CommandNotStarted, UnderWay
  <2> QED
    BY <2>1, AtIs DEF Inv
<1> QED
  BY <1>1, <1>2

\* A call is taken by the proxy or by the policy service.
LEMMA TakenBy ==
  ASSUME Inv, Next, NEW c \in Clients, NEW a \in Approvals, ~Took(c, a), Took(c, a)'
  PROVE  /\ call[c][a].at = "sent"
         /\ a \in Writes => ProxyDecides(c, a) /\ Takes(a)
         /\ a \in Policies => PolicyDecides(c, a) /\ Decidable(a, call[c][a].verdict)
<1> USE DEF Took, Inv
<1>1. call[c][a].at \in UnderWay \cup {"no", "stray", "done", "failed", "lost"}
  BY DEF DaemonTyped
<1>2. call[c][a].at = "sent" /\ call'[c][a].at = "taken"
  BY <1>1, CallsGoOn DEF Onward, UnderWay
<1>3. ~DaemonRestart /\ call' # call
  <2>1. ASSUME DaemonRestart PROVE call'[c][a].at # "taken"
    <3>1. call[c][a] \in [verdict : Verdicts, at : UnderWay \cup {"no", "stray", "done", "failed", "lost"}]
      BY DEF DaemonTyped
    <3>2. call'[c][a] = [call[c][a] EXCEPT !.at = IF @ = "sent" THEN "stray" ELSE IF @ \in UnderWay THEN "lost" ELSE @]
      BY <2>1 DEF DaemonRestart
    <3> QED
      BY <1>2, <3>1, <3>2
  <2> QED
    BY <1>2, <2>1
<1>4. PICK d \in Clients, b \in Approvals : CallStep(d, b)
  BY <1>3, StepsOfCalls
<1>5. d = c /\ b = a
  BY <1>2, <1>4, OneCall
<1>6. \/ a \in Writes /\ ProxyDecides(c, a)
      \/ a \in Policies /\ PolicyDecides(c, a)
      \/ \E v \in Verdicts : Decide(c, a, v)
      \/ DecideReturns(c, a) \/ DecideFails(c, a) \/ StrayLost(c, a)
      \/ CommandFails(c, a) \/ CommandTimesOut(c, a) \/ CommandNotStarted(c, a)
  BY <1>4, <1>5 DEF CallStep, CommandGoesOn
<1>7. ASSUME NEW step \in UnderWay \cup {"no", "stray", "done", "failed", "lost"}, At(c, a, step)
      PROVE  step = "taken"
  <2>1. call'[c][a] = [verdict |-> call[c][a].verdict, at |-> step]
    BY <1>7, AtIs
  <2> QED
    BY <1>2, <2>1
<1>8. \/ a \in Writes /\ ProxyDecides(c, a)
      \/ a \in Policies /\ PolicyDecides(c, a)
  BY <1>2, <1>6, <1>7 DEF Decide, DecideReturns, DecideFails, StrayLost, CommandFails, CommandTimesOut,
                          CommandNotStarted, UnderWay
<1>9. a \in Writes => ProxyDecides(c, a) /\ Takes(a)
  BY <1>2, <1>7, <1>8, ApprovalsAssumption DEF ProxyDecides, UnderWay
<1>10. a \in Policies => PolicyDecides(c, a) /\ Decidable(a, call[c][a].verdict)
  BY <1>2, <1>7, <1>8, ApprovalsAssumption DEF PolicyDecides, UnderWay
<1> QED
  BY <1>2, <1>9, <1>10

\* The first verdict counts, and the request ends with it unless the timer was first.
LEMMA CountedNext ==
  ASSUME Inv, Next
  PROVE  Counted'
<1> USE DEF Inv
<1> SUFFICES ASSUME NEW w \in Writes
             PROVE  /\ future'[w] \in {"allow", "deny"} => \E c \in Clients : call'[c][w].at \in {"taken", "done", "unsure", "lost"}
                    /\ \A c \in Clients : Took(c, w)' => /\ future'[w] \in {call'[c][w].verdict, "cancelled"}
                                                         /\ \A d \in Clients : Took(d, w)' => d = c
  BY DEF Counted
<1>1. w \in Approvals /\ \A c \in Clients : call[c][w].at \in UnderWay \cup {"no", "stray", "done", "failed", "lost"}
  BY DEF DaemonTyped, Approvals
<1>2. \A c \in Clients : call[c][w].at \in {"taken", "done", "unsure", "lost"} => call'[c][w].at \in {"taken", "done", "unsure", "lost"}
  BY <1>1, CallsGoOn DEF Onward
<1>3. future'[w] = future[w] \/ future'[w] = "cancelled" \/ \E c \in Clients : ProxyDecides(c, w) /\ Takes(w)
  BY StepsOfRequests DEF Ask, Answered, TimerFires, ProxyDecides, ProxyRestart, ProxyTyped, proxy
<1>4. ASSUME NEW c \in Clients, ProxyDecides(c, w), Takes(w)
      PROVE  /\ call'[c][w].at \in {"taken", "lost"} /\ future'[w] = call[c][w].verdict
             /\ \A d \in Clients : ~Took(d, w) /\ (d # c => ~Took(d, w)')
  <2>1. \E step \in {"taken", "lost"} : At(c, w, step)
    BY <1>4 DEF ProxyDecides
  <2>2. /\ call'[c][w].at \in {"taken", "lost"}
        /\ \A d \in Clients : d # c => call'[d][w] = call[d][w]
    <3>1. PICK step \in {"taken", "lost"} : At(c, w, step)
      BY <2>1
    <3>2. step \in UnderWay \cup {"no", "stray", "done", "failed", "lost"}
      BY DEF UnderWay
    <3>3. /\ call'[c][w] = [verdict |-> call[c][w].verdict, at |-> step]
          /\ \A d \in Clients, b \in Approvals : d # c \/ b # w => call'[d][b] = call[d][b]
      BY <1>1, <3>1, <3>2, AtIs
    <3> QED
      BY <1>1, <3>3
  <2>3. future[w] = "none" /\ future'[w] = call[c][w].verdict
    BY <1>4 DEF Takes, ProxyDecides, ProxyTyped
  <2>4. \A d \in Clients : call[d][w].verdict \in {"allow", "deny"}
    BY <1>1 DEF DaemonTyped, Verdicts
  <2>5. \A d \in Clients : ~Took(d, w)
    BY <2>3, <2>4 DEF Counted
  <2> QED
    BY <2>2, <2>3, <2>5 DEF Took
<1>5. future'[w] \in {"allow", "deny"} => \E c \in Clients : call'[c][w].at \in {"taken", "done", "unsure", "lost"}
  BY <1>2, <1>3, <1>4 DEF Counted
<1>6. \A c \in Clients : Took(c, w)' => call'[c][w].verdict = call[c][w].verdict
  BY <1>1, CallsGoOn DEF Took, Onward
<1>7. ASSUME NEW c \in Clients, ProxyDecides(c, w), Takes(w)
      PROVE  \A d \in Clients : Took(d, w)' => /\ future'[w] \in {call'[d][w].verdict, "cancelled"}
                                               /\ \A e \in Clients : Took(e, w)' => e = d
  BY <1>4, <1>6, <1>7
<1>8. ASSUME \A c \in Clients : ~(ProxyDecides(c, w) /\ Takes(w))
      PROVE  \A d \in Clients : Took(d, w)' => /\ future'[w] \in {call'[d][w].verdict, "cancelled"}
                                               /\ \A e \in Clients : Took(e, w)' => e = d
  <2>1. \A d \in Clients : Took(d, w)' => Took(d, w)
    BY <1>1, <1>8, TakenBy
  <2>2. future'[w] = future[w] \/ future'[w] = "cancelled"
    BY <1>3, <1>8
  <2> QED
    BY <1>6, <2>1, <2>2 DEF Counted
<1> QED
  BY <1>5, <1>7, <1>8

(***************************************************************************)
(* What the daemon knows of a write's end.                                 *)
(***************************************************************************)

\* Who decided stays known, and so does whether one of them heard nothing.
LEMMA DecidersGrow ==
  ASSUME Inv, Next, NEW a \in Approvals
  PROVE  /\ \A c \in Deciders(a) : c \in Deciders(a)'
         /\ Contended(a) => Contended(a)'
         /\ Unheard(a) => Unheard(a)'
<1>1. \A c \in Clients : call[c][a].at \in UnderWay \cup {"no", "stray", "done", "failed", "lost"}
  BY DEF Inv, DaemonTyped
<1>2. \A c \in Deciders(a) : /\ c \in Deciders(a)'
                             /\ call[c][a].at \in {"unsure", "stray", "lost"} => call'[c][a].at \in {"unsure", "stray", "lost"}
  BY <1>1, CallsGoOn DEF Inv, Deciders, Onward, UnderWay
<1> QED
  BY <1>2 DEF Contended, Unheard

\* A line that is on its way tells of a request that just came, or was held when the reader did.
LEMMA AheadBy ==
  ASSUME Inv, Next, NEW w \in Writes, Ahead(w)', ~Ahead(w)
  PROVE  Ask(w) \/ (Connect /\ w \in Held)
<1> USE DEF Ahead
<1>1. pipe \in Seq(Lines) /\ pipe' \in Seq(Lines)
  BY PipeTyped DEF Inv, ProxyTyped, Lines
<1>2. \A v \in Writes : v # w => Line("pending", v) # Line("pending", w)
  BY DEF Line
<1>3. \A v \in Writes : Line("resolved", v) # Line("pending", w)
  BY DEF Line
<1>4. ASSUME NEW v \in Writes, NEW t \in {"pending", "resolved"}, Broadcast(<<Line(t, v)>>)
      PROVE  t = "pending" /\ v = w
  <2>1. pipe' = pipe \/ (/\ Len(pipe') = Len(pipe) + 1 /\ pipe'[Len(pipe) + 1] = Line(t, v)
                         /\ \A i \in 1..Len(pipe) : pipe'[i] = pipe[i])
    BY <1>1, <1>4, BroadcastIs
  <2> QED
    BY <1>1, <1>2, <1>3, <2>1
<1>5. ASSUME NEW n \in 0..Len(pipe), pipe' = SubSeq(pipe, 1, n) PROVE FALSE
  <2>1. n \in Nat /\ n <= Len(pipe) /\ Len(pipe') = n /\ \A i \in 1..n : pipe'[i] = pipe[i]
    BY <1>1, <1>5, PrefixIs
  <2> QED
    BY <1>1, <2>1
<1>6. ASSUME pipe # <<>>, pipe' = Tail(pipe) PROVE FALSE
  <2>1. /\ Len(pipe') = Len(pipe) - 1 /\ \A i \in 1..Len(pipe') : pipe'[i] = pipe[i + 1]
    BY <1>1, <1>6, TailIs
  <2>2. \A i \in DOMAIN pipe' : i + 1 \in DOMAIN pipe /\ pipe'[i] = pipe[i + 1]
    BY <1>1, <2>1
  <2> QED
    BY <2>2
<1>7. ASSUME Connect PROVE w \in Held
  <2>1. PICK i \in DOMAIN pipe' : pipe'[i] = Line("pending", w)
    OBVIOUS
  <2>2. PICK v \in Held : pipe'[i] = Line("pending", v)
    BY <1>7, <2>1, BacklogIs DEF Connect
  <2> QED
    BY <1>2, <2>1, <2>2 DEF Held
<1>8. pipe' # <<>> /\ pipe' # pipe
  OBVIOUS
<1>9. \/ Connect
      \/ \E v \in Writes : \/ Ask(v) /\ Broadcast(<<Line("pending", v)>>)
                           \/ Broadcast(<<Line("resolved", v)>>)
  <2>1. ProxyTyped
    BY DEF Inv
  <2> HIDE DEF Ahead
  <2> QED
    BY <1>5, <1>6, <1>8, <2>1, PipeNext, Zenon
<1>10. ASSUME NEW v \in Writes, Broadcast(<<Line("resolved", v)>>) PROVE FALSE
  BY <1>4, <1>10
<1>11. ASSUME NEW v \in Writes, Broadcast(<<Line("pending", v)>>) PROVE v = w
  BY <1>4, <1>11
<1> HIDE DEF Ahead
<1> QED
  BY <1>7, <1>9, <1>10, <1>11, Zenon

\* A write gets listed by the line that says so.
LEMMA ListedBy ==
  ASSUME Inv, Next, NEW w \in Writes, w \in pending', w \notin pending
  PROVE  Ahead(w)
<1>1. pipe # <<>> /\ Head(pipe).type = "pending" /\ Head(pipe).id = w
  <2>1. CASE ProxyStep
    BY <2>1 DEF ProxyStep, Ask, TimerFires, Answered, daemon
  <2>2. CASE PolicyStep
    BY <2>2 DEF PolicyStep, PolicyAsks, AddPolicy, PolicyListed, GrantLapses, PolicyTimer, daemon
  <2>3. CASE CommandStep
    BY <2>3, CommandFrame DEF daemon
  <2>4. CASE StreamStep
    BY <2>4 DEF StreamStep, StreamGoesOn, Connect, LinePending, LineResolved, StreamClosed, StreamBreaks, daemon
  <2>5. CASE StopStep
    BY <2>5 DEF StopStep, ProxyRestart, DaemonRestart, daemon
  <2> QED
    BY <2>1, <2>2, <2>3, <2>4, <2>5, NextIs
<1>2. pipe \in Seq(Lines)
  BY DEF Inv, ProxyTyped, Lines
<1>3. 1 \in DOMAIN pipe /\ Head(pipe) = pipe[1] /\ pipe[1] \in Lines
  BY <1>1, <1>2
<1>4. pipe[1] = Line("pending", w)
  BY <1>1, <1>3 DEF Lines, Line
<1> QED
  BY <1>3, <1>4 DEF Ahead

\* A mark goes with the write's last line, with a failed command or with the daemon.
LEMMA UnmarkedBy ==
  ASSUME Inv, Next, NEW w \in Writes, w \in decided, w \notin decided'
  PROVE  \/ LineResolved /\ Head(pipe).id = w
         \/ DaemonRestart
         \/ \E c \in Clients : CommandTimesOut(c, w) \/ DecideFails(c, w)
<1>1. \/ LineResolved \/ DaemonRestart
      \/ \E c \in Clients, a \in Approvals : CommandTimesOut(c, a) \/ DecideFails(c, a)
  <2>1. CASE ProxyStep
    BY <2>1 DEF ProxyStep, Ask, TimerFires, Answered, daemon
  <2>2. CASE PolicyStep
    BY <2>2 DEF PolicyStep, PolicyAsks, AddPolicy, PolicyListed, GrantLapses, PolicyTimer, daemon
  <2>3. CASE CommandStep
    BY <2>3, CommandFrame DEF daemon
  <2>4. CASE StreamStep
    BY <2>4 DEF StreamStep, StreamGoesOn, Connect, LinePending, StreamClosed, StreamBreaks, daemon
  <2>5. CASE StopStep
    BY <2>5 DEF StopStep, ProxyRestart, daemon
  <2> QED
    BY <2>1, <2>2, <2>3, <2>4, <2>5, NextIs
<1>2. LineResolved => Head(pipe).id = w
  BY DEF LineResolved
<1>3. \A c \in Clients, a \in Approvals : CommandTimesOut(c, a) \/ DecideFails(c, a) => a = w
  BY DEF CommandTimesOut, DecideFails, FailureNoted
<1> QED
  BY <1>1, <1>2, <1>3

\* A command that fails, one way or the other, leaves its call over or unanswered.
LEMMA FailedCall ==
  ASSUME Inv, NEW c \in Clients, NEW a \in Approvals, CommandTimesOut(c, a) \/ DecideFails(c, a)
  PROVE  call[c][a].at \in {"sent", "refused", "unsure"} /\ call'[c][a].at \in {"stray", "failed", "lost"}
<1>1. \E step \in {"stray", "failed", "lost"} : At(c, a, step)
  BY DEF CommandTimesOut, DecideFails
<1>2. PICK step \in {"stray", "failed", "lost"} : At(c, a, step)
  BY <1>1
<1>3. step \in UnderWay \cup {"no", "stray", "done", "failed", "lost"}
  OBVIOUS
<1>4. call'[c][a] = [verdict |-> call[c][a].verdict, at |-> step]
  BY <1>2, <1>3, AtIs DEF Inv
<1> QED
  BY <1>4 DEF CommandTimesOut, DecideFails

\* A mark that is gone means that the write is over, if nobody else decided.
LEMMA MarkedNext ==
  ASSUME Inv, Next
  PROVE  Marked'
<1> USE DEF Inv
<1> SUFFICES ASSUME NEW w \in Writes, NEW c \in Clients,
                    call'[c][w].at \in UnderWay \cup {"done"}, ~Contended(w)', w \notin decided'
             PROVE  /\ w \notin pending' /\ ~Ahead(w)'
                    /\ call'[c][w].at # "done" => Settled(w)'
  BY DEF Marked
<1>1. w \in Approvals /\ \A d \in Clients : call[d][w].at \in UnderWay \cup {"no", "stray", "done", "failed", "lost"}
  BY DEF DaemonTyped, Approvals
<1>2. ~Contended(w)
  BY <1>1, DecidersGrow
<1>3. call[c][w].at # "no"
  <2>1. SUFFICES ASSUME call[c][w].at = "no" PROVE FALSE
    OBVIOUS
  <2>2. call' # call /\ ~DaemonRestart
    <3>1. call[c][w] \in [verdict : Verdicts, at : UnderWay \cup {"no", "stray", "done", "failed", "lost"}]
      BY <1>1 DEF DaemonTyped
    <3>2. DaemonRestart => call'[c][w] = [call[c][w] EXCEPT !.at = IF @ = "sent" THEN "stray" ELSE IF @ \in UnderWay THEN "lost" ELSE @]
      BY <1>1 DEF DaemonRestart
    <3> QED
      BY <2>1, <3>1, <3>2 DEF UnderWay
  <2>3. PICK d \in Clients, b \in Approvals : CallStep(d, b)
    BY <2>2, StepsOfCalls
  <2>4. d = c /\ b = w
    BY <1>1, <2>1, <2>3, OneCall DEF UnderWay
  <2>5. PICK v \in Verdicts : Decide(c, w, v)
    BY <2>1, <2>3, <2>4 DEF CallStep, CommandGoesOn, ProxyDecides, PolicyDecides, DecideReturns, DecideFails, StrayLost,
                            CommandFails, CommandTimesOut, CommandNotStarted
  <2> QED
    BY <2>5 DEF Decide
<1>4. call[c][w].at \in UnderWay \cup {"done"}
  BY <1>1, <1>3, CallsGoOn DEF Onward, UnderWay
<1>5. call[c][w].at = "done" => call'[c][w].at = "done"
  BY <1>1, CallsGoOn DEF Onward
<1>6. CASE w \notin decided
  <2>1. w \notin pending /\ ~Ahead(w) /\ (call[c][w].at # "done" => Settled(w))
    BY <1>2, <1>4, <1>6 DEF Marked
  <2>2. w \notin pending'
    BY <2>1, ListedBy
  <2>3. call'[c][w].at # "done" => Settled(w)'
    BY <1>5, <2>1, RequestsGoOn
  <2>4. write[w] # "new"
    <3>1. CASE call[c][w].at = "done"
      <4>1. future[w] \in {call[c][w].verdict, "cancelled"} /\ call[c][w].verdict \in {"allow", "deny"}
        BY <1>1, <3>1 DEF Counted, Took, DaemonTyped, Verdicts
      <4> QED
        BY <4>1 DEF Ended
    <3>2. CASE call[c][w].at # "done"
      BY <2>1, <3>2 DEF Settled
    <3> QED
      BY <3>1, <3>2
  <2>5. ~(Connect /\ w \in Held)
    <3>1. CASE call[c][w].at = "done"
      BY <3>1 DEF Connect
    <3>2. CASE call[c][w].at # "done"
      BY <2>1, <3>2 DEF Settled, Held
    <3> QED
      BY <3>1, <3>2
  <2>6. ~Ask(w)
    BY <2>4 DEF Ask
  <2> QED
    BY <2>1, <2>2, <2>3, <2>5, <2>6, AheadBy
<1>7. CASE w \in decided
  <2>1. CASE LineResolved /\ Head(pipe).id = w
    <3>1. pipe \in Seq(Lines) /\ pipe # <<>> /\ pipe' = Tail(pipe) /\ w \notin pending' /\ Head(pipe).type = "resolved"
      BY <2>1 DEF LineResolved, ProxyTyped, Lines
    <3>2. Head(pipe) = pipe[1] /\ 1 \in DOMAIN pipe /\ Len(pipe') = Len(pipe) - 1 /\ \A i \in 1..Len(pipe') : pipe'[i] = pipe[i + 1]
      BY <3>1, TailIs
    <3>3. Settled(w)
      BY <2>1, <3>1, <3>2 DEF Told
    <3>4. \A j \in DOMAIN pipe : 1 < j => pipe[j] # Line("pending", w)
      BY <2>1, <3>1, <3>2 DEF Told
    <3>5. \A i \in DOMAIN pipe' : i + 1 \in DOMAIN pipe /\ 1 < i + 1 /\ pipe'[i] = pipe[i + 1]
      BY <3>1, <3>2
    <3> QED
      BY <3>1, <3>3, <3>4, <3>5, RequestsGoOn DEF Ahead
  <2>2. CASE DaemonRestart
    <3>1. pending' = {} /\ pipe' = <<>>
      BY <2>2 DEF DaemonRestart
    <3>2. call[c][w] \in [verdict : Verdicts, at : UnderWay \cup {"no", "stray", "done", "failed", "lost"}]
      BY <1>1 DEF DaemonTyped
    <3>3. call'[c][w] = [call[c][w] EXCEPT !.at = IF @ = "sent" THEN "stray" ELSE IF @ \in UnderWay THEN "lost" ELSE @]
      BY <1>1, <2>2 DEF DaemonRestart
    <3>4. call'[c][w].at = "done"
      BY <3>2, <3>3 DEF UnderWay
    <3> QED
      BY <3>1, <3>4 DEF Ahead
  <2>3. ASSUME NEW d \in Clients, CommandTimesOut(d, w) \/ DecideFails(d, w) PROVE FALSE
    <3>1. call[d][w].at \in {"sent", "refused", "unsure"} /\ call'[d][w].at \in {"stray", "failed", "lost"}
      BY <1>1, <2>3, FailedCall
    <3>2. d # c /\ d \in Deciders(w)' /\ c \in Deciders(w)'
      BY <3>1 DEF Deciders, UnderWay
    <3> QED
      BY <3>2 DEF Contended
  <2> QED
    BY <1>7, <2>1, <2>2, <2>3, UnmarkedBy
<1> QED
  BY <1>6, <1>7

\* A write whose call neither found nor heard of a verdict timed out.
LEMMA NobodyDecided ==
  ASSUME Inv, NEW w \in Writes, Settled(w),
         \A c \in Clients : call[c][w].at \notin {"taken", "done", "unsure", "lost"}
  PROVE  write[w] = "timeout"
<1>1. future[w] \notin {"allow", "deny"}
  BY DEF Inv, Counted
<1> QED
  BY <1>1 DEF Inv, Ended, Settled, ProxyTyped

\* A note of a verdict is that of the call that brought it back.
LEMMA NotedNext ==
  ASSUME Inv, Next
  PROVE  Noted'
<1> USE DEF Inv
<1> DEFINE Done(w, v) == \E c \in Clients : call[c][w] = [verdict |-> v, at |-> "done"]
<1>1. ASSUME NEW w \in Writes, NEW v \in Verdicts, Done(w, v)
      PROVE  Done(w, v)'
  <2>1. PICK c \in Clients : call[c][w] = [verdict |-> v, at |-> "done"]
    BY <1>1
  <2>2. w \in Approvals /\ call[c][w].at = "done" /\ call[c][w].verdict = v
    BY <2>1 DEF Approvals
  <2>3. call'[c][w].at = "done" /\ call'[c][w].verdict = v
    BY <2>2, CallsGoOn DEF Onward
  <2>4. call'[c][w] \in [verdict : Verdicts, at : UnderWay \cup {"no", "stray", "done", "failed", "lost"}]
    BY <2>2, CallsGoOn
  <2>5. call'[c][w] = [verdict |-> v, at |-> "done"]
    BY <2>3, <2>4
  <2> QED
    BY <2>5
<1>2. ASSUME NEW w \in Writes, NEW v \in Verdicts, Outcome(v) \in notes'[w]
      PROVE  Outcome(v) \in notes[w] \/ Done(w, v)'
  <2>1. w \in Approvals /\ w \notin Policies /\ Outcome(v) # "expired" /\ Policies \subseteq Approvals
    BY ApprovalsAssumption DEF Approvals, Verdicts, Outcome
  <2>2. ASSUME NEW a \in Approvals, Note(a, "expired")
        PROVE  Outcome(v) \in notes[w]
    <3>1. notes'[w] = notes[w] \/ notes'[w] = notes[w] \cup {"expired"}
      BY <2>1, <2>2, NoteIs
    <3> QED
      BY <1>2, <2>1, <3>1
  <2>3. ASSUME NEW c \in Clients, NEW a \in Approvals, DecideReturns(c, a), Note(a, Outcome(call[c][a].verdict))
        PROVE  Outcome(v) \in notes[w] \/ Done(w, v)'
    <3>1. call[c][a].verdict \in Verdicts /\ Outcome(call[c][a].verdict) \in {"approved", "denied", "expired"}
      BY DEF DaemonTyped, Verdicts, Outcome
    <3>2. CASE a # w
      <4>1. notes'[w] = notes[w]
        BY <2>1, <2>3, <3>1, <3>2, NoteIs
      <4> QED
        BY <1>2, <4>1
    <3>3. CASE a = w
      <4>1. notes'[w] = notes[w] \cup {Outcome(call[c][w].verdict)}
        BY <2>1, <2>3, <3>1, <3>3, NoteIs
      <4>2. Outcome(v) \in notes[w] \/ v = call[c][w].verdict
        BY <1>2, <3>1, <3>3, <4>1 DEF Outcome, Verdicts
      <4>3. At(c, w, "done") /\ "done" \in UnderWay \cup {"no", "stray", "done", "failed", "lost"}
        BY <2>3, <3>3 DEF DecideReturns
      <4>4. call'[c][w] = [verdict |-> call[c][w].verdict, at |-> "done"]
        BY <2>1, <4>3, AtIs
      <4> QED
        BY <4>2, <4>4
    <3> QED
      BY <3>2, <3>3
  <2>4. pending \subseteq Approvals
    BY DEF DaemonTyped, Approvals
  <2>5. \/ notes' = notes
        \/ \E a \in Approvals : Note(a, "expired")
        \/ \E c \in Clients, a \in Approvals : DecideReturns(c, a) /\ Note(a, Outcome(call[c][a].verdict))
    BY <2>1, <2>4, StepsOfNotes
  <2> HIDE DEF Done
  <2> QED
    BY <1>2, <2>2, <2>3, <2>5
<1>3. \A w \in Writes, v \in Verdicts : Outcome(v) \in notes[w] => Done(w, v)
  BY DEF Noted, Outcome, Verdicts
<1>4. \A w \in Writes, v \in Verdicts : Outcome(v) \in notes'[w] => Done(w, v)'
  <2> HIDE DEF Done
  <2> QED
    BY <1>1, <1>2, <1>3
<1> QED
  BY <1>4 DEF Noted, Outcome, Verdicts

\* A write is noted as expired when its only call shows that nobody decided it.
LEMMA ExpiredNext ==
  ASSUME Inv, Next
  PROVE  Expired'
<1> USE DEF Inv
<1> SUFFICES ASSUME NEW w \in Writes, "expired" \in notes'[w], ~Contended(w)', ~Unheard(w)'
             PROVE  write'[w] = "timeout"
  BY DEF Expired
<1>1. w \in Approvals /\ w \notin Policies /\ Policies \subseteq Approvals
  BY ApprovalsAssumption DEF Approvals
<1>2. ~Contended(w) /\ ~Unheard(w)
  BY <1>1, DecidersGrow
<1>3. write[w] = "timeout" => write'[w] = "timeout"
  BY RequestsGoOn
<1>4. CASE "expired" \in notes[w]
  BY <1>2, <1>3, <1>4 DEF Expired
<1>5. ASSUME "expired" \notin notes[w] PROVE write[w] = "timeout"
  <2>1. \A c \in Clients : call[c][w].at \in {"taken", "done", "unsure", "lost"} => call[c][w].at \in {"taken", "done"}
    BY <1>2 DEF Unheard, Deciders
  <2>2. ASSUME NEW a \in Approvals, NEW text \in {"approved", "denied", "expired"}, Note(a, text)
        PROVE  a = w /\ text = "expired"
    BY <1>1, <1>5, <2>2, NoteIs
  <2>3. CASE /\ LineResolved /\ Head(pipe).id \in pending /\ Head(pipe).id \notin decided
             /\ Note(Head(pipe).id, "expired")
    <3>1. Head(pipe).id = w
      BY <2>2, <2>3 DEF DaemonTyped, Approvals
    <3>2. w \in pending /\ w \notin decided
      BY <2>3, <3>1
    <3>3. pipe \in Seq(Lines) /\ pipe # <<>> /\ pipe' = Tail(pipe) /\ Head(pipe).type = "resolved"
      BY <2>3 DEF LineResolved, ProxyTyped, Lines
    <3>4. Head(pipe) = pipe[1] /\ 1 \in DOMAIN pipe
      BY <3>3, TailIs
    <3>5. Settled(w)
      BY <3>1, <3>3, <3>4 DEF Told
    <3>6. \A c \in Clients : call[c][w].at \notin {"taken", "done"}
      BY <1>2, <3>2 DEF Marked, UnderWay
    <3> QED
      BY <2>1, <3>5, <3>6, NobodyDecided
  <2>4. ASSUME NEW c \in Clients, NEW a \in Approvals, CommandTimesOut(c, a) \/ DecideFails(c, a), ExpiresNow(a), Note(a, "expired")
        PROVE  write[w] = "timeout"
    <3>1. a = w /\ w \notin decided
      BY <2>2, <2>4 DEF ExpiresNow
    <3>2. call[c][w].at \in {"sent", "refused", "unsure"} /\ call'[c][w].at \in {"stray", "failed", "lost"}
      BY <1>1, <2>4, <3>1, FailedCall
    <3>3. call'[c][w].at = "failed"
      BY <3>2 DEF Unheard, Deciders
    <3>4. call[c][w].at = "refused"
      BY <1>1, <3>2, <3>3, CallsGoOn DEF Onward
    <3>5. Settled(w)
      BY <1>2, <3>1, <3>4 DEF Marked, UnderWay
    <3>6. \A d \in Clients : call[d][w].at # "no" => d = c
      BY <1>2, <3>4 DEF Contended, Deciders
    <3> QED
      BY <3>4, <3>5, <3>6, NobodyDecided
  <2>5. \A c \in Clients, a \in Approvals : ~(DecideReturns(c, a) /\ Note(a, Outcome(call[c][a].verdict)))
    <3>1. \A c \in Clients, a \in Approvals : Outcome(call[c][a].verdict) \in {"approved", "denied"}
      BY DEF DaemonTyped, Verdicts, Outcome
    <3> QED
      BY <2>2, <3>1
  <2>6. \A p \in Policies : ~(PolicyTimer(p) /\ Note(p, "expired"))
    BY <1>1, <2>2
  <2>7. notes' # notes
    BY <1>5
  <2> QED
    BY <2>3, <2>4, <2>5, <2>6, <2>7, StepsOfNotes, Zenon
<1> QED
  BY <1>3, <1>4, <1>5

\* An approval of a grant and a denial leave their mark on it, and a denial is final.
LEMMA GrantedNext ==
  ASSUME Inv, Next
  PROVE  Granted'
<1> USE DEF Inv
<1>1. \/ grant' = grant
      \/ \E p \in Policies : PolicyAsks(p)
      \/ \E c \in Clients, p \in Policies : PolicyDecides(c, p)
  BY StepsOfGrants, Zenon
<1>2. ASSUME NEW p \in Policies, NEW text \in {"approved", "denied"}, Stands(p, text)
      PROVE  Stands(p, text)'
  <2>1. ASSUME NEW q \in Policies, PolicyAsks(q) PROVE grant'[p] = grant[p]
    BY <1>2, <2>1 DEF PolicyAsks, Stands, ProxyTyped
  <2>2. ASSUME NEW c \in Clients, NEW q \in Policies, PolicyDecides(c, q) PROVE Stands(p, text)'
    <3>1. call[c][q].verdict \in {"allow", "deny"}
      BY DEF DaemonTyped, Approvals, Verdicts
    <3> QED
      BY <1>2, <2>2, <3>1 DEF PolicyDecides, Decidable, Outcome, Stands, ProxyTyped
  <2> QED
    BY <1>1, <1>2, <2>1, <2>2 DEF Stands
<1>3. ASSUME NEW p \in Policies, NEW c \in Clients, Took(c, p)'
      PROVE  Stands(p, Outcome(call[c][p].verdict))'
  <2>1. p \in Approvals /\ call[c][p].verdict \in {"allow", "deny"} /\ Outcome(call[c][p].verdict) \in {"approved", "denied"}
    BY DEF DaemonTyped, Approvals, Verdicts, Outcome
  <2>2. call[c][p].at # "no" => call'[c][p].verdict = call[c][p].verdict
    BY <2>1, CallsGoOn
  <2>3. CASE Took(c, p)
    <3>1. Stands(p, Outcome(call[c][p].verdict))
      BY <2>3 DEF Granted
    <3>2. call'[c][p].verdict = call[c][p].verdict
      BY <2>2, <2>3 DEF Took
    <3> QED
      BY <1>2, <2>1, <3>1, <3>2
  <2>4. CASE ~Took(c, p)
    <3>1. call[c][p].at = "sent" /\ PolicyDecides(c, p) /\ Decidable(p, call[c][p].verdict)
      BY <1>3, <2>1, <2>4, TakenBy
    <3>2. grant'[p] = Outcome(call[c][p].verdict)
      BY <3>1 DEF PolicyDecides, ProxyTyped
    <3> QED
      BY <2>1, <2>2, <3>1, <3>2 DEF Stands
  <2> QED
    BY <2>3, <2>4
<1>4. ASSUME NEW p \in Policies, NEW text \in notes'[p] \ {"expired"}
      PROVE  Stands(p, text)'
  <2>1. p \in Approvals /\ p \notin Writes /\ notes'[p] \subseteq {"approved", "denied", "expired"} /\ text \in {"approved", "denied"}
    <3>1. p \in Approvals /\ p \notin Writes
      BY ApprovalsAssumption DEF Approvals
    <3>2. notes'[p] \subseteq {"approved", "denied", "expired"}
      BY <3>1, NotesTyped
    <3> QED
      BY <3>1, <3>2
  <2>2. CASE text \in notes[p]
    BY <1>2, <2>1, <2>2 DEF Granted
  <2>3. CASE text \notin notes[p]
    <3>1. ASSUME NEW a \in Approvals, NEW t \in {"approved", "denied", "expired"}, Note(a, t)
          PROVE  a = p /\ t = text
      BY <2>1, <2>3, <3>1, NoteIs
    <3>2. \A a \in Approvals : ~Note(a, "expired")
      BY <2>1, <3>1
    <3>3. \E c \in Clients, a \in Approvals : DecideReturns(c, a) /\ Note(a, Outcome(call[c][a].verdict))
      BY <2>1, <2>3, <3>2, StepsOfNotes DEF DaemonTyped, Approvals
    <3>4. PICK c \in Clients, a \in Approvals : DecideReturns(c, a) /\ Note(a, Outcome(call[c][a].verdict))
      BY <3>3
    <3>5. Outcome(call[c][a].verdict) \in {"approved", "denied", "expired"}
      BY DEF DaemonTyped, Verdicts, Outcome
    <3>6. a = p /\ text = Outcome(call[c][a].verdict)
      BY <3>1, <3>4, <3>5
    <3>7. Took(c, p)
      BY <3>4, <3>6 DEF DecideReturns, Took
    <3> QED
      BY <1>2, <2>1, <3>6, <3>7 DEF Granted
  <2> QED
    BY <2>2, <2>3
<1> QED
  BY <1>3, <1>4 DEF Granted

(***************************************************************************)
(* The theorems.                                                           *)
(***************************************************************************)

\* Nothing is held, listed, decided or noted at first.
LEMMA InitInv == Init => Inv
<1> SUFFICES ASSUME Init PROVE Inv
  OBVIOUS
<1> USE DEF Init
<1>1. PendingMax \in Nat /\ MaxRare \in Nat /\ MaxNamed \in Nat
  BY ApprovalsAssumption
<1>2. Held = {} /\ Cardinality({}) = 0
  BY FS_EmptySet DEF Held
<1>3. ProxyTyped
  BY <1>1, <1>2 DEF ProxyTyped
<1>4. NoCall \in [verdict : Verdicts, at : UnderWay \cup {"no", "stray", "done", "failed", "lost"}] /\ NoCall.at = "no"
  BY DEF NoCall, Verdicts, UnderWay
<1>5. \A c \in Clients, a \in Approvals : call[c][a].at = "no"
  BY <1>4
<1>6. DaemonTyped
  BY <1>1, <1>4 DEF DaemonTyped
<1>7. \A a \in Approvals : notes[a] = {}
  OBVIOUS
<1>8. Writes \subseteq Approvals /\ Policies \subseteq Approvals
  BY DEF Approvals
<1>9. Ended /\ Told /\ MirrorFollows
  BY DEF Ended, Told, MirrorFollows
<1>10. Counted /\ Marked
  BY <1>5, <1>8 DEF Counted, Marked, Took, UnderWay
<1>11. Noted /\ Expired /\ Granted
  BY <1>5, <1>7, <1>8 DEF Noted, Expired, Granted, Took
<1> QED
  BY <1>3, <1>6, <1>9, <1>10, <1>11 DEF Inv

\* The invariant is a conjunction of state formulas about vars.
LEMMA StutterInv == Inv /\ UNCHANGED vars => Inv'
<1> SUFFICES ASSUME Inv, UNCHANGED vars PROVE Inv'
  OBVIOUS
<1> USE DEF Inv, vars, proxy, service, link, daemon
<1>1. ProxyTyped'
  BY DEF ProxyTyped, Held
<1>2. DaemonTyped'
  BY DEF DaemonTyped
<1>3. Ended' /\ Told' /\ MirrorFollows'
  BY DEF Ended, Told, Settled, MirrorFollows, WillBeListed, LinesOf, Held
<1>4. Counted' /\ Marked'
  BY DEF Counted, Took, Marked, Contended, Deciders, Ahead, Settled
<1>5. Noted' /\ Expired' /\ Granted'
  BY DEF Noted, Expired, Contended, Unheard, Deciders, Granted, Took, Stands
<1> QED
  BY <1>1, <1>2, <1>3, <1>4, <1>5

\* The invariant holds of every state of the system.
LEMMA Invariance == Spec => []Inv
<1>1. Inv /\ [Next]_vars => Inv'
  BY StutterInv, ProxyTypedNext, DaemonTypedNext, EndedNext, ToldNext, MirrorNext, CountedNext, MarkedNext, NotedNext,
     ExpiredNext, GrantedNext DEF Inv
<1> QED
  BY InitInv, <1>1, PTL DEF Spec

\* Every variable keeps its shape, the queue its limit, and marks the calls they stand for.
THEOREM ApprovalsTyped == Spec => []TypeOK
<1>1. Inv => TypeOK
  BY DEF Inv, ProxyTyped, DaemonTyped, TypeOK
<1> QED
  BY Invariance, <1>1, PTL

\* While the daemon watches, its list is the proxy's queue but for the lines it has yet to
\* read, for any number of writes, verdicts, broken streams and restarts.
THEOREM MirrorTrue == Spec => []MirrorFollows
<1>1. Inv => MirrorFollows
  BY DEF Inv
<1> QED
  BY Invariance, <1>1, PTL

\* set_result() of a held write is one client's verdict: the proxy takes in one verdict at most,
\* the future is that verdict, and only the timer takes it back.
THEOREM FirstVerdictCounts == Spec => []Counted
<1>1. Inv => Counted
  BY DEF Inv
<1> QED
  BY Invariance, <1>1, PTL

\* What a task's transcript says became of a write is what became of it, whoever decided and
\* whatever was lost on the way.
THEOREM NotesTrue == Spec => []NotesTellOutcome
<1>1. ASSUME Inv PROVE NotesTellOutcome
  <2> USE <1>1 DEF Inv
  <2>1. ASSUME NEW w \in Writes
        PROVE  /\ "approved" \in notes[w] => write[w] \in {"held", "approved", "timeout", "lost"}
               /\ "denied" \in notes[w] => write[w] \in {"held", "denied", "timeout", "lost"}
               /\ ~({"approved", "denied"} \subseteq notes[w])
    <3>1. \A c \in Clients : Took(c, w) => future[w] \in {call[c][w].verdict, "cancelled"}
      BY DEF Counted
    <3>2. "approved" \in notes[w] => \E c \in Clients : Took(c, w) /\ call[c][w].verdict = "allow"
      BY DEF Noted, Took
    <3>3. "denied" \in notes[w] => \E c \in Clients : Took(c, w) /\ call[c][w].verdict = "deny"
      BY DEF Noted, Took
    <3>4. "approved" \in notes[w] => write[w] \in {"held", "approved", "timeout", "lost"}
      BY <3>1, <3>2 DEF Ended, ProxyTyped
    <3>5. "denied" \in notes[w] => write[w] \in {"held", "denied", "timeout", "lost"}
      BY <3>1, <3>3 DEF Ended, ProxyTyped
    <3>6. ~({"approved", "denied"} \subseteq notes[w])
      BY <3>2, <3>3 DEF Counted
    <3> QED
      BY <3>4, <3>5, <3>6
  <2>2. \A w \in Writes : "expired" \in notes[w] /\ ~Contended(w) /\ ~Unheard(w) => write[w] = "timeout"
    BY DEF Expired
  <2>3. \A p \in Policies : /\ "approved" \in notes[p] => grant[p] \in {"approved", "denied"}
                            /\ "denied" \in notes[p] => grant[p] = "denied"
    BY DEF Granted, Stands
  <2> QED
    BY <2>1, <2>2, <2>3 DEF NotesTellOutcome
<1> QED
  BY Invariance, <1>1, PTL
===============================================================================
