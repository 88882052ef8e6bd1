------------------------- MODULE ConnectorWritesProofs -------------------------
(* Theorems about ConnectorWrites, for any requests, agents, contents and bounds. *)
EXTENDS ConnectorWrites, FiniteSetTheorems, WellFoundedInduction, TLAPS

(***************************************************************************)
(* The newest grant: what Max() gives.                                     *)
(***************************************************************************)

\* A set of some of the first n numbers has a greatest one, and Max() is it.
LEMMA MaxIs ==
  ASSUME NEW n \in Nat, NEW S \in SUBSET (1..n), S # {}
  PROVE  Max(S) \in S /\ \A y \in S : y <= Max(S)
<1> DEFINE T == {k \in Nat : n - k \in S}
<1>1. T # {}
  <2>1. PICK x \in S : TRUE
    OBVIOUS
  <2>2. n - x \in Nat /\ n - (n - x) = x
    BY <2>1
  <2> QED
    BY <2>1, <2>2
<1>2. PICK k \in T : \A j \in T : ~(<<j, k>> \in OpToRel(<, Nat))
  <2> HIDE DEF T
  <2>1. T \subseteq Nat
    BY DEF T
  <2> QED
    BY <1>1, <2>1, WFMin, NatLessThanWellFounded
<1>3. \A j \in T : ~(j < k)
  BY <1>2 DEF OpToRel
<1>4. n - k \in S /\ \A y \in S : n - k >= y
  <2>1. ASSUME NEW y \in S PROVE n - k >= y
    <3>1. n - y \in Nat /\ n - (n - y) = y
      OBVIOUS
    <3>2. n - y \in T
      BY <3>1
    <3> QED
      BY <3>2, <3>1, <1>3
  <2> QED
    BY <2>1
<1>5. Max(S) \in S /\ \A y \in S : Max(S) >= y
  BY <1>4 DEF Max
<1> QED
  BY <1>5

(***************************************************************************)
(* The inductive invariant, part by part.                                  *)
(***************************************************************************)

\* Grants are made one after the other.
FreeGrants == \A g \in Ids : g > made => grants[g] = NoGrant

\* Past prepare() the content of the request is frozen.
Prepared == at \notin {"idle", "prepare"} => action[who] \in Versions

\* The row of the request that is written has the outcome still before it.
Outcome ==
  /\ at \in {"authorize", "consume", "execute", "answer"} => effects[who] = 0
  /\ at = "answer" => verdict \in {"WAITING_APPROVAL", "FAILED"}
  /\ at = "mark" => /\ verdict \in {"SUCCEEDED", "UNKNOWN", "FAILED"}
                    /\ verdict = "SUCCEEDED" => effects[who] = 1
                    /\ verdict = "FAILED" => effects[who] = 0

Used == {g \in Ids : grants[g].state = "CONSUMED"}

\* A ticket that was taken and not used yet is still to pay.
Paid ==
  /\ IsFiniteSet(Carried)
  /\ Cardinality(Carried) + (IF at = "execute" THEN 1 ELSE 0) <= Cardinality(Used)

\* No grant is made for a content while an approval of it is pending or was given.
NewestOpen ==
  \A g, h \in Ids :
    /\ g < h /\ grants[g].live /\ grants[h].live
    /\ grants[g].agent = grants[h].agent /\ grants[g].version = grants[h].version
    => grants[g].state \notin {"PENDING", "APPROVED"}

\* A rule and the grants made under it change together.
UnderRule ==
  \A g \in Ids :
    /\ grants[g].live /\ grants[g].state = "PENDING" => Mode(grants[g].agent) = "ask"
    /\ grants[g].state = "APPROVED" => g \in approved
    /\ grants[g].live /\ grants[g].state = "ISSUED" /\ Mode(grants[g].agent) = "ask" => g \in approved

\* The ticket is for the request that is written.
TicketFits ==
  at = "consume" => grants[ticket].agent = AgentOf[who] /\ grants[ticket].version = action[who]

Typed == Types /\ FreeGrants /\ Prepared
IInv  == Typed /\ LedgerTells /\ Outcome /\ Paid /\ NewestOpen /\ UnderRule /\ TicketFits

(***************************************************************************)
(* Types.  Every action is a step of its own, in the order of Next.        *)
(***************************************************************************)

GrantType == [state : Open \cup {"none", "CONSUMED", "DENIED", "REVOKED", "EXPIRED"},
              agent : Agents \cup {Service}, version : Versions \cup {"none"}, live : BOOLEAN]

\* Past "idle" there is a request, and its agent is one.
LEMMA WhoIs ==
  ASSUME Types, at # "idle"
  PROVE  who \in Requests /\ AgentOf[who] \in Agents /\ who # NoRequest
BY WritesAssumption DEF Types

\* What authorize() marks as expired keeps everything else.
LEMMA SweptIs ==
  ASSUME Types
  PROVE  /\ Swept \in [Ids -> GrantType]
         /\ \A g \in Ids : /\ Swept[g].agent = grants[g].agent /\ Swept[g].version = grants[g].version
                           /\ Swept[g].live = grants[g].live
                           /\ Swept[g].state = IF grants[g].state \in Open /\ ~grants[g].live
                                               THEN "EXPIRED" ELSE grants[g].state
                           /\ grants[g].state \notin Open => Swept[g] = grants[g]
<1>1. grants \in [Ids -> GrantType]
  BY DEF Types, GrantType
<1>2. ASSUME NEW g \in Ids
      PROVE  /\ Swept[g] \in GrantType
             /\ Swept[g].agent = grants[g].agent /\ Swept[g].version = grants[g].version
             /\ Swept[g].live = grants[g].live
             /\ Swept[g].state = IF grants[g].state \in Open /\ ~grants[g].live
                                 THEN "EXPIRED" ELSE grants[g].state
             /\ grants[g].state \notin Open => Swept[g] = grants[g]
  BY <1>1, <1>2 DEF Swept, GrantType, Open
<1>3. Swept \in [Ids -> GrantType]
  <2>1. \A g \in Ids : Swept[g] \in GrantType
    BY <1>2
  <2>2. \A g \in Ids : Swept[g] = IF grants[g].state \in Open /\ ~grants[g].live
                                  THEN [grants[g] EXCEPT !.state = "EXPIRED"] ELSE grants[g]
    BY DEF Swept
  <2> QED
    BY <2>1, <2>2 DEF Swept
<1> QED
  BY <1>2, <1>3

\* What Grant() writes: the other grants are the swept ones.
LEMMA GrantIs ==
  ASSUME Types, at # "idle", action[who] \in Versions,
         NEW n \in Ids, NEW s \in {"ISSUED", "PENDING"}, Grant(n, s)
  PROVE  /\ grants' \in [Ids -> GrantType]
         /\ grants'[n].state = s /\ grants'[n].agent = AgentOf[who]
         /\ grants'[n].version = action[who] /\ grants'[n].live = TRUE
         /\ \A g \in Ids : g # n => grants'[g] = Swept[g]
<1>1. [state |-> s, agent |-> AgentOf[who], version |-> action[who], live |-> TRUE] \in GrantType
  BY WhoIs DEF GrantType, Open
<1> QED
  BY <1>1, SweptIs DEF Grant

\* The grants that authorize() finds were made, and Latest() is the newest of them.
LEMMA FoundIs ==
  ASSUME Typed, at # "idle"
  PROVE  /\ Found \in SUBSET (1..made)
         /\ Found # {} => Max(Found) \in Found /\ \A g \in Found : g <= Max(Found)
         /\ Latest(Found).state # "none" => Found # {}
         /\ Latest(Found).state = "none" => Found = {}
         /\ Found # {} => Latest(Found) = grants[Max(Found)]
<1>1. Found \in SUBSET (1..made)
  <2>1. ASSUME NEW g \in Found PROVE g \in 1..made
    <3>1. g \in Ids /\ grants[g].agent = AgentOf[who]
      BY DEF Found
    <3>2. grants[g] # NoGrant
      BY <3>1, WhoIs, WritesAssumption DEF Typed, NoGrant
    <3> QED
      BY <3>1, <3>2, WritesAssumption DEF Typed, Types, FreeGrants, Ids
  <2> QED
    BY <2>1
<1>2. Found # {} => Max(Found) \in Found /\ \A g \in Found : g <= Max(Found)
  <2>1. made \in Nat
    BY WritesAssumption DEF Typed, Types
  <2> HIDE DEF Found
  <2> QED
    BY <1>1, <2>1, MaxIs
<1>3. \A g \in Found : grants[g].state # "none"
  BY DEF Found
<1> QED
  BY <1>1, <1>2, <1>3 DEF Latest, NoGrant

\* What authorize() does to the grants: one grant n at most is written, an approved one that was
\* found or a new one, and the others are swept at most.
Authorized(n) ==
  /\ \A g \in Ids : g # n => grants'[g] \in {grants[g], Swept[g]}
  /\ n = 0 => at' = "answer" /\ made' = made /\ ticket' = ticket
  /\ n # 0 => /\ n \in Ids
              /\ grants'[n].agent = AgentOf[who] /\ grants'[n].version = action[who]
              /\ grants'[n].live = TRUE
              /\ \/ /\ grants'[n].state = "ISSUED" /\ at' = "consume" /\ ticket' = n
                    /\ verdict' = verdict
                    /\ \/ n \in Found /\ grants[n].state = "APPROVED" /\ made' = made
                       \/ n = made + 1 /\ made' = n /\ Mode(AgentOf[who]) = "auto"
                 \/ /\ grants'[n].state = "PENDING" /\ at' = "answer" /\ ticket' = ticket
                    /\ n = made + 1 /\ made' = n /\ Mode(AgentOf[who]) = "ask"
              /\ n = made + 1 => \A g \in Found :
                   /\ g <= Max(Found) /\ Max(Found) \in Found
                   /\ grants[Max(Found)].state = "PENDING" /\ Mode(AgentOf[who]) = "auto"

\* Authorize is one of the above.
LEMMA AuthorizeIs ==
  ASSUME Typed, Authorize
  PROVE  /\ grants' \in [Ids -> GrantType]
         /\ at' = "answer" => verdict' \in {"WAITING_APPROVAL", "FAILED"}
         /\ \E n \in Ids \cup {0} : Authorized(n)
<1> USE DEF Typed
<1>1. at = "authorize" /\ at # "idle" /\ action[who] \in Versions /\ made \in Nat
  BY WritesAssumption DEF Authorize, Prepared, Types
<1>2. grants \in [Ids -> GrantType] /\ Swept \in [Ids -> GrantType]
  BY SweptIs DEF Types, GrantType
<1>3. ASSUME Latest(Found).state = "APPROVED", ticket' = Max(Found), made' = made,
             Grant(ticket', "ISSUED"), at' = "consume", verdict' = verdict
      PROVE  grants' \in [Ids -> GrantType] /\ Max(Found) \in Ids /\ Authorized(Max(Found))
  <2>1. /\ Max(Found) \in Found /\ Max(Found) \in Ids /\ Max(Found) \in 1..made
        /\ grants[Max(Found)].state = "APPROVED"
    BY <1>1, <1>3, FoundIs DEF Found
  <2>2. Max(Found) # 0 /\ Max(Found) # made + 1
    BY <2>1, <1>1
  <2> QED
    BY <1>1, <1>3, <2>1, <2>2, GrantIs DEF Authorized
<1>4. ASSUME Latest(Found).state \in {"none", "PENDING"}, Mode(AgentOf[who]) = "auto",
             made < MaxGrants, ticket' = made + 1, made' = made + 1,
             Grant(ticket', "ISSUED"), at' = "consume", verdict' = verdict
      PROVE  grants' \in [Ids -> GrantType] /\ made + 1 \in Ids /\ Authorized(made + 1)
  <2>1. made + 1 \in Ids /\ made + 1 # 0
    BY <1>1, <1>4, WritesAssumption DEF Ids
  <2>2. \A g \in Found : /\ g <= Max(Found) /\ Max(Found) \in Found
                         /\ grants[Max(Found)].state = "PENDING"
    BY <1>1, <1>4, FoundIs
  <2> QED
    BY <1>1, <1>4, <2>1, <2>2, GrantIs DEF Authorized
<1>5. ASSUME Mode(AgentOf[who]) = "ask", grants' = Swept, made' = made, at' = "answer",
             ticket' = ticket
      PROVE  grants' \in [Ids -> GrantType] /\ Authorized(0)
  BY <1>2, <1>5 DEF Authorized, Ids
<1>6. ASSUME Mode(AgentOf[who]) = "ask", Latest(Found).state = "none", made < MaxGrants,
             made' = made + 1, Grant(made + 1, "PENDING"), at' = "answer", ticket' = ticket
      PROVE  grants' \in [Ids -> GrantType] /\ made + 1 \in Ids /\ Authorized(made + 1)
  <2>1. made + 1 \in Ids /\ made + 1 # 0
    BY <1>1, <1>6, WritesAssumption DEF Ids
  <2>2. Found = {}
    BY <1>1, <1>6, FoundIs
  <2> QED
    BY <1>1, <1>6, <2>1, <2>2, GrantIs DEF Authorized
<1>7. ASSUME grants' = grants, made' = made, at' = "answer", ticket' = ticket
      PROVE  grants' \in [Ids -> GrantType] /\ Authorized(0)
  BY <1>2, <1>7 DEF Authorized, Ids
<1>8. CASE Issue
  BY <1>8, <1>3, <1>4 DEF Issue
<1>9. CASE Wait
  BY <1>9, <1>5, <1>6 DEF Wait
<1>10. CASE Refuse
  BY <1>10, <1>7 DEF Refuse
<1> QED
  BY <1>8, <1>9, <1>10 DEF Authorize

\* The first state is typed.
LEMMA TypedInit == Init => Typed
<1> SUFFICES ASSUME Init PROVE Typed
  OBVIOUS
<1>1. grants \in [Ids -> GrantType]
  BY DEF Init, GrantType, NoGrant
<1>2. Types
  BY <1>1, WritesAssumption DEF Init, Types, GrantType, States, NoRequest
<1> QED
  BY <1>2 DEF Init, Typed, FreeGrants, Prepared

\* A step keeps every variable typed, makes grants in their order, and freezes the content.
LEMMA TypedNext == Typed /\ [Next]_vars => Typed'
<1> SUFFICES ASSUME Typed, [Next]_vars PROVE Typed'
  OBVIOUS
<1> USE DEF Typed, service, ledger, policy, history
<1>0. made \in Nat /\ MaxGrants \in Nat /\ MaxRare \in Nat /\ Ids = 1..MaxGrants
  BY WritesAssumption DEF Types, Ids
<1>a. NoGrant.state = "none" /\ NoGrant.live = FALSE /\ [NoGrant EXCEPT !.live = FALSE] = NoGrant
  <2>1. NoGrant \in GrantType /\ NoGrant.state = "none" /\ NoGrant.live = FALSE
    BY DEF NoGrant, GrantType
  <2>2. \A g \in GrantType : g.live = FALSE => [g EXCEPT !.live = FALSE] = g
    BY DEF GrantType
  <2> QED
    BY <2>1, <2>2
<1>1. ASSUME NEW r \in Requests, Call(r) PROVE Typed'
  <2>1. Kept \in [Requests -> Versions \cup {"none", "reserved"}]
    BY DEF Types, Kept
  <2>2. r # NoRequest /\ "reserved" \notin Versions /\ "none" \notin Versions
    BY WritesAssumption
  <2>3. Types'
    BY <1>1, <2>1, <2>2 DEF Types, Call
  <2> QED
    BY <1>1, <2>1, <2>2, <2>3 DEF Types, Call, FreeGrants, Prepared
<1>2. ASSUME Prepare PROVE Typed'
  <2>1. at # "idle" /\ who \in Requests
    BY <1>2, WhoIs DEF Prepare
  <2>2. Types'
    BY <1>2, <2>1 DEF Types, Prepare, Over, States
  <2> QED
    BY <1>2, <2>1, <2>2 DEF Types, Prepare, Over, FreeGrants, Prepared
<1>3. ASSUME Begin PROVE Typed'
  <2>1. at # "idle" /\ who \in Requests
    BY <1>3, WhoIs DEF Begin
  <2>2. Types'
    BY <1>3, <2>1 DEF Types, Begin, Over, States, Reserved
  <2> QED
    BY <1>3, <2>1, <2>2 DEF Types, Begin, Over, FreeGrants, Prepared
<1>4. ASSUME Authorize PROVE Typed'
  <2>1. PICK n \in Ids \cup {0} : Authorized(n)
    BY <1>4, AuthorizeIs
  <2>2. grants' \in [Ids -> GrantType] /\ (at' = "answer" => verdict' \in {"WAITING_APPROVAL", "FAILED"})
    BY <1>4, AuthorizeIs
  <2>3. at = "authorize" /\ ticket = 0 /\ who \in Requests
    BY <1>4, WhoIs DEF Authorize, Types
  <2>4. /\ at' \in {"consume", "answer"} /\ (at' = "consume" <=> ticket' # 0)
        /\ made' \in {made, n} /\ n <= made' /\ made <= made'
    <3>1. ASSUME n # 0, n \in Found PROVE n <= made
      BY <2>3, <3>1, FoundIs, <1>0
    <3> QED
      BY <2>1, <2>3, <3>1, <1>0 DEF Authorized
  <2>5. Types'
    <3>1. /\ made' \in 0..MaxGrants /\ ticket' \in 0..made' /\ approved \subseteq 1..made'
      <4>1. ticket' \in {0, n}
        BY <2>1, <2>3 DEF Authorized
      <4> QED
        BY <4>1, <2>4, <1>0 DEF Types
    <3>2. verdict' \in States
      BY <2>1, <2>2, <2>3 DEF Authorized, Types, States
    <3>3. UNCHANGED <<who, ready, ledger, rules, effects, approved, rare>>
      BY <1>4 DEF Authorize
    <3> QED
      BY <2>2, <2>3, <2>4, <3>1, <3>2, <3>3 DEF Types, GrantType
  <2>6. FreeGrants'
    <3>1. ASSUME NEW g \in Ids, g > made' PROVE grants'[g] = NoGrant
      <4>1. g > made /\ g # n
        BY <2>4, <3>1, <1>0
      <4>2. grants[g] = NoGrant /\ Swept[g] = NoGrant
        <5>1. grants[g] = NoGrant /\ grants[g].state = "none"
          BY <4>1, <1>a DEF FreeGrants
        <5> QED
          BY <5>1, SweptIs DEF Open
      <4> QED
        BY <4>1, <4>2, <2>1 DEF Authorized
    <3> QED
      BY <3>1 DEF FreeGrants
  <2> QED
    BY <1>4, <2>3, <2>5, <2>6 DEF Prepared, Authorize
<1>5. ASSUME Consume PROVE Typed'
  <2>1. at # "idle" /\ who \in Requests /\ ticket \in Ids
    BY <1>5, <1>0, WhoIs DEF Consume, Types
  <2>2. grants' \in [Ids -> GrantType]
    BY <1>5, <2>1 DEF Types, Consume, Spent, GrantType
  <2>3. Types'
    BY <1>5, <2>1, <2>2 DEF Types, Consume, States, GrantType
  <2>4. \A g \in Ids : g > made => grants'[g] = grants[g]
    BY <1>5, <2>1, <1>0 DEF Types, Consume, Spent
  <2> QED
    BY <1>5, <2>1, <2>3, <2>4 DEF Consume, FreeGrants, Prepared
<1>6. ASSUME Execute PROVE Typed'
  <2>1. at # "idle" /\ who \in Requests
    BY <1>6, WhoIs DEF Execute
  <2>2. Types'
    BY <1>6, <2>1 DEF Types, Execute, States
  <2> QED
    BY <1>6, <2>1, <2>2 DEF Execute, FreeGrants, Prepared
<1>7. ASSUME Mark PROVE Typed'
  <2>1. at # "idle" /\ who \in Requests
    BY <1>7, WhoIs DEF Mark
  <2>2. Types'
    BY <1>7, <2>1 DEF Types, Mark, Over, States
  <2> QED
    BY <1>7, <2>1, <2>2 DEF Mark, Over, FreeGrants, Prepared
<1>8. ASSUME NEW g \in Ids, NEW d \in {"APPROVED", "DENIED", "REVOKED"}, Decide(g, d) PROVE Typed'
  <2>1. grants' \in [Ids -> GrantType]
    BY <1>8 DEF Types, Decide, GrantType, Open
  <2>2. g \in 1..made
    BY <1>8, <1>0 DEF Decide, FreeGrants, NoGrant
  <2>3. approved' \subseteq 1..made
    BY <1>8, <2>2 DEF Decide, Types
  <2>4. Types'
    BY <1>8, <2>1, <2>3 DEF Types, Decide, GrantType
  <2>5. \A h \in Ids : h > made => grants'[h] = grants[h]
    BY <1>8, <2>2, <1>0 DEF Decide, Types
  <2> QED
    BY <1>8, <2>4, <2>5 DEF Decide, FreeGrants, Prepared
<1>9. ASSUME NEW p \in Agents \cup {Service}, NEW m \in Modes \cup {"none"}, SetRule(p, m) PROVE Typed'
  <2>1. grants' \in [Ids -> GrantType]
    <3>1. ASSUME NEW g \in Ids
          PROVE  /\ [Outdated(grants)[g] EXCEPT !.state = "REVOKED"] \in GrantType
                 /\ Outdated(grants)[g] \in GrantType
      <4>1. grants[g] \in GrantType
        BY DEF Types, GrantType
      <4> QED
        BY <4>1 DEF Outdated, GrantType
    <3> HIDE DEF GrantType
    <3> QED
      BY <1>9, <3>1 DEF SetRule, GrantsVoid
  <2>2. Types'
    BY <1>9, <2>1, <1>0 DEF Types, SetRule, GrantType
  <2>3. \A h \in Ids : grants[h] = NoGrant => grants'[h] = NoGrant
    BY <1>9, <1>a DEF SetRule, GrantsVoid, Outdated, Open
  <2> QED
    BY <1>9, <2>2, <2>3 DEF SetRule, FreeGrants, Prepared
<1>10. ASSUME PolicyLost \/ PolicyDenies PROVE Typed'
  <2>1. CASE PolicyLost
    BY <2>1, <1>0 DEF PolicyLost, Over, Types, FreeGrants, Prepared, States
  <2>2. CASE PolicyDenies
    <3>1. /\ at \in {"authorize", "consume", "execute", "answer"} /\ at' = "answer"
          /\ verdict' = "FAILED" /\ ticket' = 0
          /\ UNCHANGED <<who, ready, action, aged, run, rules, grants, made, effects, approved, rare>>
      BY <2>2 DEF PolicyDenies, Requiring, ledger, policy, history
    <3>2. ticket' \in 0..made' /\ verdict' \in States /\ (at' = "idle" <=> who' = NoRequest)
      BY <3>1, <1>0 DEF Types, States
    <3> QED
      BY <3>1, <3>2, <1>0 DEF Types, FreeGrants, Prepared
  <2> QED
    BY <1>10, <2>1, <2>2
<1>11. ASSUME grants' = Outdated(grants)
       PROVE  /\ grants' \in [Ids -> GrantType]
              /\ \A h \in Ids : grants[h] = NoGrant => grants'[h] = NoGrant
  <2>1. grants' \in [Ids -> GrantType]
    BY <1>11 DEF Types, Outdated, GrantType
  <2> QED
    BY <1>11, <1>a, <2>1 DEF Outdated
<1>12. ASSUME Restart PROVE Typed'
  <2>1. /\ grants' \in [Ids -> GrantType]
        /\ \A h \in Ids : grants[h] = NoGrant => grants'[h] = NoGrant
    BY <1>12, <1>11 DEF Restart, Types, GrantType
  <2>2. Recovered \in [Requests -> States]
    BY DEF Types, Recovered, States
  <2>3. Types'
    <3>1. run' \in [Requests -> States] /\ ready' \in BOOLEAN /\ rare' \in 0..MaxRare
      <4>1. run' \in {run, Recovered} /\ ready' \in BOOLEAN /\ rare < MaxRare /\ rare' = rare + 1
        BY <1>12 DEF Restart
      <4> QED
        BY <4>1, <2>2, <1>0 DEF Types
    <3>2. /\ at' = "idle" /\ who' = NoRequest /\ ticket' = 0 /\ verdict' = "none"
          /\ UNCHANGED <<action, aged, rules, made, effects, approved>>
      BY <1>12 DEF Restart, Over
    <3> QED
      BY <2>1, <3>1, <3>2, <1>0 DEF Types, GrantType, States
  <2> QED
    BY <1>12, <2>1, <2>3 DEF Restart, Over, FreeGrants, Prepared
<1>13. ASSUME WeekPasses PROVE Typed'
  <2>1. Types'
    BY <1>13, <1>11, <1>0 DEF Types, WeekPasses, GrantType
  <2> QED
    BY <1>13, <1>11, <2>1 DEF WeekPasses, FreeGrants, Prepared
<1>14. ASSUME NEW g \in Ids, Lapse(g) PROVE Typed'
  <2>1. grants' \in [Ids -> GrantType]
    BY <1>14 DEF Types, Lapse, GrantType
  <2>2. \A h \in Ids : grants[h] = NoGrant => grants'[h] = NoGrant
    BY <1>14, <1>a DEF Lapse, Types
  <2>3. Types'
    BY <1>14, <2>1 DEF Types, Lapse, GrantType
  <2> QED
    BY <1>14, <2>2, <2>3 DEF Lapse, FreeGrants, Prepared
<1>15. CASE UNCHANGED vars
  BY <1>15 DEF vars, Types, FreeGrants, Prepared
<1> QED
  BY <1>1, <1>2, <1>3, <1>4, <1>5, <1>6, <1>7, <1>8, <1>9, <1>10, <1>12, <1>13, <1>14, <1>15
     DEF Next, Write, People, Nature

\* Who is no authorize() makes no grant, extends none, and reopens none.
LEMMA OthersGrantNothing ==
  ASSUME Typed, [Next]_vars, ~Authorize
  PROVE  \A g \in Ids :
           /\ grants'[g].agent = grants[g].agent /\ grants'[g].version = grants[g].version
           /\ grants'[g].live => grants[g].live
           /\ grants'[g].state = "ISSUED" => grants[g].state = "ISSUED"
           /\ grants'[g].state = "PENDING" => grants[g].state = "PENDING"
           /\ grants'[g].state = "APPROVED" => grants[g].state \in {"PENDING", "APPROVED"}
<1> DEFINE Less(g) ==
      /\ grants'[g].agent = grants[g].agent /\ grants'[g].version = grants[g].version
      /\ grants'[g].live => grants[g].live
      /\ grants'[g].state = "ISSUED" => grants[g].state = "ISSUED"
      /\ grants'[g].state = "PENDING" => grants[g].state = "PENDING"
      /\ grants'[g].state = "APPROVED" => grants[g].state \in {"PENDING", "APPROVED"}
<1> SUFFICES \A g \in Ids : Less(g)
  OBVIOUS
<1> USE DEF Typed, Open, service, ledger, policy, history
<1>1. grants \in [Ids -> GrantType]
  BY DEF Types, GrantType
<1>2. ASSUME Consume PROVE \A g \in Ids : Less(g)
  BY <1>1, <1>2 DEF Consume, Spent, GrantType
<1>3. ASSUME NEW g \in Ids, NEW d \in {"APPROVED", "DENIED", "REVOKED"}, Decide(g, d)
      PROVE  \A h \in Ids : Less(h)
  BY <1>1, <1>3 DEF Decide, GrantType
<1>4. ASSUME NEW p \in Agents \cup {Service}, NEW m \in Modes \cup {"none"}, SetRule(p, m)
      PROVE  \A g \in Ids : Less(g)
  BY <1>1, <1>4 DEF SetRule, GrantsVoid, Outdated, GrantType
<1>5. ASSUME grants' \in {grants, Outdated(grants)} PROVE \A g \in Ids : Less(g)
  BY <1>1, <1>5 DEF Outdated, GrantType
<1>6. ASSUME NEW g \in Ids, Lapse(g) PROVE \A h \in Ids : Less(h)
  BY <1>1, <1>6 DEF Lapse, GrantType
<1>7. CASE \/ \E r \in Requests : Call(r)
           \/ Prepare \/ Begin \/ Execute \/ Mark \/ PolicyLost \/ PolicyDenies \/ Restart \/ WeekPasses
           \/ UNCHANGED vars
  <2>1. grants' \in {grants, Outdated(grants)}
    BY <1>7 DEF Call, Prepare, Begin, Execute, Mark, PolicyLost, PolicyDenies, Requiring, Restart, WeekPasses, vars
  <2> QED
    BY <2>1, <1>5
<1> QED
  BY <1>2, <1>3, <1>4, <1>6, <1>7 DEF Next, Write, People, Nature

\* The approvals that wait are finitely many, and are those that are live.
LEMMA PendingIs ==
  ASSUME Types
  PROVE  /\ Pending = {g \in Ids : grants[g].state = "PENDING" /\ grants[g].live}
         /\ IsFiniteSet(Pending) /\ Cardinality(Pending) \in Nat
<1>1. Pending = {g \in Ids : grants[g].state = "PENDING" /\ grants[g].live}
  BY SweptIs DEF Pending, Open, Types
<1>2. IsFiniteSet(Ids) /\ Pending \in SUBSET Ids
  BY FS_Interval, WritesAssumption DEF Ids, Pending
<1> QED
  BY <1>1, <1>2, FS_Subset, FS_CardinalityType

\* A grant that authorize() made and that waits adds one to the approvals, where there was room.
LEMMA PendingNext ==
  ASSUME Typed, [Next]_vars, Cardinality(Pending) <= MaxPending
  PROVE  Cardinality(Pending') <= MaxPending
<1> USE DEF Typed
<1>0. /\ Pending = {g \in Ids : grants[g].state = "PENDING" /\ grants[g].live}
      /\ Pending' = {g \in Ids : grants'[g].state = "PENDING" /\ grants'[g].live}
      /\ IsFiniteSet(Pending) /\ Cardinality(Pending) \in Nat
  <2>1. grants' \in [Ids -> GrantType]
    BY TypedNext DEF Types, GrantType
  <2>2. Pending' = {g \in Ids : grants'[g].state = "PENDING" /\ grants'[g].live}
    <3>1. ASSUME NEW g \in Ids
          PROVE  Swept'[g].state = "PENDING" <=> grants'[g].state = "PENDING" /\ grants'[g].live
      BY <2>1, <3>1 DEF Swept, GrantType, Open
    <3> QED
      BY <3>1 DEF Pending
  <2> QED
    BY <2>2, PendingIs
<1>1. ASSUME Pending' \subseteq Pending PROVE Cardinality(Pending') <= MaxPending
  <2>1. Cardinality(Pending') <= Cardinality(Pending) /\ Cardinality(Pending') \in Nat
    BY <1>0, <1>1, FS_Subset, FS_CardinalityType
  <2> QED
    BY <1>0, <2>1, WritesAssumption
<1>2. ASSUME NEW n \in Ids, Pending' \subseteq Pending \cup {n}, Cardinality(Pending) < MaxPending
      PROVE  Cardinality(Pending') <= MaxPending
  <2>1. /\ IsFiniteSet(Pending \cup {n})
        /\ Cardinality(Pending \cup {n}) = IF n \in Pending THEN Cardinality(Pending)
                                                            ELSE Cardinality(Pending) + 1
    BY <1>0, FS_AddElement
  <2>2. Cardinality(Pending') <= Cardinality(Pending \cup {n}) /\ Cardinality(Pending') \in Nat
    BY <1>2, <2>1, FS_Subset, FS_CardinalityType
  <2> QED
    BY <1>0, <1>2, <2>1, <2>2, WritesAssumption
<1>3. CASE ~Authorize
  BY <1>0, <1>1, <1>3, OthersGrantNothing
<1>4. CASE Authorize
  <2>1. PICK n \in Ids \cup {0} : Authorized(n)
    BY <1>4, AuthorizeIs
  <2>2. ASSUME NEW g \in Ids, g # n, g \in Pending' PROVE g \in Pending
    BY <1>0, <2>1, <2>2, SweptIs DEF Authorized, Open
  <2>3. CASE n \notin Pending'
    BY <1>0, <1>1, <2>2, <2>3
  <2>4. CASE n \in Pending'
    <3>1. n \in Ids /\ grants'[n].state = "PENDING"
      BY <1>0, <2>4
    <3>2. n # 0 /\ at' = "answer" /\ made' = made + 1
      BY <2>1, <3>1, WritesAssumption DEF Authorized, Ids
    <3>3. Cardinality(Pending) < MaxPending
      <4>1. made' # made
        BY <3>2, WritesAssumption DEF Types
      <4> QED
        BY <1>4, <3>2, <4>1 DEF Authorize, Issue, Wait, Refuse
    <3> QED
      BY <1>0, <1>2, <2>2, <3>1, <3>3
  <2> QED
    BY <2>3, <2>4
<1> QED
  BY <1>3, <1>4

\* Every variable of write(), its ledger and the policy service keeps its type, a request has a row
\* that says RUNNING from begin() to the end of its write, and no more approvals wait than may.
THEOREM WritesTyped == Spec => []TypeOK
<1> DEFINE Within == Cardinality(Pending) <= MaxPending
<1>1. Init => Within
  <2> SUFFICES ASSUME Init PROVE Within
    OBVIOUS
  <2>1. Pending = {}
    BY TypedInit, PendingIs DEF Init, NoGrant, Typed
  <2> QED
    BY <2>1, FS_EmptySet, WritesAssumption
<1>2. Typed /\ Within /\ [Next]_vars => Within'
  BY PendingNext
<1>3. Typed /\ Within => TypeOK
  BY DEF Typed, TypeOK
<1> HIDE DEF Within
<1> QED
  BY <1>1, <1>2, <1>3, TypedInit, TypedNext, PTL DEF Spec

(***************************************************************************)
(* The ledger.                                                             *)
(***************************************************************************)

\* Nothing but begin(), the end of a write and recover() touches a row, and only a call of the
\* remote service has an effect.
LEMMA LedgerNext == Typed /\ LedgerTells /\ Outcome /\ [Next]_vars => LedgerTells' /\ Outcome'
<1> SUFFICES ASSUME Typed, LedgerTells, Outcome, [Next]_vars PROVE LedgerTells' /\ Outcome'
  OBVIOUS
<1> USE DEF Typed, service, ledger, policy, history
<1>0. /\ run \in [Requests -> States] /\ effects \in [Requests -> Nat]
      /\ at # "idle" => who \in Requests
      /\ at \in {"authorize", "consume", "execute", "answer", "mark"} => run[who] = "RUNNING"
  BY WhoIs DEF Types
<1>1. ASSUME NEW r \in Requests, Call(r) PROVE LedgerTells' /\ Outcome'
  BY <1>1, <1>0 DEF Call, LedgerTells, Outcome
<1>2. ASSUME Prepare PROVE LedgerTells' /\ Outcome'
  BY <1>2, <1>0 DEF Prepare, Over, LedgerTells, Outcome
<1>3. ASSUME Begin PROVE LedgerTells' /\ Outcome'
  <2>1. CASE run' = run /\ at' = "idle"
    BY <1>3, <2>1, <1>0 DEF Begin, LedgerTells, Outcome
  <2>2. CASE MayRun(who) /\ run' = Reserved(who) /\ at' = "authorize" /\ who' = who
    <3>1. who \in Requests /\ effects[who] = 0 /\ effects' = effects
      BY <1>3, <2>2, <1>0 DEF Begin, LedgerTells, MayRun
    <3> QED
      BY <2>2, <3>1, <1>0 DEF Reserved, LedgerTells, Outcome
  <2> QED
    BY <1>3, <2>1, <2>2 DEF Begin, Over
<1>4. ASSUME Authorize PROVE LedgerTells' /\ Outcome'
  <2>1. /\ at = "authorize" /\ at' \in {"consume", "answer"}
        /\ at' = "answer" => verdict' \in {"WAITING_APPROVAL", "FAILED"}
        /\ UNCHANGED <<who, run, effects>>
    BY <1>4, AuthorizeIs DEF Authorize, Issue, Wait, Refuse
  <2> QED
    BY <2>1, <1>0 DEF LedgerTells, Outcome
<1>5. ASSUME Consume PROVE LedgerTells' /\ Outcome'
  BY <1>5, <1>0 DEF Consume, LedgerTells, Outcome
<1>6. ASSUME Execute PROVE LedgerTells' /\ Outcome'
  <2>1. who \in Requests /\ effects[who] = 0 /\ run[who] = "RUNNING" /\ run' = run /\ who' = who
    BY <1>6, <1>0 DEF Execute, Outcome
  <2>2. \A r \in Requests : r # who => effects'[r] = effects[r]
    BY <1>6, <2>1, <1>0 DEF Execute
  <2>3. effects'[who] \in {0, 1} /\ at' = "mark" /\ verdict' \in {"SUCCEEDED", "UNKNOWN", "FAILED"}
        /\ (verdict' = "SUCCEEDED" => effects'[who] = 1) /\ (verdict' = "FAILED" => effects'[who] = 0)
    BY <1>6, <2>1, <1>0 DEF Execute
  <2> QED
    BY <2>1, <2>2, <2>3 DEF LedgerTells, Outcome
<1>7. ASSUME Mark PROVE LedgerTells' /\ Outcome'
  <2>1. /\ who \in Requests /\ effects' = effects /\ at' = "idle"
        /\ verdict \in {"WAITING_APPROVAL", "FAILED"} => effects[who] = 0
        /\ verdict = "SUCCEEDED" => effects[who] = 1
        /\ verdict \in {"WAITING_APPROVAL", "SUCCEEDED", "UNKNOWN", "FAILED"}
    BY <1>7, <1>0 DEF Mark, Over, Outcome
  <2>2. run' = [run EXCEPT ![who] = verdict]
    BY <1>7 DEF Mark
  <2> QED
    BY <2>1, <2>2, <1>0 DEF LedgerTells, Outcome
<1>8. ASSUME Restart PROVE LedgerTells' /\ Outcome'
  <2>1. effects' = effects /\ at' = "idle" /\ run' \in {run, Recovered}
    BY <1>8 DEF Restart, Over
  <2> QED
    BY <2>1, <1>0 DEF Recovered, LedgerTells, Outcome
<1>9. CASE \/ \E g \in Ids, d \in {"APPROVED", "DENIED", "REVOKED"} : Decide(g, d)
           \/ \E p \in Agents \cup {Service}, m \in Modes \cup {"none"} : SetRule(p, m)
           \/ WeekPasses \/ (\E g \in Ids : Lapse(g)) \/ UNCHANGED vars
  <2>1. UNCHANGED <<at, who, verdict, run, effects>>
    BY <1>9 DEF Decide, SetRule, WeekPasses, Lapse, vars
  <2> QED
    BY <2>1 DEF LedgerTells, Outcome
<1>10. ASSUME PolicyLost \/ PolicyDenies PROVE LedgerTells' /\ Outcome'
  BY <1>10 DEF PolicyLost, PolicyDenies, Requiring, Over, LedgerTells, Outcome
<1> QED
  BY <1>1, <1>2, <1>3, <1>4, <1>5, <1>6, <1>7, <1>8, <1>9, <1>10 DEF Next, Write, People, Nature

\* What the ledger says of a request is true of its effects, whatever is repeated, lost or stopped.
THEOREM LedgerTrue == Spec => []LedgerTells
<1>1. Init => Typed /\ LedgerTells /\ Outcome
  BY TypedInit DEF Init, LedgerTells, Outcome
<1>2. Typed /\ LedgerTells /\ Outcome /\ [Next]_vars => (Typed /\ LedgerTells /\ Outcome)'
  BY TypedNext, LedgerNext
<1> QED
  BY <1>1, <1>2, PTL DEF Spec

(***************************************************************************)
(* Effects are paid for.                                                   *)
(***************************************************************************)

\* A grant that was made now was none before; authorize() uses none.
LEMMA AuthorizeUsesNone == Typed /\ Authorize => Used' = Used
<1> SUFFICES ASSUME Typed, Authorize PROVE Used' = Used
  OBVIOUS
<1> USE DEF Typed
<1>1. PICK n \in Ids \cup {0} : Authorized(n)
  BY AuthorizeIs
<1>2. ASSUME NEW g \in Ids, g # n
      PROVE  grants'[g].state = "CONSUMED" <=> grants[g].state = "CONSUMED"
  BY <1>1, <1>2, SweptIs DEF Authorized, Open
<1>3. ASSUME n \in Ids
      PROVE  grants'[n].state # "CONSUMED" /\ grants[n].state # "CONSUMED"
  <2>1. n # 0 /\ made \in Nat
    BY <1>3, WritesAssumption DEF Ids, Types
  <2>2. ASSUME n = made + 1 PROVE grants[n].state # "CONSUMED"
    BY <2>1, <2>2, <1>3 DEF FreeGrants, NoGrant
  <2> QED
    BY <2>1, <2>2, <1>1 DEF Authorized
<1> QED
  BY <1>2, <1>3 DEF Used

\* A person, a rule and the time leave a used grant used, and use none.
LEMMA OthersUseNone ==
  ASSUME Typed,
         \/ \E g \in Ids, d \in {"APPROVED", "DENIED", "REVOKED"} : Decide(g, d)
         \/ \E p \in Agents \cup {Service}, m \in Modes \cup {"none"} : SetRule(p, m)
         \/ Restart \/ WeekPasses \/ \E g \in Ids : Lapse(g)
  PROVE  Used' = Used
<1> USE DEF Typed, Open
<1>1. grants \in [Ids -> GrantType]
  BY DEF Types, GrantType
<1>2. ASSUME NEW g \in Ids, NEW d \in {"APPROVED", "DENIED", "REVOKED"}, Decide(g, d)
      PROVE  Used' = Used
  BY <1>1, <1>2 DEF Decide, Used, GrantType
<1>3. ASSUME NEW p \in Agents \cup {Service}, NEW m \in Modes \cup {"none"}, SetRule(p, m)
      PROVE  Used' = Used
  BY <1>1, <1>3 DEF SetRule, GrantsVoid, Outdated, Used, GrantType
<1>4. ASSUME grants' \in {grants, Outdated(grants)} PROVE Used' = Used
  BY <1>1, <1>4 DEF Outdated, Used, GrantType
<1>5. ASSUME NEW g \in Ids, Lapse(g) PROVE Used' = Used
  BY <1>1, <1>5 DEF Lapse, Used, GrantType
<1> QED
  BY <1>2, <1>3, <1>4, <1>5 DEF Restart, WeekPasses

\* A ticket is used once, for one call of the remote service.
LEMMA PaidNext == Typed /\ Paid /\ [Next]_vars => Paid'
<1> SUFFICES ASSUME Typed, Paid, [Next]_vars PROVE Paid'
  OBVIOUS
<1> USE DEF Typed, service, ledger, policy, history
<1>0. /\ IsFiniteSet(Used) /\ Cardinality(Used) \in Nat
      /\ IsFiniteSet(Carried) /\ Cardinality(Carried) \in Nat
  <2>1. IsFiniteSet(Ids) /\ Used \in SUBSET Ids
    BY FS_Interval, WritesAssumption DEF Ids, Used
  <2> QED
    BY <2>1, FS_Subset, FS_CardinalityType DEF Paid
<1>1. ASSUME Used' = Used, effects' = effects, at' = "execute" => at = "execute" PROVE Paid'
  BY <1>1, <1>0 DEF Paid, Carried
<1>2. ASSUME Consume PROVE Paid'
  <2>1. CASE ~Valid(ticket)
    BY <1>2, <2>1, <1>1 DEF Consume, Used
  <2>2. CASE Valid(ticket)
    <3>1. ticket \in Ids /\ ticket \notin Used /\ grants' = Spent(ticket) /\ at' = "execute" /\ at = "consume"
          /\ effects' = effects
      BY <1>2, <2>2, WritesAssumption DEF Consume, Types, Ids, Used, Valid
    <3>2. Used' = Used \cup {ticket}
      BY <3>1 DEF Used, Spent, Types
    <3>3. Cardinality(Used') = Cardinality(Used) + 1
      BY <3>1, <3>2, <1>0, FS_AddElement
    <3> QED
      BY <3>1, <3>3, <1>0 DEF Paid, Carried
  <2> QED
    BY <2>1, <2>2
<1>3. ASSUME Execute PROVE Paid'
  <2>1. at = "execute" /\ at' = "mark" /\ Used' = Used /\ who \in Requests /\ effects[who] \in Nat
    BY <1>3, WhoIs DEF Execute, Used, Types
  <2>2. CASE effects' = effects
    BY <2>1, <2>2, <1>1
  <2>3. CASE effects' = [effects EXCEPT ![who] = @ + 1]
    <3>1. Carried' = Carried \cup {<<who, effects[who] + 1>>}
      <4>1. effects'[who] = effects[who] + 1 /\ \A r \in Requests : r # who => effects'[r] = effects[r]
        BY <2>1, <2>3 DEF Types
      <4>2. 1..(effects[who] + 1) = 1..effects[who] \cup {effects[who] + 1}
        BY <2>1
      <4>3. ASSUME NEW x PROVE x \in Carried' <=> x \in Carried \/ x = <<who, effects[who] + 1>>
        BY <2>1, <4>1, <4>2 DEF Carried
      <4> QED
        BY <4>3
    <3>2. Cardinality(Carried') <= Cardinality(Carried) + 1 /\ IsFiniteSet(Carried')
      <4> DEFINE x == <<who, effects[who] + 1>>
      <4>1. /\ IsFiniteSet(Carried \cup {x})
            /\ Cardinality(Carried \cup {x}) \in {Cardinality(Carried), Cardinality(Carried) + 1}
        BY <1>0, FS_AddElement
      <4> QED
        BY <4>1, <3>1, <1>0
    <3> QED
      BY <2>1, <3>2, <1>0, FS_CardinalityType DEF Paid
  <2> QED
    BY <1>3, <2>2, <2>3 DEF Execute
<1>4. ASSUME Authorize PROVE Paid'
  <2>1. Used' = Used
    BY <1>4, AuthorizeUsesNone
  <2> QED
    BY <1>4, <2>1, <1>1 DEF Authorize, Issue, Wait, Refuse
<1>5. CASE (\E r \in Requests : Call(r)) \/ Prepare \/ Begin \/ Mark \/ PolicyLost \/ PolicyDenies \/ UNCHANGED vars
  BY <1>5, <1>1 DEF Call, Prepare, Begin, Mark, PolicyLost, PolicyDenies, Requiring, Over, vars, Used
<1>6. CASE \/ \E g \in Ids, d \in {"APPROVED", "DENIED", "REVOKED"} : Decide(g, d)
           \/ \E p \in Agents \cup {Service}, m \in Modes \cup {"none"} : SetRule(p, m)
           \/ Restart \/ WeekPasses \/ \E g \in Ids : Lapse(g)
  <2>1. Used' = Used
    BY <1>6, OthersUseNone
  <2> QED
    BY <1>6, <2>1, <1>1 DEF Decide, SetRule, Restart, Over, WeekPasses, Lapse
<1> QED
  BY <1>2, <1>3, <1>4, <1>5, <1>6 DEF Next, Write, People, Nature

\* Nothing is carried out twice on one grant, nor without one.
THEOREM EffectsPaid == Spec => []EffectsWithinGrants
<1>1. Init => Typed /\ Paid
  <2> SUFFICES ASSUME Init PROVE Paid
    BY TypedInit
  <2>1. Carried = {}
    BY DEF Init, Carried
  <2>2. Used = {}
    BY DEF Init, Used, NoGrant
  <2> QED
    BY <2>1, <2>2, FS_EmptySet DEF Init, Paid
<1>2. Typed /\ Paid /\ [Next]_vars => (Typed /\ Paid)'
  BY TypedNext, PaidNext
<1>3. Typed /\ Paid => EffectsWithinGrants
  <2> SUFFICES ASSUME Typed, Paid PROVE EffectsWithinGrants
    OBVIOUS
  <2>1. IsFiniteSet(Ids) /\ Used \in SUBSET Ids
    BY FS_Interval, WritesAssumption DEF Ids, Used
  <2>2. Cardinality(Carried) \in Nat /\ Cardinality(Used) \in Nat
    BY <2>1, FS_Subset, FS_CardinalityType DEF Paid
  <2> QED
    BY <2>2 DEF Paid, EffectsWithinGrants, Used
<1> QED
  BY <1>1, <1>2, <1>3, PTL DEF Spec

(***************************************************************************)
(* Approvals.                                                              *)
(***************************************************************************)

\* A rule that changes takes every open grant with it; a decision is recorded where it is given.
LEMMA RuleNext == Typed /\ UnderRule /\ [Next]_vars => UnderRule'
<1> SUFFICES ASSUME Typed, UnderRule, [Next]_vars PROVE UnderRule'
  OBVIOUS
<1> USE DEF Typed, Open, service, ledger, policy, history
<1>1. grants \in [Ids -> GrantType]
  BY DEF Types, GrantType
<1>2. ASSUME Authorize PROVE UnderRule'
  <2>1. PICK n \in Ids \cup {0} : Authorized(n)
    BY <1>2, AuthorizeIs
  <2>2. rules' = rules /\ approved' = approved /\ (n \in Ids => n # 0)
    BY <1>2, WritesAssumption DEF Authorize, Ids
  <2>3. ASSUME NEW g \in Ids, g # n
        PROVE  /\ grants'[g].live => grants[g].live
               /\ grants'[g].agent = grants[g].agent
               /\ grants'[g].state \in Open => grants'[g].state = grants[g].state
    BY <2>1, <2>3, SweptIs DEF Authorized
  <2>4. ASSUME n \in Ids
        PROVE  /\ grants'[n].state = "PENDING" => Mode(grants'[n].agent) = "ask"
               /\ grants'[n].state # "APPROVED"
               /\ grants'[n].state = "ISSUED" => n \in approved \/ Mode(grants'[n].agent) = "auto"
    BY <2>1, <2>2, <2>4 DEF Authorized, UnderRule
  <2>5. \A g \in Ids : g # n =>
          /\ grants'[g].live /\ grants'[g].state = "PENDING" => Mode(grants'[g].agent) = "ask"
          /\ grants'[g].state = "APPROVED" => g \in approved
          /\ grants'[g].live /\ grants'[g].state = "ISSUED" /\ Mode(grants'[g].agent) = "ask" => g \in approved
    BY <2>3 DEF UnderRule
  <2> QED
    BY <2>2, <2>4, <2>5 DEF UnderRule, Mode
<1>3. ASSUME ~Authorize, rules' = rules, approved' = approved,
             \A g \in Ids : grants'[g].state = "APPROVED" => grants[g].state = "APPROVED"
      PROVE  UnderRule'
  <2>1. \A g \in Ids : /\ grants'[g].agent = grants[g].agent
                       /\ grants'[g].live => grants[g].live
                       /\ grants'[g].state = "ISSUED" => grants[g].state = "ISSUED"
                       /\ grants'[g].state = "PENDING" => grants[g].state = "PENDING"
    BY <1>3, OthersGrantNothing
  <2> QED
    BY <1>3, <2>1 DEF UnderRule, Mode
<1>4. ASSUME NEW g \in Ids, NEW d \in {"APPROVED", "DENIED", "REVOKED"}, Decide(g, d)
      PROVE  UnderRule'
  BY <1>1, <1>4 DEF Decide, GrantType, UnderRule, Mode
<1>5. ASSUME NEW p \in Agents \cup {Service}, NEW m \in Modes \cup {"none"}, SetRule(p, m)
      PROVE  UnderRule'
  <2>1. \A g \in Ids : grants'[g].live = FALSE /\ grants'[g].state # "APPROVED"
    BY <1>1, <1>5 DEF SetRule, GrantsVoid, Outdated, GrantType
  <2> QED
    BY <2>1 DEF UnderRule
<1>6. ASSUME Consume PROVE UnderRule'
  <2>1. \A g \in Ids : grants'[g].state = "APPROVED" => grants[g].state = "APPROVED"
    BY <1>1, <1>6 DEF Consume, Spent, GrantType
  <2> QED
    BY <1>6, <2>1, <1>3 DEF Consume, Authorize
<1>7. CASE \/ \E r \in Requests : Call(r)
           \/ Prepare \/ Begin \/ Execute \/ Mark \/ PolicyLost \/ PolicyDenies \/ Restart \/ WeekPasses
           \/ (\E g \in Ids : Lapse(g)) \/ UNCHANGED vars
  <2>1. rules' = rules /\ approved' = approved
    BY <1>7 DEF Call, Prepare, Begin, Execute, Mark, PolicyLost, PolicyDenies, Requiring, Restart, WeekPasses, Lapse, vars
  <2>2. \A g \in Ids : grants'[g].state = "APPROVED" => grants[g].state = "APPROVED"
    BY <1>1, <1>7 DEF Call, Prepare, Begin, Execute, Mark, PolicyLost, PolicyDenies, Requiring, Restart, WeekPasses, Lapse, vars,
                      Outdated, GrantType
  <2>3. CASE Authorize
    BY <2>3, <1>2
  <2> QED
    BY <2>1, <2>2, <2>3, <1>3
<1> QED
  BY <1>2, <1>4, <1>5, <1>6, <1>7 DEF Next, Write, People, Nature

\* authorize() makes a grant only where no open one of the same content is.
LEMMA NewestNext == Typed /\ UnderRule /\ NewestOpen /\ [Next]_vars => NewestOpen'
<1> SUFFICES ASSUME Typed, UnderRule, NewestOpen, [Next]_vars PROVE NewestOpen'
  OBVIOUS
<1> USE DEF Typed, Open
<1>1. CASE Authorize
  <2>1. PICK n \in Ids \cup {0} : Authorized(n)
    BY <1>1, AuthorizeIs
  <2>2. made \in Nat /\ Ids \subseteq Nat \ {0} /\ Found \subseteq Ids
    BY WritesAssumption DEF Types, Ids, Found
  <2>3. ASSUME NEW g \in Ids, g # n
        PROVE  /\ grants'[g].live = grants[g].live
               /\ grants'[g].agent = grants[g].agent /\ grants'[g].version = grants[g].version
               /\ grants'[g].state \in {"PENDING", "APPROVED"} => grants'[g].state = grants[g].state
    BY <2>1, <2>3, SweptIs DEF Authorized
  <2>4. SUFFICES ASSUME NEW g \in Ids, NEW h \in Ids, g < h, grants'[g].live, grants'[h].live,
                        grants'[g].agent = grants'[h].agent, grants'[g].version = grants'[h].version,
                        grants'[g].state \in {"PENDING", "APPROVED"}
                 PROVE  FALSE
    BY DEF NewestOpen
  <2>5. CASE g # n /\ h # n
    BY <2>3, <2>4, <2>5 DEF NewestOpen
  <2>6. CASE g = n
    <3>1. n = made + 1 /\ h > made
      BY <2>1, <2>2, <2>4, <2>6 DEF Authorized
    <3>2. grants[h] = NoGrant
      BY <2>4, <3>1 DEF FreeGrants
    <3>3. ~grants[h].live
      BY <3>2 DEF NoGrant
    <3>4. h # n
      BY <2>2, <2>4, <2>6
    <3> QED
      BY <2>3, <2>4, <3>3, <3>4
  <2>7. CASE h = n
    <3>1. /\ g # n /\ grants[g].agent = AgentOf[who] /\ grants[g].version = action[who]
          /\ grants[g].live /\ grants[g].state \in {"PENDING", "APPROVED"}
      BY <2>1, <2>2, <2>3, <2>4, <2>7 DEF Authorized
    <3>2. CASE n \in Found
      BY <2>2, <2>4, <2>7, <3>1, <3>2 DEF NewestOpen, Found
    <3>3. CASE n = made + 1
      <4>1. g \in Found
        BY <3>1 DEF Found
      <4>2. /\ Max(Found) \in Found /\ grants[Max(Found)].state = "PENDING"
            /\ Mode(AgentOf[who]) = "auto"
        BY <2>1, <2>2, <3>3, <4>1 DEF Authorized
      <4>3. Max(Found) \in Ids /\ grants[Max(Found)].agent = AgentOf[who] /\ grants[Max(Found)].live
        BY <4>2 DEF Found
      <4> QED
        BY <4>2, <4>3 DEF UnderRule
    <3> QED
      BY <2>1, <2>2, <2>7, <3>2, <3>3 DEF Authorized
  <2> QED
    BY <2>5, <2>6, <2>7
<1>2. CASE ~Authorize
  BY <1>2, OthersGrantNothing DEF NewestOpen
<1> QED
  BY <1>1, <1>2

\* From authorize() to consume() nobody changes whose ticket it is.
LEMMA TicketNext == Typed /\ TicketFits /\ [Next]_vars => TicketFits'
<1> SUFFICES ASSUME Typed, TicketFits, [Next]_vars, at' = "consume"
             PROVE  /\ grants'[ticket'].agent = AgentOf[who'] /\ grants'[ticket'].version = action'[who']
  BY DEF TicketFits
<1> USE DEF Typed, service, ledger, policy, history
<1>1. CASE Authorize
  <2>1. PICK n \in Ids \cup {0} : Authorized(n)
    BY <1>1, AuthorizeIs
  <2> QED
    BY <1>1, <2>1 DEF Authorized, Authorize
<1>2. CASE ~Authorize
  <2>1. at = "consume" /\ UNCHANGED <<ticket, who, action>>
    BY <1>2 DEF Next, Write, People, Nature, Call, Prepare, Begin, Consume, Execute, Mark, PolicyLost, PolicyDenies, Requiring,
                Restart, Over, Decide, SetRule, WeekPasses, Lapse, vars
  <2>2. ticket \in Ids
    BY <2>1, WritesAssumption DEF Types, Ids
  <2> QED
    BY <1>2, <2>1, <2>2, OthersGrantNothing DEF TicketFits
<1> QED
  BY <1>1, <1>2

Approvals == Typed /\ UnderRule /\ NewestOpen /\ TicketFits

\* The three hold together from the start.
LEMMA ApprovalsAlways == Spec => []Approvals
<1>1. Init => Approvals
  BY TypedInit DEF Init, Approvals, UnderRule, NewestOpen, TicketFits, NoGrant
<1>2. Approvals /\ [Next]_vars => Approvals'
  BY TypedNext, RuleNext, NewestNext, TicketNext DEF Approvals
<1> QED
  BY <1>1, <1>2, PTL DEF Spec

\* The newest grant of a content is the one that a person has to decide or has approved: to look
\* at that one only, as authorize() does, overlooks no decision.
THEOREM ApprovalsFound == Spec => []ApprovalFound
<1>1. Approvals => ApprovalFound
  BY DEF Approvals, NewestOpen, ApprovalFound
<1> QED
  BY <1>1, ApprovalsAlways, PTL

\* A grant is used by consume() only, and is the ticket of the request that is written.
LEMMA UsedByConsume ==
  ASSUME Typed, [Next]_vars, NEW g \in Ids,
         grants[g].state # "CONSUMED", grants'[g].state = "CONSUMED"
  PROVE  Consume /\ Valid(ticket) /\ g = ticket
<1>1. Used' # Used
  BY DEF Used
<1>2. Consume /\ Valid(ticket) /\ grants' = Spent(ticket)
  <2>1. CASE Authorize
    BY <1>1, <2>1, AuthorizeUsesNone
  <2>2. CASE \/ \E h \in Ids, d \in {"APPROVED", "DENIED", "REVOKED"} : Decide(h, d)
             \/ \E p \in Agents \cup {Service}, m \in Modes \cup {"none"} : SetRule(p, m)
             \/ Restart \/ WeekPasses \/ \E h \in Ids : Lapse(h)
    BY <1>1, <2>2, OthersUseNone
  <2>3. CASE \/ \E r \in Requests : Call(r)
             \/ Prepare \/ Begin \/ Execute \/ Mark \/ PolicyLost \/ PolicyDenies \/ UNCHANGED vars
    BY <1>1, <2>3 DEF Call, Prepare, Begin, Execute, Mark, PolicyLost, PolicyDenies, Requiring, vars, policy, Used
  <2>4. CASE Consume
    BY <1>1, <2>4 DEF Consume, Used
  <2> QED
    BY <2>1, <2>2, <2>3, <2>4 DEF Next, Write, People, Nature
<1>3. at = "consume" /\ ticket \in Ids
  BY <1>2, WritesAssumption DEF Consume, Typed, Types, Ids
<1> QED
  BY <1>2, <1>3 DEF Spent, Typed, Types

\* A ticket that is used under the rule to ask is of an approval that a person gave, and is for the
\* content and the agent of the request that uses it.
THEOREM TicketsApproved == Spec => AskMeansApproved
<1>1. ASSUME Approvals, [Next]_vars, NEW g \in Ids,
             grants[g].state # "CONSUMED", grants'[g].state = "CONSUMED"
      PROVE  /\ Mode(grants[g].agent) = "ask" => g \in approved
             /\ grants[g].version = action[who] /\ grants[g].agent = AgentOf[who]
  BY <1>1, UsedByConsume DEF Consume, Approvals, UnderRule, TicketFits, Valid
<1>2. Approvals /\ [Next]_vars =>
        [\A g \in Ids :
           grants[g].state # "CONSUMED" /\ grants'[g].state = "CONSUMED" =>
             /\ Mode(grants[g].agent) = "ask" => g \in approved
             /\ grants[g].version = action[who] /\ grants[g].agent = AgentOf[who]]_vars
  BY <1>1
<1> QED
  BY <1>2, ApprovalsAlways, PTL DEF Spec, AskMeansApproved

(***************************************************************************)
(* Effects are paid for agent by agent: no request is carried out on a     *)
(* grant that another agent was given.                                     *)
(***************************************************************************)

\* Every time that a request of the agent was carried out, and the grants it used.
CarriedBy(a) == UNION {{r} \X (1..effects[r]) : r \in {q \in Requests : AgentOf[q] = a}}
UsedBy(a)    == {g \in Used : grants[g].agent = a}

\* The grants of the agent that a person approved.
ApprovedFor(a) == {g \in approved : grants[g].agent = a}

\* Used grants are finitely many.
LEMMA UsedByFinite == ASSUME NEW a PROVE IsFiniteSet(UsedBy(a)) /\ Cardinality(UsedBy(a)) \in Nat
<1>1. IsFiniteSet(Ids)
  BY FS_Interval, WritesAssumption DEF Ids
<1>2. UsedBy(a) \in SUBSET Ids
  BY DEF UsedBy, Used
<1> QED
  BY <1>1, <1>2, FS_Subset, FS_CardinalityType

PaidBy(a) ==
  /\ IsFiniteSet(CarriedBy(a))
  /\ Cardinality(CarriedBy(a)) + (IF at = "execute" /\ AgentOf[who] = a THEN 1 ELSE 0)
       <= Cardinality(UsedBy(a))

\* Nobody changes whose grant a used one is.
LEMMA UsedByStays ==
  ASSUME Typed, [Next]_vars, Used' = Used, NEW a
  PROVE  UsedBy(a)' = UsedBy(a)
<1>1. ASSUME NEW g \in Used PROVE grants'[g].agent = grants[g].agent
  <2>1. g \in Ids /\ grants[g].state = "CONSUMED" /\ grants'[g].state = "CONSUMED"
    BY <1>1 DEF Used
  <2>2. CASE Authorize
    <3>1. PICK n \in Ids \cup {0} : Authorized(n)
      BY <2>2, AuthorizeIs
    <3>2. g # n
      BY <2>1, <3>1, WritesAssumption DEF Authorized, Ids
    <3> QED
      BY <2>1, <3>1, <3>2, SweptIs DEF Authorized, Typed
  <2>3. CASE ~Authorize
    BY <2>1, <2>3, OthersGrantNothing
  <2> QED
    BY <2>2, <2>3
<1> QED
  BY <1>1 DEF UsedBy

\* consume() uses the ticket of the request that is written, which its agent was given.
LEMMA PaidByNext ==
  ASSUME Typed, TicketFits, [Next]_vars, NEW a \in Agents, PaidBy(a)
  PROVE  PaidBy(a)'
<1> USE DEF Typed, service, ledger, policy, history
<1>0. /\ IsFiniteSet(UsedBy(a)) /\ Cardinality(UsedBy(a)) \in Nat
      /\ IsFiniteSet(CarriedBy(a)) /\ Cardinality(CarriedBy(a)) \in Nat
  BY UsedByFinite, FS_CardinalityType DEF PaidBy
<1>1. ASSUME Used' = Used, effects' = effects, at' = "execute" => at = "execute" /\ who' = who
      PROVE  PaidBy(a)'
  <2>1. UsedBy(a)' = UsedBy(a) /\ CarriedBy(a)' = CarriedBy(a)
    BY <1>1, UsedByStays DEF CarriedBy
  <2> QED
    BY <1>0, <1>1, <2>1 DEF PaidBy
<1>2. ASSUME Consume PROVE PaidBy(a)'
  <2>1. CASE ~Valid(ticket)
    BY <1>2, <2>1, <1>1 DEF Consume, Used
  <2>2. CASE Valid(ticket)
    <3>1. /\ ticket \in Ids /\ ticket \notin Used /\ grants' = Spent(ticket)
          /\ at' = "execute" /\ at = "consume" /\ who' = who /\ effects' = effects
      BY <1>2, <2>2, WritesAssumption DEF Consume, Types, Ids, Used, Valid
    <3>2. grants[ticket].agent = AgentOf[who]
      BY <3>1 DEF TicketFits
    <3>3. UsedBy(a)' = IF AgentOf[who] = a THEN UsedBy(a) \cup {ticket} ELSE UsedBy(a)
      <4>1. /\ Used' = Used \cup {ticket}
            /\ \A g \in Ids : grants'[g].agent = grants[g].agent
        BY <3>1 DEF Used, Spent, Types
      <4> QED
        BY <3>1, <3>2, <4>1 DEF UsedBy, Used
    <3>4. CarriedBy(a)' = CarriedBy(a)
      BY <3>1 DEF CarriedBy
    <3>5. CASE AgentOf[who] = a
      <4>1. UsedBy(a)' = UsedBy(a) \cup {ticket} /\ ticket \notin UsedBy(a)
        BY <3>1, <3>3, <3>5 DEF UsedBy
      <4>2. Cardinality(UsedBy(a)') = Cardinality(UsedBy(a)) + 1
        BY <4>1, <1>0, FS_AddElement
      <4> QED
        BY <3>1, <3>4, <3>5, <4>2, <1>0 DEF PaidBy
    <3>6. CASE AgentOf[who] # a
      BY <3>1, <3>3, <3>4, <3>6, <1>0 DEF PaidBy
    <3> QED
      BY <3>5, <3>6
  <2> QED
    BY <2>1, <2>2
<1>3. ASSUME Execute PROVE PaidBy(a)'
  <2>1. /\ at = "execute" /\ at' = "mark" /\ who \in Requests /\ effects[who] \in Nat
        /\ grants' = grants /\ Used' = Used
    BY <1>3, WhoIs DEF Execute, Used, Types
  <2>2. CASE effects' = effects
    BY <2>1, <2>2, <1>1
  <2>3. CASE effects' = [effects EXCEPT ![who] = @ + 1]
    <3> DEFINE x == <<who, effects[who] + 1>>
    <3>1. effects'[who] = effects[who] + 1 /\ \A r \in Requests : r # who => effects'[r] = effects[r]
      BY <2>1, <2>3 DEF Types
    <3>2. UsedBy(a)' = UsedBy(a)
      BY <2>1, UsedByStays
    <3>3. CASE AgentOf[who] = a
      <4>1. 1..(effects[who] + 1) = 1..effects[who] \cup {effects[who] + 1}
        BY <2>1
      <4>2. ASSUME NEW y PROVE y \in CarriedBy(a)' <=> y \in CarriedBy(a) \/ y = x
        BY <2>1, <3>1, <3>3, <4>1 DEF CarriedBy
      <4>3. CarriedBy(a)' = CarriedBy(a) \cup {x}
        BY <4>2
      <4> HIDE DEF x
      <4>4. /\ IsFiniteSet(CarriedBy(a) \cup {x})
            /\ Cardinality(CarriedBy(a) \cup {x}) \in {Cardinality(CarriedBy(a)), Cardinality(CarriedBy(a)) + 1}
        BY <1>0, FS_AddElement
      <4> QED
        BY <2>1, <3>2, <3>3, <4>3, <4>4, <1>0 DEF PaidBy
    <3>4. CASE AgentOf[who] # a
      <4>1. CarriedBy(a)' = CarriedBy(a)
        BY <3>1, <3>4 DEF CarriedBy
      <4> QED
        BY <2>1, <3>2, <4>1, <1>0 DEF PaidBy
    <3> QED
      BY <3>3, <3>4
  <2> QED
    BY <1>3, <2>2, <2>3 DEF Execute
<1>4. CASE Authorize
  <2>1. Used' = Used
    BY <1>4, AuthorizeUsesNone
  <2> QED
    BY <1>4, <2>1, <1>1 DEF Authorize, Issue, Wait, Refuse
<1>5. CASE (\E r \in Requests : Call(r)) \/ Prepare \/ Begin \/ Mark \/ PolicyLost \/ PolicyDenies \/ UNCHANGED vars
  BY <1>5, <1>1 DEF Call, Prepare, Begin, Mark, PolicyLost, PolicyDenies, Requiring, Over, vars, Used
<1>6. CASE \/ \E g \in Ids, d \in {"APPROVED", "DENIED", "REVOKED"} : Decide(g, d)
           \/ \E p \in Agents \cup {Service}, m \in Modes \cup {"none"} : SetRule(p, m)
           \/ Restart \/ WeekPasses \/ \E g \in Ids : Lapse(g)
  <2>1. Used' = Used
    BY <1>6, OthersUseNone
  <2> QED
    BY <1>6, <2>1, <1>1 DEF Decide, SetRule, Restart, Over, WeekPasses, Lapse
<1> QED
  BY <1>2, <1>3, <1>4, <1>5, <1>6 DEF Next, Write, People, Nature

\* Before anything is carried out nothing is owed.
LEMMA PaidByInit == ASSUME Init, NEW a PROVE PaidBy(a)
<1>1. CarriedBy(a) = {}
  BY DEF Init, CarriedBy
<1>2. UsedBy(a) = {}
  BY DEF Init, UsedBy, Used, NoGrant
<1> QED
  BY <1>1, <1>2, FS_EmptySet DEF Init, PaidBy

\* Each agent's effects stay paid for.
LEMMA AgentsPay == ASSUME NEW a \in Agents PROVE Spec => []PaidBy(a)
<1>1. Init => PaidBy(a)
  BY PaidByInit
<1>2. Approvals /\ PaidBy(a) /\ [Next]_vars => PaidBy(a)'
  BY PaidByNext DEF Approvals
<1> QED
  BY <1>1, <1>2, ApprovalsAlways, PTL DEF Spec

\* Each agent pays for its own: however requests repeat, calls get lost and grants with the same
\* content are shared, its requests had no more effects than the grants it used (require, write).
THEOREM AgentsPayTheirOwn ==
  ASSUME NEW a \in Agents
  PROVE  Spec => [](Cardinality(CarriedBy(a)) <= Cardinality(UsedBy(a)))
<1>1. PaidBy(a) => Cardinality(CarriedBy(a)) <= Cardinality(UsedBy(a))
  <2>1. ASSUME IsFiniteSet(CarriedBy(a)) PROVE Cardinality(CarriedBy(a)) \in Nat
    BY <2>1, FS_CardinalityType
  <2>2. Cardinality(UsedBy(a)) \in Nat
    BY UsedByFinite
  <2> QED
    BY <2>1, <2>2 DEF PaidBy
<1> QED
  BY <1>1, AgentsPay, PTL

\* While the rule for an agent is to ask, every grant it uses is one that a person approved.
LEMMA UsedAreApproved ==
  ASSUME NEW a \in Agents
  PROVE  Spec /\ [](Mode(a) = "ask") => [](UsedBy(a) \subseteq approved)
<1> DEFINE Asks == Mode(a) = "ask"
           Given == UsedBy(a) \subseteq approved
<1>1. Init => Given
  BY DEF Init, UsedBy, Used, NoGrant
<1>2. Approvals /\ Asks /\ Given /\ [Next]_vars => Given'
  <2> SUFFICES ASSUME Approvals, Asks, Given, [Next]_vars, NEW g \in UsedBy(a)' PROVE g \in approved'
    OBVIOUS
  <2>1. Typed /\ g \in Ids /\ grants'[g].state = "CONSUMED" /\ grants'[g].agent = a
    BY DEF Approvals, UsedBy, Used
  <2>2. approved \subseteq approved'
    BY DEF Next, Write, People, Nature, Call, Prepare, Begin, Authorize, Consume, Execute, Mark, PolicyLost, PolicyDenies, Requiring,
           Restart, Decide, SetRule, WeekPasses, Lapse, vars, history
  <2>3. CASE grants[g].state # "CONSUMED"
    <3>1. Consume /\ Valid(ticket) /\ g = ticket
      BY <2>1, <2>3, UsedByConsume
    <3>2. grants[g].agent = a
      BY <2>1, <3>1, OthersGrantNothing DEF Consume, Authorize
    <3>3. g \in approved
      BY <2>1, <3>1, <3>2 DEF Approvals, UnderRule, Valid
    <3> QED
      BY <2>2, <3>3
  <2>4. CASE grants[g].state = "CONSUMED"
    <3>1. grants[g].agent = a
      <4>1. CASE ~Authorize
        BY <2>1, <4>1, OthersGrantNothing
      <4>2. CASE Authorize
        <5>1. PICK n \in Ids \cup {0} : Authorized(n)
          BY <2>1, <4>2, AuthorizeIs
        <5>2. g # n
          BY <2>1, <5>1, WritesAssumption DEF Authorized, Ids
        <5> QED
          BY <2>1, <5>1, <5>2, SweptIs DEF Authorized, Typed
      <4> QED
        BY <4>1, <4>2
    <3> QED
      BY <2>1, <2>2, <2>4, <3>1 DEF UsedBy, Used
  <2> QED
    BY <2>3, <2>4
<1> HIDE DEF Asks, Given
<1>3. Spec /\ []Asks => []Given
  BY <1>1, <1>2, ApprovalsAlways, PTL DEF Spec
<1> QED
  BY <1>3 DEF Asks, Given

\* An agent whose rule is to ask, as X and Reddit are by default, never has more effects than a
\* person approved: "Approval applies only to that exact content", and once.
THEOREM AskedBeforeEveryEffect ==
  ASSUME NEW a \in Agents
  PROVE  Spec /\ [](Mode(a) = "ask") => [](Cardinality(CarriedBy(a)) <= Cardinality(ApprovedFor(a)))
<1>1. Approvals /\ PaidBy(a) /\ UsedBy(a) \subseteq approved
        => Cardinality(CarriedBy(a)) <= Cardinality(ApprovedFor(a))
  <2> SUFFICES ASSUME Approvals, PaidBy(a), UsedBy(a) \subseteq approved
               PROVE  Cardinality(CarriedBy(a)) <= Cardinality(ApprovedFor(a))
    OBVIOUS
  <2>1. IsFiniteSet(ApprovedFor(a)) /\ Cardinality(ApprovedFor(a)) \in Nat
    <3>1. made \in Nat /\ approved \subseteq 1..made
      BY WritesAssumption DEF Approvals, Typed, Types
    <3>2. IsFiniteSet(1..made)
      BY <3>1, FS_Interval
    <3>3. ApprovedFor(a) \in SUBSET (1..made)
      BY <3>1 DEF ApprovedFor
    <3> QED
      BY <3>2, <3>3, FS_Subset, FS_CardinalityType
  <2>2. UsedBy(a) \subseteq ApprovedFor(a)
    BY DEF UsedBy, ApprovedFor
  <2>3. Cardinality(UsedBy(a)) <= Cardinality(ApprovedFor(a)) /\ Cardinality(UsedBy(a)) \in Nat
    BY <2>1, <2>2, FS_Subset, UsedByFinite
  <2>4. Cardinality(CarriedBy(a)) \in Nat
    BY FS_CardinalityType DEF PaidBy
  <2>5. Cardinality(CarriedBy(a)) <= Cardinality(UsedBy(a))
    BY <2>3, <2>4 DEF PaidBy
  <2> QED
    BY <2>1, <2>3, <2>4, <2>5
<1> QED
  BY <1>1, UsedAreApproved, ApprovalsAlways, AgentsPay, PTL
===============================================================================
