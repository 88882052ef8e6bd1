---------------------------- MODULE ConnectorWrites ----------------------------
(***************************************************************************)
(* Writes through a connector service: write() of connector_base.py with   *)
(* its request ledger (ledger.py), and the grants of the policy service    *)
(* (policy.py).  The service handles one request at a time and may stop    *)
(* anywhere; a call of the policy service may get lost; people decide      *)
(* approvals and change rules meanwhile (policy_admin.py).                 *)
(*                                                                         *)
(* A step is one transaction, one call of the policy service or one call   *)
(* of the remote service.  A transaction that raises is rolled back, so a  *)
(* refusal that leads nowhere is no step.                                  *)
(***************************************************************************)
EXTENDS Naturals, FiniteSetsExt

CONSTANTS
  Requests,     \* request ids
  Agents,       \* principals of agents ("notion:dev")
  Service,      \* principal of the connector ("notion")
  AgentOf,      \* whose request it is
  Versions,     \* what prepare() may make of a request: the content that is frozen
  DefaultMode,  \* "ask" for X and Reddit, else "auto"
  MaxPending,   \* approvals that may wait at a time
  MaxGrants,    \* bound: grants
  MaxRare       \* bound: rule changes, restarts, lost calls, weeks

Modes == {"auto", "ask"}
Ids   == 1..MaxGrants
NoRequest == "none"

ASSUME WritesAssumption ==
  /\ {MaxPending, MaxGrants, MaxRare} \subseteq Nat
  /\ NoRequest \notin Requests /\ Service \notin Agents /\ AgentOf \in [Requests -> Agents]
  /\ DefaultMode \in Modes
  /\ Versions \cap {"none", "reserved"} = {}

VARIABLES
  \* ---- the connector service ----
  at,       \* where write() is: "idle", "prepare", "begin", ... for the request `who`
  who,
  ticket,   \* the grant it holds, 0 for none
  verdict,  \* the state it is about to record
  ready,    \* writes_ready: the ledger was recovered
  \* ---- its ledger ----
  action,   \* actions: "none", "reserved" while it is prepared, or the frozen content
  aged,     \* actions that are older than a week
  run,      \* runs: "none" or the state
  \* ---- the policy service ----
  rules,    \* rules: "none" or a mode, by principal
  grants,   \* grants: state, agent, version, and whether it is of this epoch and boot, and its
            \* time has not run out (live)
  made,     \* number of grants so far
  \* ---- for the properties ----
  effects,  \* how often each request was carried out
  approved, \* grants that a person approved
  rare

service == <<at, who, ticket, verdict, ready>>
ledger  == <<action, aged, run>>
policy  == <<rules, grants, made>>
history == <<effects, approved>>
vars    == <<service, ledger, policy, history, rare>>

Open    == {"PENDING", "APPROVED", "ISSUED"}
NoGrant == [state |-> "none", agent |-> Service, version |-> "none", live |-> FALSE]

Init ==
  /\ at = "idle" /\ who = NoRequest /\ ticket = 0 /\ verdict = "none" /\ ready = TRUE
  /\ action = [r \in Requests |-> "none"] /\ aged = {}
  /\ run = [r \in Requests |-> "none"]
  /\ rules = [p \in Agents \cup {Service} |-> "none"]
  /\ grants = [g \in Ids |-> NoGrant] /\ made = 0
  /\ effects = [r \in Requests |-> 0] /\ approved = {}
  /\ rare = 0
-------------------------------------------------------------------------------
(* write(): freeze() and begin() *)

\* write() returns or raises.
Over == at' = "idle" /\ who' = NoRequest /\ ticket' = 0 /\ verdict' = "none"

Kept == [r \in Requests |-> IF r \in aged THEN "none" ELSE action[r]]

\* An id is new if neither its content nor its run is on record.
Unknown(r) == Kept[r] = "none" /\ run[r] = "none"

\* A call with a request id, new or repeated.  An id is reserved before it is prepared; one that
\* is being prepared, or ran and was purged, is refused.  The day's limit may refuse a new one.
Call(r) ==
  /\ at = "idle" /\ ready
  /\ who' = r /\ aged' = {}
  /\ \/ Kept[r] \in Versions /\ action' = Kept /\ at' = "begin"
     \/ /\ Unknown(r)
        /\ action' = [Kept EXCEPT ![r] = "reserved"] /\ at' = "prepare"
  /\ UNCHANGED <<ticket, verdict, ready, run, policy, history, rare>>

Prepare ==
  /\ at = "prepare"
  /\ \/ /\ \E v \in Versions : action' = [action EXCEPT ![who] = v]
        /\ at' = "begin" /\ UNCHANGED <<who, ticket, verdict>>
     \/ action' = [action EXCEPT ![who] = "none"] /\ Over
  /\ UNCHANGED <<ready, aged, run, policy, history, rare>>

\* Mutation: begin() looks, and records nothing.
Unreserved(r) == run

\* "Reserve request_id as RUNNING."
Reserved(r) == [run EXCEPT ![r] = "RUNNING"]

\* Only a new request, or one that waited for its approval, goes on.
MayRun(r) == run[r] \in {"none", "WAITING_APPROVAL"}

\* Any other gets its result again or is refused, as is a new one beyond the day's limit.
Begin ==
  /\ at = "begin"
  /\ \/ /\ MayRun(who) /\ run' = Reserved(who)
        /\ at' = "authorize" /\ UNCHANGED <<who, ticket, verdict>>
     \/ run[who] # "WAITING_APPROVAL" /\ Over /\ UNCHANGED run
  /\ UNCHANGED <<ready, action, aged, policy, history, rare>>
-------------------------------------------------------------------------------
(* require(): authorize() and consume() of the policy service *)

\* An agent without its own rule follows its connector's.
Mode(agent) ==
  CASE rules[agent] # "none"   -> rules[agent]
    [] rules[Service] # "none" -> rules[Service]
    [] OTHER                   -> DefaultMode

\* authorize() first marks what has expired.
Swept == [g \in Ids |-> IF grants[g].state \in Open /\ ~grants[g].live
                        THEN [grants[g] EXCEPT !.state = "EXPIRED"] ELSE grants[g]]

\* Mutation: an approval that was given is not looked for.
FoundUndecided == {g \in Ids : /\ grants[g].agent = AgentOf[who] /\ grants[g].version = action[who]
                               /\ grants[g].live
                               /\ grants[g].state \in {"PENDING", "DENIED", "REVOKED"}}

\* Grants of the same agent and content: not of the same request.
Found == {g \in Ids : /\ grants[g].agent = AgentOf[who] /\ grants[g].version = action[who]
                      /\ grants[g].live
                      /\ grants[g].state \in {"PENDING", "APPROVED", "DENIED", "REVOKED"}}

Latest(S) == IF S = {} THEN NoGrant ELSE grants[Max(S)]
Pending   == {g \in Ids : Swept[g].state = "PENDING"}

Grant(g, state) ==
  grants' = [Swept EXCEPT ![g] = [state |-> state, agent |-> AgentOf[who], version |-> action[who],
                                  live |-> TRUE]]

\* A standing or a given authorization: a ticket that is good for a minute.
Issue ==
  /\ \/ /\ Latest(Found).state = "APPROVED"
        /\ ticket' = Max(Found) /\ made' = made
     \/ /\ Latest(Found).state \in {"none", "PENDING"} /\ Mode(AgentOf[who]) = "auto"
        /\ made < MaxGrants
        /\ ticket' = made + 1 /\ made' = made + 1
  /\ Grant(ticket', "ISSUED")
  /\ at' = "consume" /\ UNCHANGED verdict

\* A person has to decide: the approval that waits for the same content, or a new one.
Wait ==
  /\ Mode(AgentOf[who]) = "ask"
  /\ \/ /\ Latest(Found).state = "PENDING"
        /\ grants' = Swept /\ made' = made
     \/ /\ Latest(Found).state = "none" /\ Cardinality(Pending) < MaxPending
        /\ made < MaxGrants
        /\ made' = made + 1 /\ Grant(made + 1, "PENDING")
  /\ verdict' = "WAITING_APPROVAL"
  /\ at' = "answer" /\ UNCHANGED ticket

Refuse ==
  /\ \/ Latest(Found).state \in {"DENIED", "REVOKED"}
     \/ /\ Mode(AgentOf[who]) = "ask" /\ Latest(Found).state = "none"
        /\ Cardinality(Pending) >= MaxPending
  /\ verdict' = "FAILED"
  /\ at' = "answer" /\ UNCHANGED <<ticket, grants, made>>

Authorize ==
  /\ at = "authorize"
  /\ Issue \/ Wait \/ Refuse
  /\ UNCHANGED <<who, ready, ledger, rules, effects, approved, rare>>

\* Principal, digest and ticket are those that authorize() was asked for and gave.
Valid(g) == grants[g].state = "ISSUED" /\ grants[g].live

\* Mutation: the ticket is checked and stays good.
Unspent(g) == grants

\* "consumption is transactional SQLite": whoever changes the row has the only use of the ticket.
Spent(g) == [grants EXCEPT ![g].state = "CONSUMED"]

Consume ==
  /\ at = "consume"
  /\ ticket' = 0
  /\ \/ /\ Valid(ticket)
        /\ grants' = Spent(ticket)
        /\ at' = "execute" /\ verdict' = verdict
     \/ /\ ~Valid(ticket)
        /\ at' = "answer" /\ verdict' = "FAILED" /\ UNCHANGED grants
  /\ UNCHANGED <<who, ready, ledger, rules, made, history, rare>>

\* Where require() awaits a call of the policy service, or an answer that it may have sent.
Requiring == at \in {"authorize", "consume", "execute", "answer"}

\* The socket fails or times out, before the call or after it had its effect: what rpc() raises
\* then is no Denied and nobody catches it, so the row stays RUNNING.
PolicyLost ==
  /\ rare < MaxRare /\ rare' = rare + 1
  /\ Requiring
  /\ Over
  /\ UNCHANGED <<ready, ledger, policy, history>>

\* The policy service does not get to the call (RATE_LIMITED, SERVICE_UNAVAILABLE), or closes the
\* connection without an answer to what it has done: both are Denied, so the row becomes FAILED,
\* with its grant as it was, issued or consumed.
PolicyDenies ==
  /\ Requiring
  /\ at' = "answer" /\ verdict' = "FAILED" /\ ticket' = 0
  /\ UNCHANGED <<who, ready, ledger, policy, history, rare>>
-------------------------------------------------------------------------------
(* write(): the call of the remote service and what is recorded *)

\* It may have had its effect when its outcome is unknown, and had none when it was rejected.
Execute ==
  /\ at = "execute"
  /\ verdict' \in {"SUCCEEDED", "UNKNOWN", "FAILED"}
  /\ \/ verdict' # "FAILED" /\ effects' = [effects EXCEPT ![who] = @ + 1]
     \/ verdict' # "SUCCEEDED" /\ UNCHANGED effects
  /\ at' = "mark"
  /\ UNCHANGED <<who, ticket, ready, ledger, policy, approved, rare>>

Mark ==
  /\ at \in {"mark", "answer"}
  /\ run' = [run EXCEPT ![who] = verdict]
  /\ Over
  /\ UNCHANGED <<ready, action, aged, policy, effects, approved, rare>>

\* Every grant there is counts no more.
Outdated(f) == [g \in Ids |-> [f[g] EXCEPT !.live = FALSE]]

\* Mutation: what ran when the service stopped counts as failed.
RecoveredFailed == [r \in Requests |-> IF run[r] = "RUNNING" THEN "FAILED" ELSE run[r]]

\* recover(): nobody knows what became of a request that was running.
Recovered == [r \in Requests |-> IF run[r] = "RUNNING" THEN "UNKNOWN" ELSE run[r]]

\* The service starts again, alone or with its machine.  Without its ledger it does no writes.
Restart ==
  /\ rare < MaxRare /\ rare' = rare + 1
  /\ Over
  /\ \/ ready' = TRUE /\ run' = Recovered
     \/ ready' = FALSE /\ UNCHANGED run
  /\ grants' \in {grants, Outdated(grants)}
  /\ UNCHANGED <<action, aged, rules, made, history>>
-------------------------------------------------------------------------------
(* People and time *)

Decide(g, decision) ==
  /\ grants[g].live
  /\ grants[g].state \in IF decision = "APPROVED" THEN {"PENDING"} ELSE Open
  /\ grants' = [grants EXCEPT ![g].state = decision]
  /\ approved' = IF decision = "APPROVED" THEN approved \cup {g} ELSE approved
  /\ UNCHANGED <<service, ledger, rules, made, effects, rare>>

\* Mutation: a changed rule leaves the grants of the old one as they are.
GrantsKept == UNCHANGED grants

\* "Any rule change invalidates every outstanding grant."
GrantsVoid ==
  grants' = [g \in Ids |-> IF grants[g].state \in Open
                            THEN [Outdated(grants)[g] EXCEPT !.state = "REVOKED"]
                            ELSE Outdated(grants)[g]]

\* set_mode() and clear_mode(): only an agent's own rule can be cleared.
SetRule(p, mode) ==
  /\ rare < MaxRare /\ rare' = rare + 1
  /\ mode = "none" => p # Service /\ rules[p] # "none"
  /\ rules' = [rules EXCEPT ![p] = mode]
  /\ GrantsVoid
  /\ UNCHANGED <<service, ledger, made, history>>

\* A minute passes for a ticket, ten for an approval; the time of a used one matters no more.
Lapse(g) ==
  /\ grants[g].live /\ grants[g].state # "CONSUMED"
  /\ grants' = [grants EXCEPT ![g].live = FALSE]
  /\ UNCHANGED <<service, ledger, rules, made, history, rare>>

\* A week passes for all that is stored.
WeekPasses ==
  /\ rare < MaxRare /\ rare' = rare + 1
  /\ at = "idle"
  /\ aged' = {r \in Requests : action[r] # "none"}
  /\ grants' = Outdated(grants)
  /\ UNCHANGED <<service, action, run, rules, made, history>>
-------------------------------------------------------------------------------
Write  == (\E r \in Requests : Call(r)) \/ Prepare \/ Begin \/ Authorize \/ Consume \/ PolicyDenies
          \/ Execute \/ Mark
People == \/ \E g \in Ids, d \in {"APPROVED", "DENIED", "REVOKED"} : Decide(g, d)
          \/ \E p \in Agents \cup {Service}, m \in Modes \cup {"none"} : SetRule(p, m)
Nature == PolicyLost \/ Restart \/ WeekPasses \/ \E g \in Ids : Lapse(g)

Next == Write \/ People \/ Nature
Spec == Init /\ [][Next]_vars
-------------------------------------------------------------------------------
(* Properties *)

States == {"none", "RUNNING", "WAITING_APPROVAL", "SUCCEEDED", "FAILED", "UNKNOWN"}

\* Every variable has its type; a row of runs is RUNNING while its write goes on.
Types ==
  /\ at \in {"idle", "prepare", "begin", "authorize", "consume", "execute", "answer", "mark"}
  /\ who \in Requests \cup {NoRequest} /\ ticket \in 0..made /\ verdict \in States /\ ready \in BOOLEAN
  /\ action \in [Requests -> Versions \cup {"none", "reserved"}] /\ aged \subseteq Requests
  /\ run \in [Requests -> States]
  /\ rules \in [Agents \cup {Service} -> Modes \cup {"none"}]
  /\ made \in 0..MaxGrants
  /\ grants \in [Ids -> [state : Open \cup {"none", "CONSUMED", "DENIED", "REVOKED", "EXPIRED"},
                         agent : Agents \cup {Service}, version : Versions \cup {"none"},
                         live : BOOLEAN]]
  /\ effects \in [Requests -> Nat] /\ approved \subseteq 1..made
  /\ rare \in 0..MaxRare
  /\ at \in {"authorize", "consume", "execute", "answer", "mark"} => run[who] = "RUNNING"
  /\ (at = "idle") <=> (who = NoRequest)
  /\ (at = "consume") <=> (ticket # 0)

\* ... and at most MaxPending approvals wait, whatever is decided, expires, is revoked by a rule or
\* outlived by a restart between authorize()'s count and the next.
TypeOK == Types /\ Cardinality(Pending) <= MaxPending

\* The ledger never presents a write as safe to repeat, or as done, that is not: what it calls
\* failed or waiting had no effect, what it calls done had one, and no request ever has two, though
\* a row fails with its grant consumed or is left RUNNING.
LedgerTells ==
  \A r \in Requests :
    /\ effects[r] <= 1
    /\ run[r] \in {"none", "WAITING_APPROVAL", "FAILED"} => effects[r] = 0
    /\ run[r] = "SUCCEEDED" => effects[r] = 1

\* Every time that a request was carried out.
Carried == UNION {{r} \X (1..effects[r]) : r \in Requests}

\* Grants are found by content and not by request, and still pay for one effect each: two
\* requests with the same content need two approvals.
EffectsWithinGrants == Cardinality(Carried) <= Cardinality({g \in Ids : grants[g].state = "CONSUMED"})

\* authorize() looks at the newest grant of a content only; one that waits or was approved is
\* always that one, so a person's decision is neither asked for twice nor overlooked.
ApprovalFound ==
  \A g, h \in Ids :
    /\ g < h /\ grants[g].live /\ grants[h].live
    /\ grants[g].agent = grants[h].agent /\ grants[g].version = grants[h].version
    /\ grants[g].state \in {"PENDING", "APPROVED"}
    => grants[h].state \notin {"PENDING", "APPROVED", "DENIED", "REVOKED"}

\* "Approval applies only to that exact content": while the rule is to ask, a ticket is taken only
\* for the content that a person approved, though rules change between its issue and its use.
AskMeansApproved ==
  [][\A g \in Ids :
       grants[g].state # "CONSUMED" /\ grants'[g].state = "CONSUMED" =>
         /\ Mode(grants[g].agent) = "ask" => g \in approved
         /\ grants[g].version = action[who] /\ grants[g].agent = AgentOf[who]]_vars
===============================================================================
