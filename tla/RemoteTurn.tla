------------------------------ MODULE RemoteTurn ------------------------------
(***************************************************************************)
(* What a turn on another machine promises, whoever carries it there       *)
(* ("Dispatch and team tool effects have durable idempotency records.      *)
(* Reconnecting repeats the same dispatch, never a new turn",              *)
(* SECURITY.md:65).  The requests of one task are numbered.  The machine   *)
(* begins each at most once, in their order, and gives it one outcome.     *)
(* The side that asked may give up on a turn, but it never hears of a      *)
(* success that did not happen.                                            *)
(***************************************************************************)
EXTENDS Naturals

CONSTANT MaxTurns   \* bound: numbered turns of the task

Turns    == 1..MaxTurns
Outcomes == {"done", "failed", "cancelled"}

VARIABLES
  heard,   \* what the asking side shows: "none", "open" while it waits, or an outcome
  turn,    \* number of the last turn sent
  starts,  \* how often the machine began each turn
  outcome  \* what became of each turn on the machine

remoteVars == <<heard, turn, starts, outcome>>

Init ==
  /\ heard = "none" /\ turn = 0
  /\ starts = [n \in Turns |-> 0]
  /\ outcome = [n \in Turns |-> "none"]

\* It is numbered at once or when it is sent, or it is the turn before, asked about again.
Ask ==
  /\ heard # "open"
  /\ heard' = "open"
  /\ turn' \in {turn, turn + 1} \cap (0..MaxTurns)
  /\ UNCHANGED <<starts, outcome>>

Send ==
  /\ heard = "open" /\ turn < MaxTurns
  /\ turn' = turn + 1
  /\ UNCHANGED <<heard, starts, outcome>>

\* A turn the asking side gave up on may still begin; one that ended, or was passed, may not.
Begin(n) ==
  /\ n <= turn /\ outcome[n] = "none"
  /\ \A m \in Turns : m >= n => starts[m] = 0
  /\ starts' = [starts EXCEPT ![n] = 1]
  /\ UNCHANGED <<heard, turn, outcome>>

\* A turn may be ended before it began, but not with success.
End(n, s) ==
  /\ n <= turn /\ outcome[n] = "none"
  /\ s = "done" => starts[n] = 1
  /\ outcome' = [outcome EXCEPT ![n] = s]
  /\ UNCHANGED <<heard, turn, starts>>

Hear(s) ==
  /\ heard = "open"
  /\ s = "done" => turn > 0 /\ outcome[turn] = "done"
  /\ heard' = s
  /\ UNCHANGED <<turn, starts, outcome>>

Next ==
  \/ Ask
  \/ Send
  \/ \E n \in Turns : Begin(n)
  \/ \E n \in Turns, s \in Outcomes : End(n, s)
  \/ \E s \in Outcomes : Hear(s)

Spec == Init /\ [][Next]_remoteVars
-------------------------------------------------------------------------------
(* What follows from the promise alone *)

Promise ==
  /\ turn \in 0..MaxTurns
  /\ starts \in [Turns -> {0, 1}] /\ outcome \in [Turns -> Outcomes \cup {"none"}]
  /\ \A n \in Turns : /\ outcome[n] = "done" => starts[n] = 1
                      /\ n > turn => starts[n] = 0 /\ outcome[n] = "none"
  /\ heard = "done" => turn > 0 /\ outcome[turn] = "done"

\* A success that is shown is the outcome of the last turn sent, which began exactly once.
DoneIsTrue == heard = "done" => turn > 0 /\ outcome[turn] = "done" /\ starts[turn] = 1

\* An outcome stays, and a turn that was passed by a later one never begins.
NeverTakenBack ==
  [][\A n \in Turns :
       /\ outcome[n] # "none" => outcome'[n] = outcome[n]
       /\ starts[n] = 0 /\ (\E m \in Turns : m > n /\ starts[m] = 1) => starts'[n] = 0]_remoteVars
===============================================================================
