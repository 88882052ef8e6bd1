------------------------------- MODULE CellRoom -------------------------------
(***************************************************************************)
(* The cells of the tasks: the half of packages/daemon/src/hub.ts between   *)
(* execute() and closeCell().  A turn runs in its task's cell.  It reuses   *)
(* the one of the turn before, or it waits in a line until the hub has      *)
(* room, starts a cell in the VM and leaves the cell idle behind it.  Cells *)
(* are closed after a scan, by cancels, timers, settings and by turns that  *)
(* make room.                                                               *)
(*                                                                         *)
(* HubTurns says which turns start; here any task may start one.  A step is *)
(* the code between two awaits.  Cells of a task are numbered, as a new one *)
(* may start while an old one still closes.                                 *)
(***************************************************************************)
EXTENDS Integers, FiniteSets

CONSTANTS
  Tasks,
  Depth,        \* delegation depth of a task: [Tasks -> Nat]
  CellCeiling,  \* CELL_CEILING of the hub, also MAX_CELLS of the VM
  MaxCellsSettings, \* the values `maxCells` takes while the daemon runs
  MaxTurns,     \* bound: turns, of all tasks
  MaxWaits,     \* bound: tool calls of one turn that wait at once
  MaxUpsets     \* bound: turn timeouts, lost cells and new settings, together

ASSUME RoomAssumption ==
  /\ IsFiniteSet(Tasks)
  /\ Depth \in [Tasks -> Nat]
  /\ CellCeiling \in Nat \ {0}
  /\ MaxCellsSettings \subseteq 1..CellCeiling /\ MaxCellsSettings # {}
  /\ {MaxTurns, MaxWaits, MaxUpsets} \subseteq Nat

VARIABLES
  phase,     \* where execute() and cellFor() are, for the task's turn
  line,      \* tasks in roomQueue
  before,    \* its order: the tasks that stood in line when a task joined
  patience,  \* the wait for room: not begun, begun (waitingSince), or used up
  awaits,    \* the closing cell a turn waits for
  cells,     \* tasks with a cell in the hub's map
  gen,       \* number of the task's newest cell
  idle,      \* tasks whose cell has a live idle timer
  longer,    \* idle cells armed earlier (lastUsed) than the task's
  scanning, leaving,  \* closeCell() in progress: scan, then wait for the exit
  closingTask,        \* number of the cell in closingTasks, or 0
  vm,        \* cells that exist in the VM
  blocked,   \* waiting tool calls of a task
  aborted, timedOut,  \* turns whose abort signal or turn timer fired
  killers,   \* timers that will close the cell of a turn that timed out
  maxCells,  \* the setting
  turns, upsets   \* bounds

waiting == <<line, before, patience, awaits>>
hub     == <<cells, gen, idle, longer>>
closing == <<scanning, leaving, closingTask>>
vars    == <<phase, waiting, hub, closing, vm, blocked, aborted, timedOut, killers, maxCells,
             turns, upsets>>

Phases  == {"off", "prepare", "swap", "want", "parked", "evict", "boot", "turn"}
NoCell  == <<>>
Cell(t) == <<t, gen[t]>>
-------------------------------------------------------------------------------
(* Counting room *)

\* Cells the hub takes the VM to have: live ones and those still closing.
Occupied == Cardinality(cells \cup {t \in Tasks : closingTask[t] # 0})

\* Cells at work: not those whose turn waits for a task it delegated.
Busy == Occupied - Cardinality({t \in cells : blocked[t] > 0})

Places ==
  (IF maxCells - Busy < CellCeiling - Occupied THEN maxCells - Busy ELSE CellCeiling - Occupied)
    + Cardinality(idle)

\* Tasks in line that go first: deeper ones, then those that came earlier.
Ahead(t) == {u \in line \ {t} : Depth[u] > Depth[t] \/ (Depth[u] = Depth[t] /\ u \in before[t])}

Outranked(t) == Cardinality(Ahead(t)) >= Places
HasRoom(t)   == Busy < maxCells /\ Occupied < CellCeiling /\ ~Outranked(t)

\* A waiting turn closes an idle cell instead of waiting.
MayEvict(t) == idle # {} /\ ~Outranked(t)

\* roomChanged(): every turn that waits looks again.
Woken(ph) == [t \in Tasks |-> IF ph[t] = "parked" THEN "want" ELSE ph[t]]

JoinLine(t) ==
  /\ line' = line \cup {t}
  /\ before' = [before EXCEPT ![t] = IF t \in line THEN @ ELSE line]

LeaveLine(t) ==
  /\ line' = line \ {t}
  /\ before' = [u \in Tasks |-> IF u = t THEN {} ELSE before[u] \ {t}]

\* clearTimeout(cell.idle), with the handle forgotten.
ClearIdle(S) ==
  /\ idle' = idle \ S
  /\ longer' = [u \in Tasks |-> IF u \in S THEN {} ELSE longer[u] \ S]

\* Mutation: the idle timer outlives its cell.
CloseCellsArmed(S) ==
  /\ cells' = cells \ S
  /\ scanning' = scanning \cup {Cell(t) : t \in S}
  /\ closingTask' = [t \in Tasks |-> IF t \in S THEN gen[t] ELSE closingTask[t]]
  /\ UNCHANGED <<gen, idle, longer, leaving>>

\* closeCell() of the cells of S, each live in the map: gone from the map at once.
CloseCells(S) ==
  /\ cells' = cells \ S
  /\ ClearIdle(S)
  /\ scanning' = scanning \cup {Cell(t) : t \in S}
  /\ closingTask' = [t \in Tasks |-> IF t \in S THEN gen[t] ELSE closingTask[t]]
  /\ UNCHANGED <<gen, leaving>>

\* closeCell() of a task that may have no cell.
CloseCell(t) == CloseCells({t} \cap cells)
-------------------------------------------------------------------------------
(* A turn on its way to a cell *)

\* execute(): without a cell the task is in line from now, before its image checks.
Begin(t) ==
  /\ phase[t] = "off" /\ turns < MaxTurns
  /\ phase' = [phase EXCEPT ![t] = "prepare"]
  /\ turns' = turns + 1
  /\ IF t \in cells THEN UNCHANGED <<line, before>> ELSE JoinLine(t)
  /\ UNCHANGED <<patience, awaits, hub, closing, vm, blocked, aborted, timedOut, killers,
                 maxCells, upsets>>

\* The turn ends without having reached a runner.
Drop(t) ==
  /\ patience' = [patience EXCEPT ![t] = "fresh"]
  /\ aborted' = aborted \ {t}

\* The image checks fail, or the turn was cancelled during them.
PrepareFails(t) ==
  /\ phase[t] = "prepare"
  /\ Drop(t)
  /\ LET dropped == [phase EXCEPT ![t] = "off"]
     IN  phase' = IF t \in line THEN Woken(dropped) ELSE dropped
  /\ LeaveLine(t)
  /\ IF t \in aborted THEN CloseCell(t) ELSE UNCHANGED <<hub, closing>>
  /\ UNCHANGED <<awaits, vm, blocked, timedOut, killers, maxCells, turns, upsets>>

Prepared(t) == phase[t] = "prepare" /\ t \notin aborted

\* Mutation: the idle timer of the reused cell goes on.
ReuseArmed(t) ==
  /\ Prepared(t) /\ t \in cells
  /\ phase' = [phase EXCEPT ![t] = "turn"]
  /\ UNCHANGED <<waiting, hub, closing, vm, blocked, aborted, timedOut, killers, maxCells,
                 turns, upsets>>

Reuse(t) ==
  /\ Prepared(t) /\ t \in cells
  /\ ClearIdle({t})
  /\ phase' = [phase EXCEPT ![t] = "turn"]
  /\ UNCHANGED <<waiting, cells, gen, closing, vm, blocked, aborted, timedOut, killers, maxCells,
                 turns, upsets>>

\* The agent's settings changed since the cell started: the old cell is closed first.
Swap(t) ==
  /\ Prepared(t) /\ t \in cells
  /\ CloseCell(t)
  /\ phase' = [phase EXCEPT ![t] = "swap"]
  /\ awaits' = [awaits EXCEPT ![t] = Cell(t)]
  /\ UNCHANGED <<line, before, patience, vm, blocked, aborted, timedOut, killers, maxCells,
                 turns, upsets>>

\* No cell, perhaps since its idle timer fired during the image checks.
Want(t) ==
  /\ Prepared(t) /\ t \notin cells
  /\ JoinLine(t)
  /\ phase' = [phase EXCEPT ![t] = "want"]
  /\ UNCHANGED <<patience, awaits, hub, closing, vm, blocked, aborted, timedOut, killers,
                 maxCells, turns, upsets>>

\* The VM makes the cell, or refuses: TASK_CELL_EXISTS or TOO_MANY_CELLS.
Refused(t) == (\E c \in vm : c[1] = t) \/ Cardinality(vm) >= CellCeiling

StartCell(t) ==
  /\ phase[t] = "want" /\ HasRoom(t)
  /\ LeaveLine(t)
  /\ phase' = Woken([phase EXCEPT ![t] = "boot"])
  /\ patience' = [patience EXCEPT ![t] = "fresh"]
  /\ cells' = cells \cup {t}
  /\ gen' = [gen EXCEPT ![t] = @ + 1]
  /\ vm' = IF Refused(t) THEN vm ELSE vm \cup {<<t, gen[t] + 1>>}
  /\ UNCHANGED <<awaits, idle, longer, closing, blocked, aborted, timedOut, killers, maxCells,
                 turns, upsets>>

\* The longest-idle cell is closed, and waited for.
Evict(t) ==
  /\ phase[t] = "want" /\ ~HasRoom(t) /\ t \notin aborted
  /\ MayEvict(t)
  /\ \E u \in idle :
       /\ longer[u] = {}
       /\ CloseCell(u)
       /\ awaits' = [awaits EXCEPT ![t] = Cell(u)]
  /\ phase' = [phase EXCEPT ![t] = "evict"]
  /\ UNCHANGED <<line, before, patience, vm, blocked, aborted, timedOut, killers, maxCells,
                 turns, upsets>>

Park(t) ==
  /\ phase[t] = "want" /\ ~HasRoom(t) /\ t \notin aborted
  /\ ~MayEvict(t) /\ patience[t] # "spent"
  /\ phase' = [phase EXCEPT ![t] = "parked"]
  /\ patience' = [patience EXCEPT ![t] = "waiting"]
  /\ UNCHANGED <<line, before, awaits, hub, closing, vm, blocked, aborted, timedOut, killers,
                 maxCells, turns, upsets>>

\* Cancelled, or TOO_MANY_CELLS after ten minutes without room.
GiveUp(t) ==
  /\ phase[t] = "want" /\ ~HasRoom(t)
  /\ t \in aborted \/ (~MayEvict(t) /\ patience[t] = "spent")
  /\ LeaveLine(t)
  /\ Drop(t)
  /\ phase' = Woken([phase EXCEPT ![t] = "off"])
  /\ UNCHANGED <<awaits, hub, closing, vm, blocked, timedOut, killers, maxCells, turns, upsets>>

\* Mutation: the wait for room has no end.
RoomWaitUnbounded(t) == FALSE /\ UNCHANGED vars

\* ROOM_WAIT_MS is over, also while the turn waits for a cell to close.
RoomWaitOver(t) ==
  /\ patience[t] = "waiting"
  /\ patience' = [patience EXCEPT ![t] = "spent"]
  /\ phase' = [phase EXCEPT ![t] = IF @ = "parked" THEN "want" ELSE @]
  /\ UNCHANGED <<line, before, awaits, hub, closing, vm, blocked, aborted, timedOut, killers,
                 maxCells, turns, upsets>>

\* cellFor() is over; the line is told again if the turn stood in it from its beginning.
Leave(t, next) ==
  LET left == [phase EXCEPT ![t] = next] IN phase' \in {left, Woken(left)}

\* The runner is ready, and the turn was not cancelled meanwhile.
Ready(t) ==
  /\ phase[t] = "boot" /\ Cell(t) \in vm /\ t \notin aborted
  /\ Leave(t, "turn")
  /\ UNCHANGED <<waiting, hub, closing, vm, blocked, aborted, timedOut, killers, maxCells,
                 turns, upsets>>

\* The start was refused, the cell died or was given up for taking too long, or the turn was
\* cancelled.
BootFails(t) ==
  /\ phase[t] = "boot" /\ (Cell(t) \notin vm \/ t \in aborted)
  /\ Drop(t)
  /\ Leave(t, "off")
  /\ IF t \in aborted THEN CloseCell(t) ELSE UNCHANGED <<hub, closing>>
  /\ UNCHANGED <<line, before, awaits, vm, blocked, timedOut, killers, maxCells, turns, upsets>>
-------------------------------------------------------------------------------
(* A turn in its cell *)

\* Mutation: the idle cell is not offered to the turns that wait.
EndTurnQuietly(t) ==
  /\ phase[t] = "turn" /\ t \notin aborted
  /\ phase' = [phase EXCEPT ![t] = "off"]
  /\ timedOut' = timedOut \ {t}
  /\ IF t \in cells
     THEN /\ idle' = idle \cup {t}
          /\ longer' = [u \in Tasks |-> IF u = t THEN idle \ {t} ELSE longer[u] \ {t}]
     ELSE UNCHANGED <<idle, longer>>
  /\ UNCHANGED <<waiting, cells, gen, closing, vm, blocked, aborted, killers, maxCells, turns, upsets>>

\* The turn is over, for whatever reason: its cell, if it still has one, becomes idle.
EndTurn(t) ==
  /\ phase[t] = "turn" /\ t \notin aborted
  /\ timedOut' = timedOut \ {t}
  /\ IF t \in cells
     THEN /\ phase' = Woken([phase EXCEPT ![t] = "off"])
          /\ idle' = idle \cup {t}
          /\ longer' = [u \in Tasks |-> IF u = t THEN idle \ {t} ELSE longer[u] \ {t}]
     ELSE /\ phase' = [phase EXCEPT ![t] = "off"]
          /\ UNCHANGED <<idle, longer>>
  /\ UNCHANGED <<waiting, cells, gen, closing, vm, blocked, aborted, killers, maxCells, turns, upsets>>

\* A cancelled turn is over; cancelTask() closed its cell already, this makes sure.
EndCancelled(t) ==
  /\ phase[t] = "turn" /\ t \in aborted
  /\ phase' = (IF t \in cells THEN Woken([phase EXCEPT ![t] = "off"])
                              ELSE [phase EXCEPT ![t] = "off"])
  /\ aborted' = aborted \ {t} /\ timedOut' = timedOut \ {t}
  /\ CloseCell(t)
  /\ UNCHANGED <<waiting, vm, blocked, killers, maxCells, turns, upsets>>

\* cancelTask(): the abort wakes a turn that waits for room, and the cell goes at once.
Cancel(t) ==
  /\ phase[t] # "off" /\ t \notin aborted
  /\ aborted' = aborted \cup {t}
  /\ phase' = IF phase[t] \in {"want", "parked", "evict"} THEN Woken(phase) ELSE phase
  /\ CloseCell(t)
  /\ UNCHANGED <<waiting, vm, blocked, timedOut, killers, maxCells, turns, upsets>>

\* The turn timer: the runner is told to cancel, and ten seconds later the task's cell is
\* closed.  Nothing clears that second timer.
TurnTimeout(t) ==
  /\ phase[t] = "turn" /\ t \notin timedOut /\ upsets < MaxUpsets
  /\ timedOut' = timedOut \cup {t}
  /\ killers' = [killers EXCEPT ![t] = @ + 1]
  /\ upsets' = upsets + 1
  /\ UNCHANGED <<phase, waiting, hub, closing, vm, blocked, aborted, maxCells, turns>>

KillerFires(t) ==
  /\ killers[t] > 0
  /\ killers' = [killers EXCEPT ![t] = @ - 1]
  /\ CloseCell(t)
  /\ UNCHANGED <<phase, waiting, vm, blocked, aborted, timedOut, maxCells, turns, upsets>>

\* The idle timer, the deletion of the task, or a cancel of its queued follow-up.
CloseIdle(t) ==
  /\ t \in idle
  /\ CloseCell(t)
  /\ UNCHANGED <<phase, waiting, vm, blocked, aborted, timedOut, killers, maxCells, turns, upsets>>

\* block(): a tool call waits for a delegated task, which may take the turn's place.
Block(t) ==
  /\ phase[t] = "turn" /\ blocked[t] < MaxWaits
  /\ blocked' = [blocked EXCEPT ![t] = @ + 1]
  /\ phase' = Woken(phase)
  /\ UNCHANGED <<waiting, hub, closing, vm, aborted, timedOut, killers, maxCells, turns, upsets>>

\* The delegated task ended or the call waited long enough, perhaps after the turn itself.
Unblock(t) ==
  /\ blocked[t] > 0
  /\ blocked' = [blocked EXCEPT ![t] = @ - 1]
  /\ phase' = Woken(phase)
  /\ UNCHANGED <<waiting, hub, closing, vm, aborted, timedOut, killers, maxCells, turns, upsets>>
-------------------------------------------------------------------------------
(* Cells that close *)

\* The credential scan is over or timed out: the session is closed.
ScanEnds(c) ==
  /\ c \in scanning
  /\ scanning' = scanning \ {c} /\ leaving' = leaving \cup {c}
  /\ UNCHANGED <<phase, waiting, hub, closingTask, vm, blocked, aborted, timedOut, killers,
                 maxCells, turns, upsets>>

\* The hub still has the cell in its map.
InMap(c) == c[1] \in cells /\ c = Cell(c[1])

\* The VM lets go of a cell: one that was told to, or one whose runner dies.
CellExits(c) ==
  /\ c \in vm
  /\ LET told == ~InMap(c) /\ c \notin scanning
     IN  /\ told \/ upsets < MaxUpsets
         /\ upsets' = IF told THEN upsets ELSE upsets + 1
  /\ vm' = vm \ {c}
  /\ phase' = IF InMap(c) THEN phase ELSE Woken(phase)
  /\ UNCHANGED <<waiting, hub, closing, blocked, aborted, timedOut, killers, maxCells,
                 turns>>

\* The hub hears that a cell of its map exited.
SessionExit(t) ==
  /\ t \in cells /\ Cell(t) \notin vm
  /\ cells' = cells \ {t}
  /\ ClearIdle({t})
  /\ phase' = Woken(phase)
  /\ UNCHANGED <<waiting, gen, closing, vm, blocked, aborted, timedOut, killers, maxCells,
                 turns, upsets>>

\* Turns that wait for this cell to close go on; one that swaps its own joins the line now.
Closed(c, t) == awaits[t] = c /\ phase[t] \in {"swap", "evict"}

\* closeCell() is done: the cell exited, or CLOSE_WAIT_MS passed without that.
CloseDone(c) ==
  /\ c \in leaving
  /\ leaving' = leaving \ {c}
  /\ closingTask' = [t \in Tasks |-> IF closingTask[t] = c[2] /\ t = c[1] THEN 0 ELSE closingTask[t]]
  /\ LET joins == {t \in Tasks : Closed(c, t) /\ phase[t] = "swap"}
     IN  /\ line' = line \cup joins
         /\ before' = [t \in Tasks |-> IF t \in joins THEN line ELSE before[t]]
  /\ phase' = Woken([t \in Tasks |-> IF Closed(c, t) THEN "want" ELSE phase[t]])
  /\ awaits' = [t \in Tasks |-> IF Closed(c, t) THEN NoCell ELSE awaits[t]]
  /\ UNCHANGED <<patience, hub, scanning, vm, blocked, aborted, timedOut, killers, maxCells,
                 turns, upsets>>

\* settings.yaml changes.
SetMaxCells(n) ==
  /\ upsets < MaxUpsets /\ n # maxCells
  /\ maxCells' = n
  /\ phase' = Woken(phase)
  /\ upsets' = upsets + 1
  /\ UNCHANGED <<waiting, hub, closing, vm, blocked, aborted, timedOut, killers, turns>>
-------------------------------------------------------------------------------
Init ==
  /\ phase = [t \in Tasks |-> "off"]
  /\ line = {} /\ before = [t \in Tasks |-> {}]
  /\ patience = [t \in Tasks |-> "fresh"] /\ awaits = [t \in Tasks |-> NoCell]
  /\ cells = {} /\ gen = [t \in Tasks |-> 0]
  /\ idle = {} /\ longer = [t \in Tasks |-> {}]
  /\ scanning = {} /\ leaving = {} /\ closingTask = [t \in Tasks |-> 0]
  /\ vm = {} /\ blocked = [t \in Tasks |-> 0]
  /\ aborted = {} /\ timedOut = {} /\ killers = [t \in Tasks |-> 0]
  /\ maxCells \in MaxCellsSettings
  /\ turns = 0 /\ upsets = 0

LooksForRoom(t) == StartCell(t) \/ Evict(t) \/ Park(t) \/ GiveUp(t)
GetsReady(t)    == Reuse(t) \/ Swap(t) \/ Want(t) \/ PrepareFails(t)

Next ==
  \/ \E t \in Tasks : \/ Begin(t) \/ GetsReady(t) \/ LooksForRoom(t) \/ RoomWaitOver(t)
                      \/ Ready(t) \/ BootFails(t) \/ EndTurn(t) \/ EndCancelled(t)
                      \/ Cancel(t) \/ TurnTimeout(t) \/ KillerFires(t) \/ CloseIdle(t)
                      \/ Block(t) \/ Unblock(t) \/ SessionExit(t)
  \/ \E c \in scanning : ScanEnds(c)
  \/ \E c \in leaving : CloseDone(c)
  \/ \E c \in vm : CellExits(c)
  \/ \E n \in MaxCellsSettings : SetMaxCells(n)

Spec == Init /\ [][Next]_vars

(***************************************************************************)
(* The event loop resumes turns that may go on, image checks and the start *)
(* of a cell end or time out, ROOM_WAIT_MS, SCAN_TIMEOUT_MS and             *)
(* CLOSE_WAIT_MS pass.  No turn has to end and no idle cell has to go.     *)
(***************************************************************************)
Fairness ==
  /\ \A t \in Tasks : /\ WF_vars(GetsReady(t)) /\ WF_vars(LooksForRoom(t))
                      /\ WF_vars(RoomWaitOver(t)) /\ WF_vars(SessionExit(t)) /\ WF_vars(Ready(t) \/ BootFails(t))
  /\ WF_vars(\E c \in scanning : ScanEnds(c))
  /\ WF_vars(\E c \in leaving : CloseDone(c))

FairSpec == Spec /\ Fairness
-------------------------------------------------------------------------------
(* Properties *)

\* Every variable has its type; at most CELL_CEILING cells exist in the VM, and the cells alive and
\* those that close are never more together, whatever starts while something is awaited.
TypeOK ==
  /\ phase \in [Tasks -> Phases]
  /\ line \subseteq Tasks /\ before \in [Tasks -> SUBSET Tasks]
  /\ patience \in [Tasks -> {"fresh", "waiting", "spent"}]
  /\ awaits \in [Tasks -> (Tasks \X Nat) \cup {NoCell}]
  /\ cells \subseteq Tasks /\ gen \in [Tasks -> Nat]
  /\ idle \subseteq cells /\ longer \in [Tasks -> SUBSET idle]
  /\ scanning \cup leaving \cup vm \subseteq Tasks \X Nat
  /\ Cardinality(vm) <= CellCeiling
  /\ Cardinality(cells \cup {t \in Tasks : closingTask[t] # 0}) <= CellCeiling
  /\ closingTask \in [Tasks -> Nat] /\ blocked \in [Tasks -> Nat]
  /\ aborted \subseteq Tasks /\ timedOut \subseteq Tasks /\ killers \in [Tasks -> Nat]
  /\ maxCells \in MaxCellsSettings
  /\ turns \in Nat /\ upsets \in Nat

\* No wake-up is lost: a turn that sleeps in cellFor() has no room, no idle cell it may close
\* and no abort to notice, and a turn that waits for a cell to close waits for one that is
\* closing.  Every change of cells, idle timers, waiting calls and settings must wake it.
\* roomQueue, by which turns outrank each other, holds those that look for a cell and no other.
NoLostWakeup ==
  \A t \in Tasks :
    /\ phase[t] = "parked" => ~HasRoom(t) /\ ~MayEvict(t) /\ t \notin aborted
    /\ phase[t] \in {"swap", "evict"} => awaits[t] \in scanning \cup leaving
    /\ t \in line => phase[t] \in {"prepare", "want", "parked", "evict"}
    /\ phase[t] \in {"want", "parked", "evict"} => t \in line

\* Only a cell between two turns has an idle timer: eviction and the timer itself never take
\* the cell of a turn ("does not close a reused cell mid-turn").
IdleBetweenTurns == \A t \in idle : phase[t] \notin {"boot", "turn"}

\* A turn on its way to a cell gets it or ends, though every place may be held by turns that
\* never end and tasks may wait on each other's delegations.
ReachesCellOrEnds ==
  \A t \in Tasks : (phase[t] \notin {"off", "turn"}) ~> (phase[t] \in {"off", "turn"})
===============================================================================
