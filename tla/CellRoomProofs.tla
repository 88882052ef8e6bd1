----------------------------- MODULE CellRoomProofs -----------------------------
(* Theorems about CellRoom, for any tasks, depths, ceiling, settings and bounds. *)
EXTENDS CellRoom, FiniteSetTheorems, TLAPS

(***************************************************************************)
(* The inductive invariant: the three invariants themselves, and why a     *)
(* turn in line has no cell.                                               *)
(***************************************************************************)

Lines ==
  /\ line \cap cells = {}
  /\ \A t \in Tasks : phase[t] = "swap" => t \notin cells
  /\ \A t \in cells : gen[t] > 0

\* The parts of NoLostWakeup.
Asleep     == \A t \in Tasks : phase[t] = "parked" => ~HasRoom(t) /\ ~MayEvict(t) /\ t \notin aborted
Awaiting   == \A t \in Tasks : phase[t] \in {"swap", "evict"} => awaits[t] \in scanning \cup leaving
InLine     == \A t \in Tasks : /\ t \in line => phase[t] \in {"prepare", "want", "parked", "evict"}
                               /\ phase[t] \in {"want", "parked", "evict"} => t \in line

\* The parts of TypeOK.
TurnsTyped ==
  /\ phase \in [Tasks -> Phases]
  /\ line \subseteq Tasks /\ before \in [Tasks -> SUBSET Tasks]
  /\ patience \in [Tasks -> {"fresh", "waiting", "spent"}]
  /\ awaits \in [Tasks -> (Tasks \X Nat) \cup {NoCell}]
  /\ blocked \in [Tasks -> Nat]
  /\ aborted \subseteq Tasks /\ timedOut \subseteq Tasks /\ killers \in [Tasks -> Nat]
  /\ maxCells \in MaxCellsSettings
  /\ turns \in Nat /\ upsets \in Nat

CellsTyped ==
  /\ cells \subseteq Tasks /\ gen \in [Tasks -> Nat]
  /\ idle \subseteq cells /\ longer \in [Tasks -> SUBSET idle]
  /\ scanning \subseteq Tasks \X Nat /\ leaving \subseteq Tasks \X Nat
  /\ closingTask \in [Tasks -> Nat]

Closing  == {t \in Tasks : closingTask[t] # 0}
InVM     == vm \subseteq Tasks \X Nat /\ IsFiniteSet(vm) /\ Cardinality(vm) <= CellCeiling

Inv ==
  /\ TurnsTyped /\ CellsTyped /\ InVM /\ Occupied <= CellCeiling
  /\ Lines /\ Asleep /\ Awaiting /\ InLine /\ IdleBetweenTurns

(***************************************************************************)
(* Counting room.                                                          *)
(***************************************************************************)

\* The bounds, as the steps below need them.
LEMMA Bounds == /\ IsFiniteSet(Tasks) /\ CellCeiling \in Nat /\ CellCeiling > 0
                /\ MaxCellsSettings \subseteq Nat /\ MaxUpsets \in Nat /\ MaxTurns \in Nat
BY RoomAssumption

\* A set of tasks is finite, and a part of it has no more members.
LEMMA Smaller ==
  ASSUME NEW S \in SUBSET Tasks, NEW T \in SUBSET S
  PROVE  /\ Cardinality(S) \in Nat /\ Cardinality(T) \in Nat /\ Cardinality(T) <= Cardinality(S)
BY Bounds, FS_Subset, FS_CardinalityType

\* While the room is the same, fewer idle cells, fewer live ones and more turns in line make no
\* room for a turn that had none.
LEMMA RoomShrinks ==
  ASSUME TurnsTyped, CellsTyped, UNCHANGED <<maxCells, blocked>>, line' \subseteq Tasks,
         cells' \cup Closing' = cells \cup Closing, cells' \subseteq cells, idle' \subseteq idle,
         NEW t \in Tasks, Ahead(t) \subseteq Ahead(t)'
  PROVE  (HasRoom(t)' => HasRoom(t)) /\ (MayEvict(t)' => MayEvict(t))
<1> DEFINE waits  == {u \in cells : blocked[u] > 0}
           waits2 == {u \in cells' : blocked[u] > 0}
<1>1. Occupied' = Occupied /\ Occupied \in Nat
  <2>1. cells \cup Closing \subseteq Tasks
    BY DEF CellsTyped, Closing
  <2> QED
    BY <2>1, Smaller DEF Occupied, Closing
<1>2. Cardinality(waits) \in Nat /\ Cardinality(waits2) \in Nat /\ Cardinality(waits2) <= Cardinality(waits)
  BY Smaller DEF CellsTyped
<1>3. Busy = Occupied - Cardinality(waits) /\ Busy' = Occupied - Cardinality(waits2)
  BY <1>1 DEF Busy
<1> HIDE DEF waits, waits2
<1>4. Busy \in Int /\ Busy' \in Int /\ Busy <= Busy'
  BY <1>1, <1>2, <1>3
<1>5. Cardinality(idle) \in Nat /\ Cardinality(idle') \in Nat /\ Cardinality(idle') <= Cardinality(idle)
  BY Smaller DEF CellsTyped
<1>6. maxCells \in Nat /\ CellCeiling \in Nat
  BY Bounds DEF TurnsTyped
<1>7. Places \in Int /\ Places' \in Int /\ Places' <= Places
  <2> DEFINE c == Cardinality(idle)
             c2 == Cardinality(idle')
             b2 == Busy'
  <2>1. Places = (IF maxCells - Busy < CellCeiling - Occupied THEN maxCells - Busy ELSE CellCeiling - Occupied) + c
    BY DEF Places
  <2>2. Places' = (IF maxCells - b2 < CellCeiling - Occupied THEN maxCells - b2 ELSE CellCeiling - Occupied) + c2
    BY <1>1 DEF Places
  <2>3. c \in Nat /\ c2 \in Nat /\ c2 <= c /\ b2 \in Int /\ Busy <= b2
    BY <1>4, <1>5
  <2> HIDE DEF c, c2, b2
  <2> QED
    BY <1>1, <1>4, <1>6, <2>1, <2>2, <2>3
<1>8. /\ Cardinality(Ahead(t)) \in Nat /\ Cardinality(Ahead(t)') \in Nat
      /\ Cardinality(Ahead(t)) <= Cardinality(Ahead(t)')
  <2>1. Ahead(t)' \subseteq Tasks
    BY DEF Ahead
  <2> QED
    BY <2>1, Smaller
<1>9. Outranked(t) => Outranked(t)'
  BY <1>7, <1>8 DEF Outranked
<1> QED
  BY <1>1, <1>4, <1>6, <1>9 DEF HasRoom, MayEvict

\* Nobody sleeps who was woken.
LEMMA WokenIs ==
  ASSUME NEW f \in [Tasks -> Phases]
  PROVE  /\ Woken(f) \in [Tasks -> Phases]
         /\ \A t \in Tasks : /\ Woken(f)[t] # "parked"
                             /\ f[t] # "parked" => Woken(f)[t] = f[t]
                             /\ f[t] = "parked" => Woken(f)[t] = "want"
BY DEF Woken, Phases

\* Who sleeps goes on sleeping without a place, and whoever a place might be for is awake.
LEMMA StillAsleep ==
  ASSUME TurnsTyped, CellsTyped, Asleep,
         \/ \A t \in Tasks : phase'[t] # "parked"
         \/ /\ UNCHANGED <<maxCells, blocked>> /\ line' \subseteq Tasks
            /\ cells' \cup Closing' = cells \cup Closing /\ cells' \subseteq cells /\ idle' \subseteq idle
            /\ \A t \in Tasks : phase'[t] = "parked" =>
                 phase[t] = "parked" /\ (t \in aborted' => t \in aborted) /\ Ahead(t) \subseteq Ahead(t)'
  PROVE  Asleep'
<1>1. CASE \A t \in Tasks : phase'[t] # "parked"
  BY <1>1 DEF Asleep
<1>2. CASE /\ UNCHANGED <<maxCells, blocked>> /\ line' \subseteq Tasks
           /\ cells' \cup Closing' = cells \cup Closing /\ cells' \subseteq cells /\ idle' \subseteq idle
           /\ \A t \in Tasks : phase'[t] = "parked" =>
                phase[t] = "parked" /\ (t \in aborted' => t \in aborted) /\ Ahead(t) \subseteq Ahead(t)'
  <2> SUFFICES ASSUME NEW t \in Tasks, phase'[t] = "parked"
               PROVE  ~HasRoom(t)' /\ ~MayEvict(t)' /\ t \notin aborted'
    BY DEF Asleep
  <2>1. ~HasRoom(t) /\ ~MayEvict(t) /\ t \notin aborted
    BY <1>2 DEF Asleep
  <2>2. (HasRoom(t)' => HasRoom(t)) /\ (MayEvict(t)' => MayEvict(t))
    BY <1>2, RoomShrinks
  <2> QED
    BY <1>2, <2>1, <2>2
<1> QED
  BY <1>1, <1>2

(***************************************************************************)
(* Cells that close.                                                       *)
(***************************************************************************)

\* closeCell() takes a cell out of the map, disarms it, and counts it until it is gone.
LEMMA CloseCellsIs ==
  ASSUME CellsTyped, Lines, NEW S \in SUBSET cells, CloseCells(S)
  PROVE  /\ CellsTyped'
         /\ cells' = cells \ S /\ idle' = idle \ S /\ gen' = gen /\ leaving' = leaving /\ scanning \subseteq scanning'
         /\ cells' \cup Closing' = cells \cup Closing
         /\ \A t \in S : Cell(t) \in scanning'
<1>1. /\ cells' = cells \ S /\ idle' = idle \ S /\ gen' = gen /\ leaving' = leaving
      /\ longer' = [u \in Tasks |-> IF u \in S THEN {} ELSE longer[u] \ S]
      /\ scanning' = scanning \cup {Cell(t) : t \in S}
      /\ closingTask' = [t \in Tasks |-> IF t \in S THEN gen[t] ELSE closingTask[t]]
  BY DEF CloseCells, ClearIdle
<1>2. \A t \in S : t \in Tasks /\ gen[t] \in Nat /\ gen[t] # 0
  BY DEF CellsTyped, Lines
<1>3. \A t \in S : Cell(t) \in Tasks \X Nat
  BY <1>2 DEF Cell
<1>4. scanning' \subseteq Tasks \X Nat
  BY <1>1, <1>3 DEF CellsTyped
<1>5. closingTask' \in [Tasks -> Nat]
  BY <1>1, <1>2 DEF CellsTyped
<1>6. longer' \in [Tasks -> SUBSET idle']
  BY <1>1 DEF CellsTyped
<1>7. CellsTyped'
  BY <1>1, <1>4, <1>5, <1>6 DEF CellsTyped
<1>8. Closing' = Closing \cup S
  BY <1>1, <1>2 DEF Closing
<1> QED
  BY <1>1, <1>7, <1>8

\* So do the steps that close a cell, as far as the cells go.
LEMMA CloseCellIs ==
  ASSUME CellsTyped, Lines, NEW t \in Tasks, CloseCell(t)
  PROVE  /\ CellsTyped'
         /\ cells' = cells \ {t} /\ idle' = idle \ {t} /\ gen' = gen /\ leaving' = leaving /\ scanning \subseteq scanning'
         /\ cells' \cup Closing' = cells \cup Closing
         /\ t \in cells => Cell(t) \in scanning'
<1>1. {t} \cap cells \in SUBSET cells /\ CloseCells({t} \cap cells)
  BY DEF CloseCell
<1>2. /\ CellsTyped'
      /\ cells' = cells \ ({t} \cap cells) /\ idle' = idle \ ({t} \cap cells) /\ gen' = gen /\ leaving' = leaving
      /\ scanning \subseteq scanning' /\ cells' \cup Closing' = cells \cup Closing
      /\ \A u \in {t} \cap cells : Cell(u) \in scanning'
  BY <1>1, CloseCellsIs
<1>3. idle \ ({t} \cap cells) = idle \ {t}
  BY DEF CellsTyped
<1> QED
  BY <1>2, <1>3

\* The line of the turns that look for a cell.
LEMMA JoinLineIs ==
  ASSUME TurnsTyped, NEW t \in Tasks, JoinLine(t)
  PROVE  /\ line' = line \cup {t} /\ before' \in [Tasks -> SUBSET Tasks]
         /\ \A u \in Tasks \ {t} : Ahead(u) \subseteq Ahead(u)'
<1>1. line' = line \cup {t} /\ before' = [before EXCEPT ![t] = IF t \in line THEN @ ELSE line]
  BY DEF JoinLine
<1>2. before' \in [Tasks -> SUBSET Tasks]
  BY <1>1 DEF TurnsTyped
<1>3. \A u \in Tasks \ {t} : before'[u] = before[u]
  BY <1>1 DEF TurnsTyped
<1> QED
  BY <1>1, <1>2, <1>3 DEF Ahead

\* A turn leaves it.
LEMMA LeaveLineIs ==
  ASSUME TurnsTyped, NEW t \in Tasks, LeaveLine(t)
  PROVE  /\ line' = line \ {t} /\ before' \in [Tasks -> SUBSET Tasks]
         /\ t \notin line => \A u \in Tasks \ {t} : Ahead(u) = Ahead(u)'
<1>1. line' = line \ {t} /\ before' = [u \in Tasks |-> IF u = t THEN {} ELSE before[u] \ {t}]
  BY DEF LeaveLine
<1>2. before' \in [Tasks -> SUBSET Tasks]
  BY <1>1 DEF TurnsTyped
<1>3. ASSUME t \notin line, NEW u \in Tasks \ {t} PROVE Ahead(u) = Ahead(u)'
  BY <1>1, <1>3 DEF Ahead
<1> QED
  BY <1>1, <1>2, <1>3

(***************************************************************************)
(* Every step keeps the types.                                             *)
(***************************************************************************)

\* A turn that looks for a cell keeps the types of its variables.
LEMMA TurnsTypedLooking ==
  ASSUME TurnsTyped, CellsTyped, NEW t \in Tasks,
         Begin(t) \/ GetsReady(t) \/ LooksForRoom(t) \/ RoomWaitOver(t)
  PROVE  TurnsTyped'
<1> DEFINE off == [phase EXCEPT ![t] = "off"]
           boot == [phase EXCEPT ![t] = "boot"]
<1>1. off \in [Tasks -> Phases] /\ boot \in [Tasks -> Phases]
  BY DEF TurnsTyped, Phases
<1>2. Woken(off) \in [Tasks -> Phases] /\ Woken(boot) \in [Tasks -> Phases]
  <2> HIDE DEF off, boot
  <2> QED
    BY <1>1, WokenIs
<1>3. /\ \A u \in Tasks : Cell(u) \in Tasks \X Nat
      /\ [patience EXCEPT ![t] = "fresh"] \in [Tasks -> {"fresh", "waiting", "spent"}]
  BY DEF CellsTyped, Cell, TurnsTyped
<1>4. CASE Begin(t) \/ Want(t)
  <2>1. /\ phase' \in [Tasks -> Phases] /\ turns' \in Nat
        /\ UNCHANGED <<patience, awaits, blocked, aborted, timedOut, killers, maxCells, upsets>>
    BY <1>4 DEF Begin, Want, TurnsTyped, Phases
  <2>2. line' \subseteq Tasks /\ before' \in [Tasks -> SUBSET Tasks]
    BY <1>4, JoinLineIs DEF Begin, Want, TurnsTyped
  <2> QED
    BY <2>1, <2>2 DEF TurnsTyped
<1>5. CASE PrepareFails(t) \/ GiveUp(t)
  <2>1. /\ phase' \in [Tasks -> Phases]
        /\ UNCHANGED <<awaits, blocked, timedOut, killers, maxCells, turns, upsets>>
    BY <1>1, <1>2, <1>5 DEF PrepareFails, GiveUp
  <2>2. line' \subseteq Tasks /\ before' \in [Tasks -> SUBSET Tasks]
    BY <1>5, LeaveLineIs DEF PrepareFails, GiveUp, TurnsTyped
  <2>3. patience' \in [Tasks -> {"fresh", "waiting", "spent"}] /\ aborted' \subseteq Tasks
    BY <1>3, <1>5 DEF PrepareFails, GiveUp, Drop, TurnsTyped
  <2> QED
    BY <2>1, <2>2, <2>3 DEF TurnsTyped
<1>6. CASE StartCell(t)
  <2>1. line' \subseteq Tasks /\ before' \in [Tasks -> SUBSET Tasks]
    BY <1>6, LeaveLineIs DEF StartCell, TurnsTyped
  <2> QED
    BY <1>2, <1>3, <1>6, <2>1 DEF StartCell, TurnsTyped
<1>7. CASE Reuse(t)
  BY <1>7 DEF Reuse, TurnsTyped, Phases, waiting
<1>8. CASE Swap(t)
  <2>1. /\ phase' \in [Tasks -> Phases]
        /\ awaits' \in [Tasks -> (Tasks \X Nat) \cup {NoCell}]
    BY <1>3, <1>8 DEF Swap, TurnsTyped, Phases
  <2> QED
    BY <1>8, <2>1 DEF Swap, TurnsTyped
<1>9. CASE Evict(t)
  <2>1. PICK u \in idle : awaits' = [awaits EXCEPT ![t] = Cell(u)]
    BY <1>9 DEF Evict
  <2>2. u \in Tasks
    BY DEF CellsTyped
  <2>3. /\ phase' \in [Tasks -> Phases]
        /\ awaits' \in [Tasks -> (Tasks \X Nat) \cup {NoCell}]
    BY <1>3, <1>9, <2>1, <2>2 DEF Evict, TurnsTyped, Phases
  <2> QED
    BY <1>9, <2>3 DEF Evict, TurnsTyped
<1>10. CASE Park(t) \/ RoomWaitOver(t)
  BY <1>10 DEF Park, RoomWaitOver, TurnsTyped, Phases
<1> QED
  BY <1>4, <1>5, <1>6, <1>7, <1>8, <1>9, <1>10 DEF GetsReady, LooksForRoom

\* So does every other step.
LEMMA TurnsTypedNext ==
  ASSUME TurnsTyped, CellsTyped, [Next]_vars
  PROVE  TurnsTyped'
<1>1. \A f \in [Tasks -> Phases] : Woken(f) \in [Tasks -> Phases]
  BY WokenIs
<1>2. \A t \in Tasks : /\ [phase EXCEPT ![t] = "off"] \in [Tasks -> Phases]
                       /\ [phase EXCEPT ![t] = "turn"] \in [Tasks -> Phases]
  BY DEF TurnsTyped, Phases
<1>p. \A t \in Tasks : /\ Woken([phase EXCEPT ![t] = "off"]) \in [Tasks -> Phases]
                       /\ Woken([phase EXCEPT ![t] = "turn"]) \in [Tasks -> Phases]
  BY <1>1, <1>2, Zenon
<1>3. phase \in [Tasks -> Phases] /\ Woken(phase) \in [Tasks -> Phases]
  BY <1>1 DEF TurnsTyped
<1>4. CASE \E t \in Tasks : Begin(t) \/ GetsReady(t) \/ LooksForRoom(t) \/ RoomWaitOver(t)
  BY <1>4, TurnsTypedLooking
<1>5. CASE \E t \in Tasks : Ready(t) \/ BootFails(t)
  <2> PICK t \in Tasks : Ready(t) \/ BootFails(t)
    BY <1>5
  <2>1. phase' \in [Tasks -> Phases]
    BY <1>2, <1>p DEF Ready, BootFails, Leave
  <2>2. patience' \in [Tasks -> {"fresh", "waiting", "spent"}] /\ aborted' \subseteq Tasks
    BY DEF Ready, BootFails, Drop, TurnsTyped, waiting
  <2> QED
    BY <2>1, <2>2 DEF Ready, BootFails, TurnsTyped, waiting
<1>6. CASE \E t \in Tasks : EndTurn(t) \/ EndCancelled(t)
  <2> PICK t \in Tasks : EndTurn(t) \/ EndCancelled(t)
    BY <1>6
  <2>1. phase' \in [Tasks -> Phases]
    BY <1>2, <1>p DEF EndTurn, EndCancelled
  <2> QED
    BY <2>1 DEF EndTurn, EndCancelled, TurnsTyped, waiting
<1>7. CASE \E t \in Tasks : Cancel(t) \/ TurnTimeout(t) \/ KillerFires(t)
  BY <1>3, <1>7 DEF Cancel, TurnTimeout, KillerFires, TurnsTyped, waiting
<1>8. CASE \E t \in Tasks : CloseIdle(t) \/ Block(t) \/ Unblock(t) \/ SessionExit(t)
  BY <1>3, <1>8 DEF CloseIdle, Block, Unblock, SessionExit, TurnsTyped, waiting
<1>9. CASE (\E c \in scanning : ScanEnds(c)) \/ (\E c \in vm : CellExits(c))
  BY <1>3, <1>9 DEF ScanEnds, CellExits, TurnsTyped, waiting
<1>10. CASE \E n \in MaxCellsSettings : SetMaxCells(n)
  BY <1>3, <1>10 DEF SetMaxCells, TurnsTyped, waiting
<1>11. CASE \E c \in leaving : CloseDone(c)
  <2> PICK c \in leaving : CloseDone(c)
    BY <1>11
  <2> DEFINE woken == [t \in Tasks |-> IF Closed(c, t) THEN "want" ELSE phase[t]]
  <2>1. woken \in [Tasks -> Phases]
    BY <1>3 DEF Phases
  <2>2. phase' \in [Tasks -> Phases]
    <3>1. phase' = Woken(woken)
      BY DEF CloseDone
    <3> HIDE DEF woken
    <3> QED
      BY <1>1, <2>1, <3>1
  <2>3. line' \subseteq Tasks /\ before' \in [Tasks -> SUBSET Tasks]
    BY DEF CloseDone, TurnsTyped
  <2>4. awaits' \in [Tasks -> (Tasks \X Nat) \cup {NoCell}]
    BY DEF CloseDone, TurnsTyped
  <2> QED
    BY <2>2, <2>3, <2>4 DEF CloseDone, TurnsTyped
<1>12. CASE UNCHANGED vars
  BY <1>12 DEF vars, waiting, TurnsTyped
<1> QED
  BY <1>4, <1>5, <1>6, <1>7, <1>8, <1>9, <1>10, <1>11, <1>12 DEF Next

\* Every step keeps the types of the cells, and only the start of one takes room in the VM.
LEMMA CellsTypedNext ==
  ASSUME TurnsTyped, CellsTyped, Lines, [Next]_vars
  PROVE  /\ CellsTyped'
         /\ \/ \E t \in Tasks : StartCell(t)
            \/ cells' \cup Closing' \subseteq cells \cup Closing /\ cells' \subseteq cells /\ gen' = gen
<1> DEFINE Keeps == /\ CellsTyped'
                    /\ cells' \cup Closing' \subseteq cells \cup Closing
                    /\ cells' \subseteq cells /\ gen' = gen
<1>1. ASSUME UNCHANGED <<hub, closing>> PROVE Keeps
  BY <1>1 DEF hub, closing, CellsTyped, Closing
<1>2. ASSUME NEW t \in Tasks, CloseCell(t) PROVE Keeps
  BY <1>2, CloseCellIs
<1>3. ASSUME NEW t \in Tasks, ClearIdle({t}), gen' = gen, UNCHANGED closing,
             cells' = cells \/ cells' = cells \ {t}
      PROVE  Keeps
  <2>1. longer' \in [Tasks -> SUBSET idle'] /\ idle' \subseteq cells'
    BY <1>3 DEF ClearIdle, CellsTyped
  <2> QED
    BY <1>3, <2>1 DEF closing, CellsTyped, Closing
<1> HIDE DEF Keeps
<1>4. CASE \E t \in Tasks : Begin(t) \/ Want(t) \/ Park(t) \/ GiveUp(t) \/ RoomWaitOver(t)
  BY <1>1, <1>4 DEF Begin, Want, Park, GiveUp, RoomWaitOver, Keeps
<1>5. CASE \E t \in Tasks : Ready(t) \/ TurnTimeout(t) \/ Block(t) \/ Unblock(t)
  BY <1>1, <1>5 DEF Ready, TurnTimeout, Block, Unblock, Keeps
<1>6. CASE (\E c \in vm : CellExits(c)) \/ (\E n \in MaxCellsSettings : SetMaxCells(n)) \/ UNCHANGED vars
  BY <1>1, <1>6 DEF CellExits, SetMaxCells, vars, Keeps
<1>7. CASE \E t \in Tasks : PrepareFails(t) \/ BootFails(t) \/ Swap(t)
  BY <1>1, <1>2, <1>7 DEF PrepareFails, BootFails, Swap, Keeps
<1>8. CASE \E t \in Tasks : EndCancelled(t) \/ Cancel(t) \/ KillerFires(t) \/ CloseIdle(t)
  BY <1>2, <1>8 DEF EndCancelled, Cancel, KillerFires, CloseIdle, Keeps
<1>9. CASE \E t \in Tasks : Evict(t)
  <2>1. PICK u \in idle : CloseCell(u)
    BY <1>9 DEF Evict
  <2>2. u \in Tasks
    BY DEF CellsTyped
  <2> QED
    BY <1>2, <2>1, <2>2 DEF Keeps
<1>10. CASE \E t \in Tasks : Reuse(t) \/ SessionExit(t)
  BY <1>3, <1>10 DEF Reuse, SessionExit, Keeps
<1>11. CASE \E t \in Tasks : EndTurn(t)
  <2> PICK t \in Tasks : EndTurn(t)
    BY <1>11
  <2>1. longer' \in [Tasks -> SUBSET idle'] /\ idle' \subseteq cells
    BY DEF EndTurn, CellsTyped
  <2> QED
    BY <2>1 DEF EndTurn, closing, CellsTyped, Closing
<1>12. CASE \E c \in scanning : ScanEnds(c)
  BY <1>12 DEF ScanEnds, hub, CellsTyped, Closing
<1>13. CASE \E c \in leaving : CloseDone(c)
  <2> PICK c \in leaving : CloseDone(c)
    BY <1>13
  <2>1. /\ closingTask' \in [Tasks -> Nat]
        /\ \A t \in Tasks : closingTask'[t] # 0 => closingTask[t] # 0
    BY DEF CloseDone, CellsTyped
  <2> QED
    BY <2>1 DEF CloseDone, hub, CellsTyped, Closing
<1>14. CASE \E t \in Tasks : StartCell(t)
  <2> PICK t \in Tasks : StartCell(t)
    BY <1>14
  <2>1. gen' \in [Tasks -> Nat]
    BY DEF StartCell, CellsTyped
  <2> QED
    BY <2>1 DEF StartCell, closing, CellsTyped
<1> QED
  BY <1>4, <1>5, <1>6, <1>7, <1>8, <1>9, <1>10, <1>11, <1>12, <1>13, <1>14
     DEF Next, GetsReady, LooksForRoom, Keeps

\* The VM never holds more cells than its ceiling (StartCell's refusal), and neither does the
\* hub, which counts those that close (HasRoom).
LEMMA CeilingNext ==
  ASSUME TurnsTyped, CellsTyped, Lines, InVM, Occupied <= CellCeiling, [Next]_vars
  PROVE  InVM' /\ Occupied' <= CellCeiling
<1>c. CellsTyped' /\ CellCeiling \in Nat
  BY CellsTypedNext, Bounds
<1>o. /\ cells \cup Closing \in SUBSET Tasks /\ cells' \cup Closing' \in SUBSET Tasks
      /\ Occupied = Cardinality(cells \cup Closing) /\ Occupied' = Cardinality(cells' \cup Closing')
  BY <1>c DEF CellsTyped, Closing, Occupied
<1>i. Occupied \in Nat /\ Occupied' \in Nat
  BY <1>o, Smaller
<1>1. CASE \E t \in Tasks : StartCell(t)
  <2> PICK t \in Tasks : StartCell(t)
    BY <1>1
  <2>1. Occupied < CellCeiling
    BY DEF StartCell, HasRoom
  <2>2. cells' \cup Closing' = (cells \cup Closing) \cup {t}
    BY DEF StartCell, closing, Closing
  <2>3. IsFiniteSet(cells \cup Closing)
    BY <1>o, Bounds, FS_Subset
  <2>4. Occupied' = IF t \in cells \cup Closing THEN Occupied ELSE Occupied + 1
    BY <1>o, <2>2, <2>3, FS_AddElement
  <2>5. Occupied' <= CellCeiling
    BY <1>c, <1>i, <2>1, <2>4
  <2>6. InVM'
    <3>1. CASE Refused(t)
      BY <3>1 DEF StartCell, InVM
    <3>2. CASE ~Refused(t)
      <4> DEFINE n == Cardinality(vm)
      <4>1. vm' = vm \cup {<<t, gen[t] + 1>>} /\ ~(n >= CellCeiling)
        BY <3>2 DEF StartCell, Refused
      <4>2. <<t, gen[t] + 1>> \in Tasks \X Nat
        BY DEF CellsTyped
      <4>3. /\ IsFiniteSet(vm') /\ n \in Nat
            /\ Cardinality(vm') = IF <<t, gen[t] + 1>> \in vm THEN n ELSE n + 1
        BY <4>1, FS_AddElement, FS_CardinalityType DEF InVM
      <4> HIDE DEF n
      <4>4. Cardinality(vm') <= CellCeiling
        BY <1>c, <4>1, <4>3
      <4> QED
        BY <4>1, <4>2, <4>3, <4>4 DEF InVM
    <3> QED
      BY <3>1, <3>2
  <2> QED
    BY <2>5, <2>6
<1>2. CASE ~(\E t \in Tasks : StartCell(t))
  <2>1. Occupied' <= CellCeiling
    <3>1. cells' \cup Closing' \subseteq cells \cup Closing
      BY <1>2, CellsTypedNext
    <3>2. Occupied' <= Occupied
      BY <1>o, <3>1, Smaller
    <3> QED
      BY <1>c, <1>i, <3>2
  <2>2. vm' \subseteq vm
    <3> USE <1>2
    <3>1. CASE \E t \in Tasks : Begin(t) \/ GetsReady(t) \/ LooksForRoom(t) \/ RoomWaitOver(t)
      BY <3>1 DEF Begin, GetsReady, Reuse, Swap, Want, PrepareFails, LooksForRoom, Evict, Park, GiveUp,
                  RoomWaitOver
    <3>2. CASE \E t \in Tasks : \/ Ready(t) \/ BootFails(t) \/ EndTurn(t) \/ EndCancelled(t)
                                \/ Cancel(t) \/ TurnTimeout(t) \/ KillerFires(t) \/ CloseIdle(t)
                                \/ Block(t) \/ Unblock(t) \/ SessionExit(t)
      BY <3>2 DEF Ready, BootFails, EndTurn, EndCancelled, Cancel, TurnTimeout, KillerFires, CloseIdle,
                  Block, Unblock, SessionExit
    <3>3. CASE \/ (\E c \in scanning : ScanEnds(c)) \/ (\E c \in leaving : CloseDone(c))
               \/ (\E c \in vm : CellExits(c)) \/ (\E n \in MaxCellsSettings : SetMaxCells(n))
               \/ UNCHANGED vars
      BY <3>3 DEF ScanEnds, CloseDone, CellExits, SetMaxCells, vars
    <3> QED
      BY <3>1, <3>2, <3>3 DEF Next
  <2>3. InVM'
    <3>1. IsFiniteSet(vm') /\ Cardinality(vm') <= Cardinality(vm)
      BY <2>2, FS_Subset DEF InVM
    <3>2. Cardinality(vm') \in Nat /\ Cardinality(vm) \in Nat
      BY <3>1, FS_CardinalityType DEF InVM
    <3>3. Cardinality(vm') <= CellCeiling
      BY <1>c, <3>1, <3>2 DEF InVM
    <3> QED
      BY <2>2, <3>1, <3>3 DEF InVM
  <2> QED
    BY <2>1, <2>3
<1> QED
  BY <1>1, <1>2

(***************************************************************************)
(* The line, and who sleeps in it.                                         *)
(***************************************************************************)

\* A step that starts no cell puts into the line, or lets wait for its own cell, only turns that
\* have none.
LEMMA LinesKept ==
  ASSUME CellsTyped, Lines, cells' \subseteq cells, gen' = gen,
         \A u \in line' : u \in line \/ u \notin cells',
         \A u \in Tasks : phase'[u] = "swap" => phase[u] = "swap" \/ u \notin cells'
  PROVE  Lines'
BY DEF Lines, CellsTyped

\* A turn in the line has no cell, nor has one that swaps its own.
LEMMA LinesNext ==
  ASSUME TurnsTyped, CellsTyped, Lines, [Next]_vars
  PROVE  Lines'
<1> DEFINE Kept == /\ \A u \in line' : u \in line \/ u \notin cells'
                   /\ \A u \in Tasks : phase'[u] = "swap" => phase[u] = "swap" \/ u \notin cells'
<1>1. CASE \E t \in Tasks : StartCell(t)
  <2> PICK t \in Tasks : StartCell(t)
    BY <1>1
  <2>1. line' = line \ {t} /\ cells' = cells \cup {t} /\ gen' = [gen EXCEPT ![t] = @ + 1]
    BY DEF StartCell, LeaveLine
  <2>2. /\ \A u \in Tasks : phase'[u] = "swap" => phase[u] = "swap" /\ u # t
        /\ \A u \in cells' : gen'[u] > 0
    <3>1. phase' = [u \in Tasks |-> IF u = t THEN "boot" ELSE IF phase[u] = "parked" THEN "want" ELSE phase[u]]
      BY DEF StartCell, Woken, TurnsTyped
    <3> QED
      BY <2>1, <3>1 DEF TurnsTyped, CellsTyped, Lines
  <2> QED
    BY <2>1, <2>2 DEF Lines
<1>2. CASE ~(\E t \in Tasks : StartCell(t))
  <2>1. CellsTyped' /\ cells' \subseteq cells /\ gen' = gen
    BY <1>2, CellsTypedNext
  <2> SUFFICES Kept
    BY <2>1, LinesKept
  <2>2. CASE \E t \in Tasks : Begin(t) \/ Want(t)
    BY <2>1, <2>2 DEF Begin, Want, JoinLine, TurnsTyped, hub
  <2>3. CASE \E t \in Tasks : PrepareFails(t) \/ GiveUp(t)
    BY <2>3 DEF PrepareFails, GiveUp, LeaveLine, Woken, TurnsTyped
  <2>4. CASE \E t \in Tasks : Reuse(t) \/ Evict(t) \/ Park(t) \/ RoomWaitOver(t)
    BY <2>4 DEF Reuse, Evict, Park, RoomWaitOver, waiting, TurnsTyped
  <2>5. CASE \E t \in Tasks : Swap(t)
    <3> PICK t \in Tasks : Swap(t)
      BY <2>5
    <3>1. t \notin cells'
      BY CloseCellIs DEF Swap
    <3> QED
      BY <3>1 DEF Swap, TurnsTyped
  <2>6. CASE \E t \in Tasks : Ready(t) \/ BootFails(t) \/ EndTurn(t) \/ EndCancelled(t)
    <3> PICK t \in Tasks : Ready(t) \/ BootFails(t) \/ EndTurn(t) \/ EndCancelled(t)
      BY <2>6
    <3>1. line' = line
      BY DEF Ready, BootFails, EndTurn, EndCancelled, waiting
    <3>2. \E s \in {"off", "turn"} : phase' = [phase EXCEPT ![t] = s] \/ phase' = Woken([phase EXCEPT ![t] = s])
      BY DEF Ready, BootFails, EndTurn, EndCancelled, Leave
    <3> QED
      BY <3>1, <3>2 DEF Woken, TurnsTyped
  <2>7. CASE \E t \in Tasks : \/ Cancel(t) \/ TurnTimeout(t) \/ KillerFires(t) \/ CloseIdle(t)
                              \/ Block(t) \/ Unblock(t) \/ SessionExit(t)
    BY <2>7 DEF Cancel, TurnTimeout, KillerFires, CloseIdle, Block, Unblock, SessionExit, waiting, Woken
  <2>8. CASE \E c \in leaving : CloseDone(c)
    BY <2>1, <2>8 DEF CloseDone, Closed, Woken, Lines
  <2>9. CASE \/ (\E c \in scanning : ScanEnds(c)) \/ (\E c \in vm : CellExits(c))
             \/ (\E n \in MaxCellsSettings : SetMaxCells(n)) \/ UNCHANGED vars
    BY <2>9 DEF ScanEnds, CellExits, SetMaxCells, vars, waiting, Woken
  <2> QED
    BY <1>2, <2>2, <2>3, <2>4, <2>5, <2>6, <2>7, <2>8, <2>9 DEF Next, GetsReady, LooksForRoom
<1> QED
  BY <1>1, <1>2

\* roomQueue holds the turns that look for a cell and no other.
LEMMA InLineNext ==
  ASSUME TurnsTyped, Lines, InLine, [Next]_vars
  PROVE  InLine'
<1>1. CASE \E t \in Tasks : Begin(t) \/ Want(t)
  BY <1>1 DEF Begin, Want, Prepared, JoinLine, TurnsTyped, InLine
<1>2. CASE \E t \in Tasks : PrepareFails(t) \/ GiveUp(t) \/ StartCell(t)
  <2> PICK t \in Tasks : PrepareFails(t) \/ GiveUp(t) \/ StartCell(t)
    BY <1>2
  <2>1. line' = line \ {t} /\ phase[t] \in {"prepare", "want"}
    BY DEF PrepareFails, GiveUp, StartCell, LeaveLine
  <2>2. \E s \in {"off", "boot"} : phase' = [phase EXCEPT ![t] = s] \/ phase' = Woken([phase EXCEPT ![t] = s])
    BY DEF PrepareFails, GiveUp, StartCell
  <2> QED
    BY <2>1, <2>2 DEF Woken, TurnsTyped, InLine
<1>3. CASE \E t \in Tasks : Reuse(t) \/ Swap(t)
  <2> PICK t \in Tasks : Reuse(t) \/ Swap(t)
    BY <1>3
  <2>1. line' = line /\ phase[t] = "prepare" /\ phase' \in {[phase EXCEPT ![t] = "turn"], [phase EXCEPT ![t] = "swap"]}
    BY DEF Reuse, Swap, Prepared, waiting
  <2>2. t \notin line
    BY DEF Reuse, Swap, Lines
  <2> QED
    BY <2>1, <2>2 DEF TurnsTyped, InLine
<1>4. CASE \E t \in Tasks : Evict(t) \/ Park(t) \/ RoomWaitOver(t)
  BY <1>4 DEF Evict, Park, RoomWaitOver, TurnsTyped, InLine
<1>5. CASE \E t \in Tasks : Ready(t) \/ BootFails(t) \/ EndTurn(t) \/ EndCancelled(t)
  <2> PICK t \in Tasks : Ready(t) \/ BootFails(t) \/ EndTurn(t) \/ EndCancelled(t)
    BY <1>5
  <2>1. line' = line /\ phase[t] \in {"boot", "turn"}
    BY DEF Ready, BootFails, EndTurn, EndCancelled, waiting
  <2>2. \E s \in {"off", "turn"} : phase' = [phase EXCEPT ![t] = s] \/ phase' = Woken([phase EXCEPT ![t] = s])
    BY DEF Ready, BootFails, EndTurn, EndCancelled, Leave
  <2> QED
    BY <2>1, <2>2 DEF Woken, TurnsTyped, InLine
<1>6. CASE \E t \in Tasks : \/ Cancel(t) \/ TurnTimeout(t) \/ KillerFires(t) \/ CloseIdle(t)
                            \/ Block(t) \/ Unblock(t) \/ SessionExit(t)
  <2>1. line' = line /\ (phase' = phase \/ phase' = Woken(phase))
    BY <1>6 DEF Cancel, TurnTimeout, KillerFires, CloseIdle, Block, Unblock, SessionExit, waiting
  <2> QED
    BY <2>1 DEF Woken, InLine
<1>7. CASE \E c \in leaving : CloseDone(c)
  <2> PICK c \in leaving : CloseDone(c)
    BY <1>7
  <2> DEFINE joins == {t \in Tasks : Closed(c, t) /\ phase[t] = "swap"}
  <2>1. /\ line' = line \cup joins
        /\ phase' = Woken([t \in Tasks |-> IF Closed(c, t) THEN "want" ELSE phase[t]])
    BY DEF CloseDone
  <2> QED
    BY <2>1 DEF Closed, Woken, InLine
<1>8. CASE \/ (\E c \in scanning : ScanEnds(c)) \/ (\E c \in vm : CellExits(c))
           \/ (\E n \in MaxCellsSettings : SetMaxCells(n)) \/ UNCHANGED vars
  <2>1. line' = line /\ (phase' = phase \/ phase' = Woken(phase))
    BY <1>8 DEF ScanEnds, CellExits, SetMaxCells, vars, waiting
  <2> QED
    BY <2>1 DEF Woken, InLine
<1> QED
  BY <1>1, <1>2, <1>3, <1>4, <1>5, <1>6, <1>7, <1>8 DEF Next, GetsReady, LooksForRoom

\* A cell without a turn is idle, and the cell of a turn is not.
LEMMA IdleNext ==
  ASSUME TurnsTyped, CellsTyped, Lines, InLine, IdleBetweenTurns, [Next]_vars
  PROVE  IdleBetweenTurns'
<1> USE DEF IdleBetweenTurns
<1>s. idle \subseteq Tasks
  BY DEF CellsTyped
<1>1. ASSUME idle' \subseteq idle, phase' = phase \/ phase' = Woken(phase) PROVE IdleBetweenTurns'
  BY <1>s, <1>1 DEF Woken
<1>2. CASE \E t \in Tasks : Begin(t) \/ Want(t) \/ Park(t) \/ RoomWaitOver(t)
  BY <1>2, <1>s DEF Begin, Want, Park, RoomWaitOver, hub, TurnsTyped
<1>3. CASE \E t \in Tasks : PrepareFails(t) \/ GiveUp(t)
  <2> PICK t \in Tasks : PrepareFails(t) \/ GiveUp(t)
    BY <1>3
  <2>1. idle' \subseteq idle
    BY DEF PrepareFails, GiveUp, CloseCell, CloseCells, ClearIdle, hub
  <2>2. phase' = [phase EXCEPT ![t] = "off"] \/ phase' = Woken([phase EXCEPT ![t] = "off"])
    BY DEF PrepareFails, GiveUp
  <2> QED
    BY <1>s, <2>1, <2>2 DEF Woken, TurnsTyped
<1>4. CASE \E t \in Tasks : StartCell(t)
  <2> PICK t \in Tasks : StartCell(t)
    BY <1>4
  <2>1. t \notin idle
    BY DEF StartCell, InLine, Lines, CellsTyped
  <2>2. idle' = idle /\ phase' = Woken([phase EXCEPT ![t] = "boot"])
    BY DEF StartCell
  <2> QED
    BY <1>s, <2>1, <2>2 DEF Woken, TurnsTyped
<1>5. CASE \E t \in Tasks : Reuse(t)
  BY <1>s, <1>5 DEF Reuse, ClearIdle, TurnsTyped
<1>6. CASE \E t \in Tasks : Swap(t) \/ Evict(t)
  <2>1. idle' \subseteq idle
    BY <1>6 DEF Swap, Evict, CloseCell, CloseCells, ClearIdle
  <2> QED
    BY <1>s, <1>6, <2>1 DEF Swap, Evict, TurnsTyped
<1>7. CASE \E t \in Tasks : Ready(t) \/ BootFails(t)
  <2> PICK t \in Tasks : Ready(t) \/ BootFails(t)
    BY <1>7
  <2>1. idle' \subseteq idle /\ phase[t] = "boot"
    BY DEF Ready, BootFails, CloseCell, CloseCells, ClearIdle, hub
  <2>2. \E s \in {"off", "turn"} : phase' = [phase EXCEPT ![t] = s] \/ phase' = Woken([phase EXCEPT ![t] = s])
    BY DEF Ready, BootFails, Leave
  <2> QED
    BY <1>s, <2>1, <2>2 DEF Woken, TurnsTyped
<1>8. CASE \E t \in Tasks : EndTurn(t) \/ EndCancelled(t)
  <2> PICK t \in Tasks : EndTurn(t) \/ EndCancelled(t)
    BY <1>8
  <2>1. idle' \subseteq idle \cup {t}
    BY DEF EndTurn, EndCancelled, CloseCell, CloseCells, ClearIdle
  <2>2. phase' = [phase EXCEPT ![t] = "off"] \/ phase' = Woken([phase EXCEPT ![t] = "off"])
    BY DEF EndTurn, EndCancelled
  <2> QED
    BY <1>s, <2>1, <2>2 DEF Woken, TurnsTyped
<1>9. CASE \E t \in Tasks : \/ Cancel(t) \/ TurnTimeout(t) \/ KillerFires(t) \/ CloseIdle(t)
                             \/ Block(t) \/ Unblock(t) \/ SessionExit(t)
  <2>1. idle' \subseteq idle /\ (phase' = phase \/ phase' = Woken(phase))
    BY <1>9 DEF Cancel, TurnTimeout, KillerFires, CloseIdle, Block, Unblock, SessionExit, hub,
                 CloseCell, CloseCells, ClearIdle
  <2> QED
    BY <1>1, <2>1
<1>10. CASE \E c \in leaving : CloseDone(c)
  <2> PICK c \in leaving : CloseDone(c)
    BY <1>10
  <2>1. idle' = idle /\ phase' = Woken([t \in Tasks |-> IF Closed(c, t) THEN "want" ELSE phase[t]])
    BY DEF CloseDone, hub
  <2> QED
    BY <1>s, <2>1 DEF Woken, TurnsTyped
<1>11. CASE \/ (\E c \in scanning : ScanEnds(c)) \/ (\E c \in vm : CellExits(c))
            \/ (\E n \in MaxCellsSettings : SetMaxCells(n)) \/ UNCHANGED vars
  <2>1. idle' = idle /\ (phase' = phase \/ phase' = Woken(phase))
    BY <1>11 DEF ScanEnds, CellExits, SetMaxCells, vars, hub
  <2> QED
    BY <1>1, <2>1
<1> QED
  BY <1>2, <1>3, <1>4, <1>5, <1>6, <1>7, <1>8, <1>9, <1>10, <1>11 DEF Next, GetsReady, LooksForRoom

\* A turn waits for a cell that closes, as long as it does.
LEMMA AwaitingNext ==
  ASSUME TurnsTyped, CellsTyped, Lines, Awaiting, [Next]_vars
  PROVE  Awaiting'
<1> USE DEF Awaiting
<1>1. ASSUME awaits' = awaits, scanning \cup leaving \subseteq scanning' \cup leaving',
             \A u \in Tasks : phase'[u] \in {"swap", "evict"} => phase'[u] = phase[u]
      PROVE  Awaiting'
  BY <1>1
<1>2. ASSUME NEW t \in Tasks, CloseCell(t)
      PROVE  scanning \subseteq scanning' /\ leaving' = leaving /\ (t \in cells => Cell(t) \in scanning')
  BY <1>2, CloseCellIs
<1>3. CASE \E t \in Tasks : \/ Begin(t) \/ Reuse(t) \/ Want(t) \/ PrepareFails(t) \/ StartCell(t)
                            \/ Park(t) \/ GiveUp(t) \/ RoomWaitOver(t)
  <2> PICK t \in Tasks : \/ Begin(t) \/ Reuse(t) \/ Want(t) \/ PrepareFails(t) \/ StartCell(t)
                         \/ Park(t) \/ GiveUp(t) \/ RoomWaitOver(t)
    BY <1>3
  <2>1. awaits' = awaits
    BY DEF Begin, Reuse, Want, PrepareFails, StartCell, Park, GiveUp, RoomWaitOver, waiting
  <2>2. scanning \subseteq scanning' /\ leaving' = leaving
    BY <1>2 DEF Begin, Reuse, Want, PrepareFails, StartCell, Park, GiveUp, RoomWaitOver, closing
  <2>3. \/ phase' = [phase EXCEPT ![t] = IF @ = "parked" THEN "want" ELSE @]
        \/ \E s \in {"prepare", "turn", "want", "boot", "parked", "off"} :
             phase' = [phase EXCEPT ![t] = s] \/ phase' = Woken([phase EXCEPT ![t] = s])
    BY DEF Begin, Reuse, Want, PrepareFails, StartCell, Park, GiveUp, RoomWaitOver
  <2>4. \A u \in Tasks : phase'[u] \in {"swap", "evict"} => phase'[u] = phase[u]
    BY <2>3 DEF Woken, TurnsTyped
  <2> QED
    BY <1>1, <2>1, <2>2, <2>4
<1>4. CASE \E t \in Tasks : Swap(t)
  <2> PICK t \in Tasks : Swap(t)
    BY <1>4
  <2>1. scanning \subseteq scanning' /\ leaving' = leaving /\ Cell(t) \in scanning'
    BY <1>2 DEF Swap
  <2>2. phase' = [phase EXCEPT ![t] = "swap"] /\ awaits' = [awaits EXCEPT ![t] = Cell(t)]
    BY DEF Swap
  <2> QED
    BY <2>1, <2>2 DEF TurnsTyped
<1>5. CASE \E t \in Tasks : Evict(t)
  <2> PICK t \in Tasks : Evict(t)
    BY <1>5
  <2>1. PICK u \in idle : CloseCell(u) /\ awaits' = [awaits EXCEPT ![t] = Cell(u)]
    BY DEF Evict
  <2>2. u \in Tasks /\ u \in cells
    BY DEF CellsTyped
  <2>3. scanning \subseteq scanning' /\ leaving' = leaving /\ Cell(u) \in scanning'
    BY <1>2, <2>1, <2>2
  <2>4. phase' = [phase EXCEPT ![t] = "evict"]
    BY DEF Evict
  <2> QED
    BY <2>1, <2>3, <2>4 DEF TurnsTyped
<1>6. CASE \E t \in Tasks : Ready(t) \/ BootFails(t) \/ EndTurn(t) \/ EndCancelled(t)
  <2> PICK t \in Tasks : Ready(t) \/ BootFails(t) \/ EndTurn(t) \/ EndCancelled(t)
    BY <1>6
  <2>1. awaits' = awaits
    BY DEF Ready, BootFails, EndTurn, EndCancelled, waiting
  <2>2. scanning \subseteq scanning' /\ leaving' = leaving
    BY <1>2 DEF Ready, BootFails, EndTurn, EndCancelled, closing
  <2>3. \E s \in {"off", "turn"} : phase' = [phase EXCEPT ![t] = s] \/ phase' = Woken([phase EXCEPT ![t] = s])
    BY DEF Ready, BootFails, EndTurn, EndCancelled, Leave
  <2>4. \A u \in Tasks : phase'[u] \in {"swap", "evict"} => phase'[u] = phase[u]
    BY <2>3 DEF Woken, TurnsTyped
  <2> QED
    BY <1>1, <2>1, <2>2, <2>4
<1>7. CASE \E t \in Tasks : \/ Cancel(t) \/ TurnTimeout(t) \/ KillerFires(t) \/ CloseIdle(t)
                            \/ Block(t) \/ Unblock(t) \/ SessionExit(t)
  <2>1. /\ awaits' = awaits /\ scanning \subseteq scanning' /\ leaving' = leaving
        /\ phase' = phase \/ phase' = Woken(phase)
    BY <1>2, <1>7 DEF Cancel, TurnTimeout, KillerFires, CloseIdle, Block, Unblock, SessionExit, waiting, closing
  <2> QED
    BY <1>1, <2>1 DEF Woken
<1>8. CASE \E c \in leaving : CloseDone(c)
  <2> PICK c \in leaving : CloseDone(c)
    BY <1>8
  <2>1. /\ phase' = Woken([t \in Tasks |-> IF Closed(c, t) THEN "want" ELSE phase[t]])
        /\ awaits' = [t \in Tasks |-> IF Closed(c, t) THEN NoCell ELSE awaits[t]]
        /\ scanning' = scanning /\ leaving' = leaving \ {c}
    BY DEF CloseDone
  <2> QED
    BY <2>1 DEF Closed, Woken
<1>9. CASE \/ (\E c \in scanning : ScanEnds(c)) \/ (\E c \in vm : CellExits(c))
           \/ (\E n \in MaxCellsSettings : SetMaxCells(n)) \/ UNCHANGED vars
  <2>1. /\ awaits' = awaits /\ scanning \cup leaving \subseteq scanning' \cup leaving'
        /\ phase' = phase \/ phase' = Woken(phase)
    BY <1>9 DEF ScanEnds, CellExits, SetMaxCells, vars, waiting, closing
  <2> QED
    BY <1>1, <2>1 DEF Woken
<1> QED
  BY <1>3, <1>4, <1>5, <1>6, <1>7, <1>8, <1>9 DEF Next, GetsReady, LooksForRoom

\* No wake-up is lost: whatever makes room, or puts a turn further ahead, wakes those that sleep.
LEMMA AsleepNext ==
  ASSUME TurnsTyped, CellsTyped, Lines, Asleep, [Next]_vars
  PROVE  Asleep'
<1> DEFINE Awake == \A u \in Tasks : phase'[u] # "parked"
           Full  == /\ cells' \cup Closing' = cells \cup Closing
                    /\ cells' \subseteq cells /\ idle' \subseteq idle
<1>1. ASSUME Awake PROVE Asleep'
  BY <1>1, StillAsleep
<1>w. \A f \in [Tasks -> Phases] : phase' = Woken(f) => Asleep'
  BY <1>1, WokenIs
<1>o. \A t \in Tasks, s \in Phases : [phase EXCEPT ![t] = s] \in [Tasks -> Phases]
  BY DEF TurnsTyped
<1>p. phase \in [Tasks -> Phases] /\ line' \subseteq Tasks
  BY TurnsTypedNext DEF TurnsTyped
<1>2. ASSUME UNCHANGED <<hub, closing>> PROVE Full
  BY <1>2 DEF hub, closing, Closing
<1>3. ASSUME NEW t \in Tasks, CloseCell(t) PROVE Full
  BY <1>3, CloseCellIs
<1>4. ASSUME UNCHANGED <<maxCells, blocked>>, Full,
             \A u \in Tasks : phase'[u] = "parked" =>
               phase[u] = "parked" /\ (u \in aborted' => u \in aborted) /\ Ahead(u) \subseteq Ahead(u)'
      PROVE  Asleep'
  BY <1>4, <1>p, StillAsleep
<1>5. ASSUME UNCHANGED <<line, before>> PROVE \A u \in Tasks : Ahead(u)' = Ahead(u)
  BY <1>5 DEF Ahead
<1> HIDE DEF Awake, Full
<1>6. CASE \E t \in Tasks : Begin(t) \/ Want(t)
  <2> PICK t \in Tasks : Begin(t) \/ Want(t)
    BY <1>6
  <2>1. Full /\ UNCHANGED <<maxCells, blocked, aborted>>
    BY <1>2 DEF Begin, Want
  <2>2. phase'[t] # "parked" /\ \A u \in Tasks \ {t} : phase'[u] = phase[u]
    BY <1>p DEF Begin, Want
  <2>3. \A u \in Tasks \ {t} : Ahead(u) \subseteq Ahead(u)'
    BY <1>5, JoinLineIs DEF Begin, Want
  <2> QED
    BY <1>4, <2>1, <2>2, <2>3
<1>7. CASE \E t \in Tasks : PrepareFails(t)
  <2> PICK t \in Tasks : PrepareFails(t)
    BY <1>7
  <2>1. CASE t \in line
    BY <1>o, <1>w, <2>1 DEF PrepareFails, Phases
  <2>2. CASE t \notin line
    <3>1. Full /\ UNCHANGED <<maxCells, blocked>> /\ aborted' \subseteq aborted
      BY <1>2, <1>3 DEF PrepareFails, Drop
    <3>2. phase'[t] # "parked" /\ \A u \in Tasks \ {t} : phase'[u] = phase[u]
      BY <1>p, <2>2 DEF PrepareFails
    <3>3. \A u \in Tasks \ {t} : Ahead(u) \subseteq Ahead(u)'
      BY <2>2, LeaveLineIs DEF PrepareFails
    <3> QED
      BY <1>4, <3>1, <3>2, <3>3
  <2> QED
    BY <2>1, <2>2
<1>8. CASE \E t \in Tasks : StartCell(t) \/ GiveUp(t)
  BY <1>8, <1>o, <1>w DEF StartCell, GiveUp, Phases
<1>9. CASE \E t \in Tasks : Reuse(t) \/ Swap(t)
  <2> PICK t \in Tasks : Reuse(t) \/ Swap(t)
    BY <1>9
  <2>1. Full
    BY <1>3 DEF Reuse, Swap, ClearIdle, closing, Closing, Full
  <2>2. UNCHANGED <<line, before, maxCells, blocked, aborted>>
    BY DEF Reuse, Swap, waiting
  <2>3. \A u \in Tasks : phase'[u] = "parked" => phase[u] = "parked"
    BY <1>p DEF Reuse, Swap
  <2> QED
    BY <1>4, <1>5, <2>1, <2>2, <2>3
<1>10. CASE \E t \in Tasks : Evict(t)
  <2> PICK t \in Tasks : Evict(t)
    BY <1>10
  <2>1. PICK u \in idle : CloseCell(u)
    BY DEF Evict
  <2>2. u \in Tasks
    BY DEF CellsTyped
  <2>3. Full
    BY <1>3, <2>1, <2>2
  <2>4. UNCHANGED <<line, before, maxCells, blocked, aborted>> /\ phase' = [phase EXCEPT ![t] = "evict"]
    BY DEF Evict
  <2>5. \A v \in Tasks : phase'[v] = "parked" => phase[v] = "parked"
    BY <1>p, <2>4
  <2> QED
    BY <1>4, <1>5, <2>3, <2>4, <2>5
<1>11. CASE \E t \in Tasks : Park(t)
  <2> PICK t \in Tasks : Park(t)
    BY <1>11
  <2>1. UNCHANGED <<line, before, maxCells, blocked, aborted, hub, closing>> /\ phase' = [phase EXCEPT ![t] = "parked"]
    BY DEF Park
  <2>2. Full /\ \A u \in Tasks : Ahead(u)' = Ahead(u)
    BY <1>2, <1>5, <2>1
  <2>3. \A u \in Tasks : (HasRoom(u)' => HasRoom(u)) /\ (MayEvict(u)' => MayEvict(u))
    BY <1>p, <2>1, <2>2, RoomShrinks DEF Full
  <2>4. \A u \in Tasks : phase'[u] = "parked" => u = t \/ phase[u] = "parked"
    BY <1>p, <2>1
  <2>5. ~HasRoom(t) /\ ~MayEvict(t) /\ t \notin aborted
    BY DEF Park
  <2> QED
    BY <2>1, <2>3, <2>4, <2>5 DEF Asleep
<1>12. CASE \E t \in Tasks : RoomWaitOver(t) \/ TurnTimeout(t) \/ KillerFires(t) \/ CloseIdle(t)
  <2> PICK t \in Tasks : RoomWaitOver(t) \/ TurnTimeout(t) \/ KillerFires(t) \/ CloseIdle(t)
    BY <1>12
  <2>1. Full
    BY <1>2, <1>3 DEF RoomWaitOver, TurnTimeout, KillerFires, CloseIdle
  <2>2. UNCHANGED <<line, before, maxCells, blocked, aborted>>
    BY DEF RoomWaitOver, TurnTimeout, KillerFires, CloseIdle, waiting
  <2>3. \A u \in Tasks : phase'[u] = "parked" => phase[u] = "parked"
    BY <1>p DEF RoomWaitOver, TurnTimeout, KillerFires, CloseIdle
  <2> QED
    BY <1>4, <1>5, <2>1, <2>2, <2>3
<1>13. CASE \E t \in Tasks : Ready(t) \/ BootFails(t)
  <2> PICK t \in Tasks : Ready(t) \/ BootFails(t)
    BY <1>13
  <2>1. PICK s \in {"off", "turn"} : phase' = [phase EXCEPT ![t] = s] \/ phase' = Woken([phase EXCEPT ![t] = s])
    BY DEF Ready, BootFails, Leave
  <2>2. CASE phase' = Woken([phase EXCEPT ![t] = s])
    BY <1>o, <1>w, <2>2 DEF Phases
  <2>3. CASE phase' = [phase EXCEPT ![t] = s]
    <3>1. Full
      BY <1>2, <1>3 DEF Ready, BootFails
    <3>2. UNCHANGED <<line, before, maxCells, blocked>> /\ aborted' \subseteq aborted
      BY DEF Ready, BootFails, Drop, waiting
    <3>3. \A u \in Tasks : phase'[u] = "parked" => phase[u] = "parked"
      BY <1>p, <2>3
    <3> QED
      BY <1>4, <1>5, <3>1, <3>2, <3>3
  <2> QED
    BY <2>1, <2>2, <2>3
<1>14. CASE \E t \in Tasks : EndTurn(t) \/ EndCancelled(t)
  <2> PICK t \in Tasks : EndTurn(t) \/ EndCancelled(t)
    BY <1>14
  <2>1. CASE t \in cells
    BY <1>o, <1>w, <2>1 DEF EndTurn, EndCancelled, Phases
  <2>2. CASE t \notin cells
    <3>1. Full
      BY <1>3, <2>2 DEF EndTurn, EndCancelled, closing, Closing, Full
    <3>2. UNCHANGED <<line, before, maxCells, blocked>> /\ aborted' \subseteq aborted
      BY DEF EndTurn, EndCancelled, waiting
    <3>3. \A u \in Tasks : phase'[u] = "parked" => phase[u] = "parked"
      BY <1>p, <2>2 DEF EndTurn, EndCancelled
    <3> QED
      BY <1>4, <1>5, <3>1, <3>2, <3>3
  <2> QED
    BY <2>1, <2>2
<1>15. CASE \E t \in Tasks : Cancel(t)
  <2> PICK t \in Tasks : Cancel(t)
    BY <1>15
  <2>1. CASE phase[t] \in {"want", "parked", "evict"}
    BY <1>p, <1>w, <2>1 DEF Cancel
  <2>2. CASE phase[t] \notin {"want", "parked", "evict"}
    <3>1. Full
      BY <1>3 DEF Cancel
    <3>2. UNCHANGED <<line, before, maxCells, blocked, phase>> /\ aborted' = aborted \cup {t}
      BY <2>2 DEF Cancel, waiting
    <3> QED
      BY <1>4, <1>5, <2>2, <3>1, <3>2
  <2> QED
    BY <2>1, <2>2
<1>16. CASE (\E t \in Tasks : Block(t) \/ Unblock(t) \/ SessionExit(t)) \/ (\E n \in MaxCellsSettings : SetMaxCells(n))
  BY <1>p, <1>w, <1>16 DEF Block, Unblock, SessionExit, SetMaxCells
<1>17. CASE \E c \in scanning : ScanEnds(c)
  BY <1>4, <1>5, <1>17 DEF ScanEnds, waiting, hub, Closing, Full
<1>18. CASE \E c \in leaving : CloseDone(c)
  <2> PICK c \in leaving : CloseDone(c)
    BY <1>18
  <2> DEFINE f == [t \in Tasks |-> IF Closed(c, t) THEN "want" ELSE phase[t]]
  <2>1. f \in [Tasks -> Phases]
    BY <1>p DEF Phases
  <2>2. phase' = Woken(f)
    BY DEF CloseDone
  <2> HIDE DEF f
  <2> QED
    BY <1>w, <2>1, <2>2
<1>19. CASE (\E c \in vm : CellExits(c)) \/ UNCHANGED vars
  <2>1. CASE phase' = Woken(phase)
    BY <1>p, <1>w, <2>1
  <2>2. CASE phase' # Woken(phase)
    <3>1. UNCHANGED <<phase, line, before, maxCells, blocked, aborted, hub, closing>>
      BY <1>19, <2>2 DEF CellExits, vars, waiting
    <3> QED
      BY <1>2, <1>4, <1>5, <3>1
  <2> QED
    BY <2>1, <2>2
<1> QED
  BY <1>6, <1>7, <1>8, <1>9, <1>10, <1>11, <1>12, <1>13, <1>14, <1>15, <1>16, <1>17, <1>18, <1>19
     DEF Next, GetsReady, LooksForRoom

(***************************************************************************)
(* The theorems.                                                           *)
(***************************************************************************)

\* A daemon begins with no cell and no turn.
LEMMA InitInv == Init => Inv
<1> SUFFICES ASSUME Init PROVE Inv
  OBVIOUS
<1>1. TurnsTyped /\ CellsTyped
  BY DEF Init, TurnsTyped, CellsTyped, Phases
<1>2. cells \cup Closing = {} /\ vm = {}
  BY DEF Init, Closing
<1>3. InVM /\ Occupied <= CellCeiling
  BY <1>2, Bounds, FS_EmptySet DEF InVM, Occupied, Closing
<1>4. Lines /\ Asleep /\ Awaiting /\ InLine /\ IdleBetweenTurns
  BY DEF Init, Lines, Asleep, Awaiting, InLine, IdleBetweenTurns
<1> QED
  BY <1>1, <1>3, <1>4 DEF Inv

\* The invariant is inductive, and holds always.
LEMMA InvAlways == Spec => []Inv
<1>1. Inv /\ [Next]_vars => Inv'
  BY TurnsTypedNext, CellsTypedNext, CeilingNext, LinesNext, AsleepNext, AwaitingNext, InLineNext, IdleNext DEF Inv
<1> QED
  BY <1>1, InitInv, PTL DEF Spec

\* Every variable keeps its type, and neither the VM nor the hub ever has more cells than the
\* ceiling, those that still close included (hasRoom, cellFor, closeCell).
THEOREM RoomTyped == Spec => []TypeOK
<1>1. Inv => TypeOK
  BY DEF Inv, TurnsTyped, CellsTyped, InVM, Occupied, TypeOK
<1> QED
  BY <1>1, InvAlways, PTL

\* No turn in cellFor() sleeps while there is room for it, a cell it may close or an abort to
\* notice: every step that makes one of them true wakes it (roomChanged, cancelTask).
THEOREM WakeUpsReach == Spec => []NoLostWakeup
<1>1. Inv => NoLostWakeup
  BY DEF Inv, Asleep, Awaiting, InLine, NoLostWakeup
<1> QED
  BY <1>1, InvAlways, PTL

\* The idle timer, and the turns that make room, never close the cell of a turn (cellFor, armIdle).
THEOREM TurnsKeepTheirCells == Spec => []IdleBetweenTurns
<1>1. Inv => IdleBetweenTurns
  BY DEF Inv
<1> QED
  BY <1>1, InvAlways, PTL
===============================================================================
