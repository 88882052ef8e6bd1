---------------------------- MODULE GuestCellsProofs ----------------------------
(* Theorems about GuestCells, for any tasks, processes, ceiling and bounds. *)
EXTENDS GuestCells, TLAPS

(***************************************************************************)
(* The inductive invariant: who still has to remove the directory of a     *)
(* cell, and who still has to unmount what is mounted there.               *)
(***************************************************************************)

\* The parts of TypeOK.
ProcsTyped ==
  /\ pc \in [Procs -> Phases] /\ cell \in [Procs -> Cells \cup {None}]
  /\ again \subseteq Starts /\ registered \subseteq Builds /\ lock \in Starts \cup {None}
  /\ \A p \in Starts \cup Builds : pc[p] \notin {"reap", "list"} /\ (pc[p] # "off" => cell[p] \in Cells)
  /\ \A b \in Builds : cell[b] = b /\ pc[b] \notin {"stop", "stopping"}
  /\ pc[Reaper] \notin {"off", "reap", "list"} => cell[Reaper] \in Cells

SharedTyped ==
  /\ todo \subseteq Cells /\ kept \subseteq Builds
  /\ dir \in [Cells -> {"no", "made", "staged"}]
  /\ mounts \in [Cells -> SUBSET {"root", "workspace"}]
  /\ known \subseteq Cells /\ asked \subseteq Starts \cup Builds
  /\ \A p \in asked : pc[p] # "off"
  /\ late \subseteq orphans /\ orphans \subseteq Cells
  /\ pc[Reaper] = "off" => late = {}
  /\ rare \in 0..MaxRare /\ restarts \in 0..MaxRestarts

UnitsTyped ==
  /\ unit \in [Cells -> Starts \cup Builds \cup {None}]
  /\ halting \subseteq {c \in Cells : unit[c] # None}
  /\ \A c \in Cells : unit[c] # None => pc[unit[c]] # "off" /\ cell[unit[c]] = c

\* Every way of a process at work on a cell leads through rmtree(): only one that leaves without a
\* cleanup leaves its directory.  A reap takes up the directories it found, and what is left under it is for the next.
Removable(c) ==
  \/ \E p \in Procs : At(p, c)
  \/ c \in late
  \/ c \in orphans /\ (c \in kept \/ pc[Reaper] = "off" \/ (pc[Reaper] # "list" /\ c \in todo))

\* unmount_below() is yet to come.
WillUnmount(p) ==
  pc[p] \in Trying \cup {"stop", "stopping", "unmount"} \cup (IF p \in Builds THEN {} ELSE {"unregister"})

DirsHeld   == \A c \in Cells : dir[c] # "no" => Removable(c)
MountsHeld == \A c \in Cells \ orphans : mounts[c] # {} => \E p \in Procs : cell[p] = c /\ WillUnmount(p)

Inv == ProcsTyped /\ SharedTyped /\ UnitsTyped /\ DirsHeld /\ MountsHeld

(***************************************************************************)
(* A process goes on.                                                      *)
(***************************************************************************)

\* Where a process may have left something of a cell to itself.
Working == Trying \cup {"made", "stop", "stopping", "unregister", "unmount", "remove"}

\* One process moves on: it stays at work on its cell until rmtree(), and has to unmount until
\* nothing is mounted.  What it makes or mounts is of that cell.
Moves(p) ==
  /\ UNCHANGED <<cell, killed, reaper>> /\ again' \subseteq Starts /\ registered' \subseteq Builds
  /\ lock' \in Starts \cup {None}
  /\ pc[p] \notin {"off", "reap", "list"}
  /\ pc' = [pc EXCEPT ![p] = pc'[p]]
  /\ pc'[p] \in Phases \ {"off", "reap", "list"} /\ (p \in Builds => pc'[p] \notin {"stop", "stopping"})
  /\ pc[p] \in Working => pc'[p] \in Working

Makes(p) ==
  dir' = dir \/ (pc'[p] \in Working /\ \E d \in {"made", "staged"} : dir' = [dir EXCEPT ![cell[p]] = d])

Mounts(p) ==
  /\ WillUnmount(p) => WillUnmount(p)' \/ mounts'[cell[p]] = {}
  /\ \/ mounts' = mounts
     \/ WillUnmount(p) /\ \E m \in SUBSET {"root", "workspace"} : mounts' = [mounts EXCEPT ![cell[p]] = m]

Goes(p) == Moves(p) /\ Makes(p) /\ Mounts(p)

\* The process identities.
LEMMA Names == /\ Reaper \in Procs /\ Reaper \notin Starts \cup Builds
               /\ None \notin Starts \cup Builds \cup Tasks
               /\ Starts \cap Builds = {} /\ Starts \subseteq Procs /\ Builds \subseteq Procs
BY GuestAssumption DEF Procs

\* A step of the preparation is one.
LEMMA PreparesGoes ==
  ASSUME ProcsTyped, SharedTyped, NEW p \in Starts \cup Builds,
         \/ Check(p) \/ Exits(p) \/ Describe(p) \/ MountRoot(p) \/ NoAnswer(p)
         \/ StartFails(p) \/ StageDir(p) \/ Attach(p) \/ Launch(p) \/ Returns(p) \/ Signalled(p)
  PROVE  Goes(p)
<1> USE DEF To, Fails, Phases, Trying, Working
<1>1. /\ p \in Procs /\ pc[p] \in Phases \ {"reap", "list"} /\ again \subseteq Starts /\ registered \subseteq Builds
      /\ lock \in Starts \cup {None}
      /\ pc \in [Procs -> Phases]
      /\ pc[p] # "off" => cell[p] \in Cells /\ mounts[cell[p]] \subseteq {"root", "workspace"}
  BY Names DEF ProcsTyped, SharedTyped
<1>2. Moves(p)
  <2> USE DEF Moves, flags, reaper, killed
  <2>1. CASE Check(p) \/ Exits(p) \/ Describe(p)
    BY <1>1, <2>1 DEF Check, Exits, Describe, Released
  <2>2. CASE MountRoot(p) \/ NoAnswer(p) \/ StartFails(p)
    BY <1>1, <2>2 DEF MountRoot, NoAnswer, StartFails
  <2>3. CASE StageDir(p) \/ Attach(p) \/ Launch(p) \/ Returns(p)
    BY <1>1, <2>3 DEF StageDir, Attach, Launch, Returns
  <2>4. CASE Signalled(p)
    BY <1>1, <2>4, Names DEF Signalled
  <2> QED
    BY <2>1, <2>2, <2>3, <2>4
<1>3. Makes(p)
  <2> USE DEF Makes
  <2>1. CASE Check(p) \/ StageDir(p)
    BY <1>1, <2>1 DEF Check, StageDir
  <2>2. CASE Exits(p) \/ Describe(p) \/ MountRoot(p) \/ NoAnswer(p) \/ StartFails(p) \/ Attach(p) \/ Launch(p) \/ Returns(p) \/ Signalled(p)
    BY <2>2 DEF Exits, Describe, MountRoot, NoAnswer, StartFails, Attach, Launch, Returns, Signalled
  <2> QED
    BY <2>1, <2>2
<1>4. Mounts(p)
  <2> USE DEF Mounts, WillUnmount
  <2>1. CASE MountRoot(p) \/ Attach(p)
    BY <1>1, <2>1 DEF MountRoot, Attach
  <2>2. CASE Check(p) \/ Exits(p) \/ Describe(p) \/ StageDir(p) \/ Launch(p) \/ Returns(p)
    BY <1>1, <2>2 DEF Check, Exits, Describe, StageDir, Launch, Returns
  <2>3. CASE NoAnswer(p) \/ StartFails(p) \/ Signalled(p)
    BY <1>1, <2>3 DEF NoAnswer, StartFails, Signalled
  <2> QED
    BY <2>1, <2>2, <2>3
<1> QED
  BY <1>2, <1>3, <1>4 DEF Goes

\* So is one of the cleanup, up to rmtree().
LEMMA CleansUpGoes ==
  ASSUME ProcsTyped, SharedTyped, NEW p \in Procs, Stop(p) \/ Stopped(p) \/ Unregister(p) \/ Unmount(p)
  PROVE  Goes(p)
<1> USE DEF To, Phases, Trying, Working
<1>1. /\ pc \in [Procs -> Phases] /\ again \subseteq Starts /\ registered \subseteq Builds
      /\ lock \in Starts \cup {None}
      /\ pc[p] \notin {"off", "reap", "list"} => cell[p] \in Cells
      /\ mounts \in [Cells -> SUBSET {"root", "workspace"}]
      /\ p \in Builds => pc[p] \notin {"stop", "stopping"}
  BY Names DEF ProcsTyped, SharedTyped, Procs
<1>2. Moves(p)
  BY <1>1, Names DEF Stop, Stopped, Unregister, Unmount, Moves, flags, reaper, killed
<1>3. Makes(p)
  BY DEF Stop, Stopped, Unregister, Unmount, Makes
<1>4. Mounts(p)
  <2> USE DEF Mounts, WillUnmount
  <2>1. CASE Stop(p) \/ Stopped(p)
    BY <1>1, Names, <2>1 DEF Stop, Stopped
  <2>2. CASE Unregister(p)
    BY <1>1, <2>2 DEF Unregister
  <2>3. CASE Unmount(p)
    BY <1>1, Names, <2>3 DEF Unmount
  <2> QED
    BY <2>1, <2>2, <2>3
<1> QED
  BY <1>2, <1>3, <1>4 DEF Goes

\* And so is the proxy's answer to a process that waits for it.
LEMMA RegistersGoes ==
  ASSUME ProcsTyped, SharedTyped, NEW p \in Starts \cup Builds, Registers(p)
  PROVE  Goes(p) \/ UNCHANGED <<procs, reaper, killed, dir, mounts>>
<1> USE DEF To, Fails, Phases, Trying, Working
<1>1. /\ p \in Procs /\ pc \in [Procs -> Phases] /\ again \subseteq Starts /\ registered \subseteq Builds
      /\ lock \in Starts \cup {None}
  BY Names DEF ProcsTyped
<1>2. CASE pc[p] # "asking"
  BY <1>2 DEF Registers, procs, flags
<1>3. CASE pc[p] = "asking"
  <2>1. /\ pc' = [pc EXCEPT ![p] = pc'[p]] /\ pc'[p] \in {"unmount", "stop", "ready"}
        /\ p \in Builds => pc'[p] # "stop"
        /\ registered' \subseteq Builds /\ UNCHANGED <<cell, again, lock, reaper, dir, mounts, killed>>
    BY <1>1, <1>3 DEF Registers
  <2>2. Moves(p) /\ Makes(p) /\ Mounts(p)
    BY <1>1, <1>3, <2>1 DEF Moves, Makes, Mounts, WillUnmount
  <2> QED
    BY <2>2 DEF Goes
<1> QED
  BY <1>2, <1>3

\* It keeps the types of the processes.
LEMMA GoesTyped ==
  ASSUME ProcsTyped, NEW p \in Procs, Moves(p)
  PROVE  ProcsTyped' /\ (pc'[Reaper] \in {"off", "reap", "list"} => pc'[Reaper] = pc[Reaper])
                     /\ (pc[Reaper] = "off" => pc'[Reaper] = "off")
<1>1. /\ pc' \in [Procs -> Phases] /\ cell' = cell /\ again' \subseteq Starts /\ registered' \subseteq Builds
      /\ lock' \in Starts \cup {None}
      /\ \A q \in Procs \ {p} : pc'[q] = pc[q]
      /\ pc[p] \notin {"off", "reap", "list"} /\ pc'[p] \notin {"off", "reap", "list"}
      /\ p \in Builds => pc'[p] \notin {"stop", "stopping"}
  BY DEF Moves, ProcsTyped
<1>2. ASSUME NEW q \in Starts \cup Builds
      PROVE  pc'[q] \notin {"reap", "list"} /\ (pc'[q] # "off" => cell'[q] \in Cells)
  BY <1>1, <1>2, Names DEF ProcsTyped
<1>3. pc'[Reaper] \notin {"off", "reap", "list"} => cell'[Reaper] \in Cells
  BY <1>1, Names DEF ProcsTyped
<1>4. ASSUME NEW b \in Builds PROVE cell'[b] = b /\ pc'[b] \notin {"stop", "stopping"}
  BY <1>1, Names DEF ProcsTyped
<1>5. ProcsTyped'
  BY <1>1, <1>2, <1>3, <1>4 DEF ProcsTyped
<1> QED
  BY <1>1, <1>5, Names

\* It leaves nobody's directory or mount behind.
LEMMA GoesHeld ==
  ASSUME ProcsTyped, SharedTyped, DirsHeld, MountsHeld, NEW p \in Procs, Goes(p)
  PROVE  DirsHeld' /\ MountsHeld'
<1> USE DEF Goes
<1>1. /\ pc \in [Procs -> Phases] /\ pc' \in [Procs -> Phases] /\ cell' = cell /\ UNCHANGED <<late, orphans, kept, todo>>
      /\ \A q \in Procs \ {p} : pc'[q] = pc[q]
      /\ pc[p] \in Working => pc'[p] \in Working
  BY DEF Moves, ProcsTyped, killed, reaper
<1>2. \A q \in Procs, c \in Cells : At(q, c) <=> cell[q] = c /\ pc[q] \in Working
  BY <1>1 DEF At, Working, Phases, Trying
<1>3. \A q \in Procs, c \in Cells : At(q, c)' <=> cell[q] = c /\ pc'[q] \in Working
  BY <1>1 DEF At, Working, Phases, Trying
<1>4. \A q \in Procs, c \in Cells : At(q, c) => At(q, c)'
  BY <1>1, <1>2, <1>3
<1>5. /\ pc'[Reaper] \in {"off", "reap", "list"} => pc'[Reaper] = pc[Reaper]
      /\ pc[Reaper] = "off" => pc'[Reaper] = "off"
  BY GoesTyped
<1>6. ASSUME NEW c \in Cells, dir'[c] # "no" PROVE Removable(c)'
  <2>1. CASE dir[c] # "no"
    <3>1. Removable(c)
      BY <2>1 DEF DirsHeld
    <3> QED
      BY <1>1, <1>4, <1>5, <3>1 DEF Removable
  <2>2. CASE dir[c] = "no"
    <3>1. c = cell[p] /\ pc'[p] \in Working
      BY <1>6, <2>2 DEF Makes, SharedTyped
    <3>2. At(p, c)'
      BY <1>3, <3>1
    <3> QED
      BY <3>2 DEF Removable
  <2> QED
    BY <2>1, <2>2
<1>7. ASSUME NEW c \in Cells \ orphans, mounts'[c] # {} PROVE \E q \in Procs : cell[q] = c /\ WillUnmount(q)'
  <2>1. \A q \in Procs \ {p} : WillUnmount(q)' = WillUnmount(q)
    BY <1>1 DEF WillUnmount
  <2>2. CASE mounts[c] # {}
    <3>1. PICK q \in Procs : cell[q] = c /\ WillUnmount(q)
      BY <2>2 DEF MountsHeld
    <3> QED
      BY <1>7, <2>1, <3>1 DEF Mounts
  <2>3. CASE mounts[c] = {}
    <3>1. c = cell[p] /\ WillUnmount(p)
      BY <1>7, <2>3 DEF Mounts, SharedTyped
    <3> QED
      BY <1>7, <3>1 DEF Mounts
  <2> QED
    BY <2>2, <2>3
<1> QED
  BY <1>1, <1>6, <1>7 DEF DirsHeld, MountsHeld

\* A process that ends without a cleanup changes nothing else.
LEMMA LeavesIs ==
  ASSUME NEW p \in Starts \cup Builds, FailsEarly(p) \/ Killed(p)
  PROVE  /\ Leaves(p) /\ pc[p] # "off" /\ (UNCHANGED bounds \/ Rarely)
         /\ UNCHANGED <<cell, again, registered, reaper, dir, mounts, unit, halting, proxy>>
         /\ pc' = [pc EXCEPT ![p] = "gone"] /\ (lock' = lock \/ lock' = None)
BY DEF FailsEarly, Killed, Leaves, Released, To

(***************************************************************************)
(* The other steps.                                                        *)
(***************************************************************************)

\* Whoever is at work on a cell is in one of the steps of `Working`.
LEMMA AtIs ==
  ASSUME ProcsTyped, NEW p \in Procs, NEW c \in Cells
  PROVE  At(p, c) <=> cell[p] = c /\ pc[p] \in Working
BY DEF At, ProcsTyped, Working, Phases, Trying

\* Every step keeps the types of the processes.
LEMMA ProcsTypedNext ==
  ASSUME ProcsTyped, SharedTyped, [Next]_vars
  PROVE  ProcsTyped'
<1>1. CASE UNCHANGED <<pc, cell, flags>>
  BY <1>1 DEF ProcsTyped, flags
<1>2. ASSUME NEW p \in Procs, Goes(p) PROVE ProcsTyped'
  BY <1>2, GoesTyped DEF Goes
<1>3. CASE \E p \in Starts, t \in Tasks : Invoke(p, t)
  BY <1>3, Names DEF Invoke, To, Phases, Cells, flags, ProcsTyped
<1>4. CASE \E b \in Builds : Build(b)
  BY <1>4, Names DEF Build, To, Phases, Trying, Cells, flags, ProcsTyped
<1>5. CASE \E p \in Starts \cup Builds : Prepares(p) \/ StartFails(p) \/ Signalled(p)
  <2> PICK p \in Starts \cup Builds : Prepares(p) \/ StartFails(p) \/ Signalled(p)
    BY <1>5
  <2>1. CASE Registers(p)
    BY <1>1, <1>2, <2>1, RegistersGoes, Names DEF procs
  <2> QED
    BY <1>2, <2>1, PreparesGoes, Names DEF Prepares
<1>6. CASE \E p \in Starts \cup Builds : FailsEarly(p) \/ Killed(p)
  <2> PICK p \in Starts \cup Builds : FailsEarly(p) \/ Killed(p)
    BY <1>6
  <2>1. pc' = [pc EXCEPT ![p] = "gone"] /\ pc[p] # "off" /\ UNCHANGED <<cell, again, registered>>
    BY LeavesIs
  <2>2. lock' \in Starts \cup {None}
    BY LeavesIs DEF ProcsTyped
  <2> QED
    BY <2>1, <2>2, Names DEF Phases, ProcsTyped
<1>7. CASE \E p \in Procs : CleansUp(p)
  <2> PICK p \in Procs : CleansUp(p)
    BY <1>7
  <2>1. CASE Remove(p)
    <3>1. /\ pc' = [pc EXCEPT ![p] = pc'[p]] /\ pc[p] = "remove" /\ UNCHANGED <<cell, registered>> /\ again' \subseteq again
          /\ lock' \in Starts \cup {None}
          /\ IF p = Reaper THEN pc'[p] = "reap" ELSE pc'[p] \in {"stop", "gone"} /\ (p \in Builds => pc'[p] = "gone")
      BY <2>1, Names DEF Remove, Released, To, Then, ProcsTyped
    <3> QED
      BY <3>1, Names DEF Phases, ProcsTyped
  <2> QED
    BY <1>2, <2>1, CleansUpGoes DEF CleansUp
<1>8. CASE DaemonRestart \/ ReapList \/ ReapMounts
  <2>1. pc' = [pc EXCEPT ![Reaper] = pc'[Reaper]] /\ pc'[Reaper] \in {"reap", "list", "off"} /\ UNCHANGED <<cell, flags>>
    BY <1>8, Names DEF DaemonRestart, ReapList, ReapMounts, To, ProcsTyped
  <2> QED
    BY <2>1, Names DEF Phases, ProcsTyped, flags
<1>9. CASE \E c \in Cells : Reap(c)
  <2> PICK c \in Cells : Reap(c)
    BY <1>9
  <2>1. CASE UNCHANGED <<pc, cell>>
    BY <1>1, <2>1 DEF Reap
  <2>2. CASE ~UNCHANGED <<pc, cell>>
    <3>1. pc' = [pc EXCEPT ![Reaper] = "stop"] /\ cell' = [cell EXCEPT ![Reaper] = c] /\ UNCHANGED flags
      BY <2>2 DEF Reap, To
    <3> QED
      BY <3>1, Names DEF Phases, ProcsTyped, flags
  <2> QED
    BY <2>1, <2>2
<1>10. CASE (\E c \in Cells : ReapRegistration(c) \/ UnitEnds(c)) \/ ProxyRestart \/ UNCHANGED vars
  BY <1>1, <1>10 DEF ReapRegistration, UnitEnds, ProxyRestart, vars, procs
<1> QED
  BY <1>3, <1>4, <1>5, <1>6, <1>7, <1>8, <1>9, <1>10 DEF Next, Reaps

\* A process that was started works on the same cell to its end.
LEMMA StaysOn ==
  ASSUME ProcsTyped, SharedTyped, [Next]_vars, NEW q \in Starts \cup Builds, pc[q] # "off"
  PROVE  pc'[q] # "off" /\ cell'[q] = cell[q]
<1>0. q \in Procs /\ q # Reaper /\ pc \in [Procs -> Phases] /\ cell \in [Procs -> Cells \cup {None}]
  BY Names DEF ProcsTyped
<1>1. CASE UNCHANGED <<pc, cell>>
  BY <1>1
<1>2. ASSUME NEW p \in Procs, Goes(p) PROVE pc'[q] # "off" /\ cell'[q] = cell[q]
  BY <1>0, <1>2 DEF Goes, Moves
<1>3. CASE (\E p \in Starts, t \in Tasks : Invoke(p, t)) \/ (\E b \in Builds : Build(b))
  BY <1>0, <1>3 DEF Invoke, Build, To
<1>5. CASE \E p \in Starts \cup Builds : Prepares(p) \/ StartFails(p) \/ Signalled(p)
  <2> PICK p \in Starts \cup Builds : Prepares(p) \/ StartFails(p) \/ Signalled(p)
    BY <1>5
  <2>1. CASE Registers(p)
    BY <1>1, <1>2, <2>1, RegistersGoes, Names DEF procs
  <2> QED
    BY <1>2, <2>1, PreparesGoes, Names DEF Prepares
<1>6. CASE \E p \in Starts \cup Builds : FailsEarly(p) \/ Killed(p)
  BY <1>0, <1>6, LeavesIs
<1>7. CASE \E p \in Procs : CleansUp(p)
  <2> PICK p \in Procs : CleansUp(p)
    BY <1>7
  <2>1. CASE Remove(p)
    BY <1>0, <2>1 DEF Remove, To, Then
  <2> QED
    BY <1>2, <2>1, CleansUpGoes DEF CleansUp
<1>8. CASE DaemonRestart \/ Reaps
  BY <1>0, <1>8 DEF DaemonRestart, Reaps, ReapList, ReapMounts, Reap, ReapRegistration, To, procs
<1>9. CASE (\E c \in Cells : UnitEnds(c)) \/ ProxyRestart \/ UNCHANGED vars
  BY <1>1, <1>9 DEF UnitEnds, ProxyRestart, vars, procs
<1> QED
  BY <1>3, <1>5, <1>6, <1>7, <1>8, <1>9 DEF Next

\* A unit is that of the process that launched it, for its cell; one that is stopped exists.
LEMMA UnitsTypedNext ==
  ASSUME ProcsTyped, SharedTyped, UnitsTyped, [Next]_vars
  PROVE  UnitsTyped'
<1>0. \A q \in Starts \cup Builds : pc[q] # "off" => pc'[q] # "off" /\ cell'[q] = cell[q]
  BY StaysOn
<1>1. CASE UNCHANGED <<unit, halting>>
  BY <1>0, <1>1 DEF UnitsTyped
<1>2. CASE \E p \in Starts \cup Builds : Launch(p)
  <2> PICK p \in Starts \cup Builds : Launch(p)
    BY <1>2
  <2>1. pc[p] # "off" /\ cell[p] \in Cells
    BY DEF Launch, ProcsTyped
  <2>2. CASE unit' = [unit EXCEPT ![cell[p]] = p]
    BY <1>0, <2>1, <2>2, Names DEF Launch, UnitsTyped
  <2> QED
    BY <1>1, <2>2 DEF Launch
<1>3. CASE \E c \in Cells : UnitEnds(c)
  BY <1>0, <1>3 DEF UnitEnds, UnitsTyped
<1>4. CASE \E p \in Procs : Stop(p)
  <2> PICK p \in Procs : Stop(p)
    BY <1>4
  <2>1. cell[p] \in Cells
    BY Names DEF Stop, ProcsTyped, Procs
  <2>2. unit' = unit /\ halting' \subseteq {c \in Cells : unit[c] # None}
    BY <2>1 DEF Stop, Active, UnitsTyped
  <2> QED
    BY <1>0, <2>2 DEF UnitsTyped
<1>5. CASE \E p \in Starts \cup Builds :
             \/ Check(p) \/ Exits(p) \/ Describe(p) \/ MountRoot(p) \/ Registers(p) \/ NoAnswer(p)
             \/ StageDir(p) \/ Attach(p) \/ Returns(p) \/ StartFails(p) \/ FailsEarly(p) \/ Signalled(p)
             \/ Killed(p)
  BY <1>1, <1>5, LeavesIs DEF Check, Exits, Describe, MountRoot, Registers, NoAnswer, StageDir, Attach,
                    Returns, StartFails, Signalled
<1>6. CASE \E p \in Procs : Stopped(p) \/ Unregister(p) \/ Unmount(p) \/ Remove(p)
  BY <1>1, <1>6 DEF Stopped, Unregister, Unmount, Remove
<1>7. CASE \/ (\E p \in Starts, t \in Tasks : Invoke(p, t)) \/ (\E b \in Builds : Build(b))
           \/ DaemonRestart \/ Reaps \/ ProxyRestart \/ UNCHANGED vars
  BY <1>1, <1>7 DEF Invoke, Build, DaemonRestart, Reaps, Reap, ReapList, ReapRegistration, ReapMounts,
                    ProxyRestart, vars
<1> QED
  BY <1>2, <1>3, <1>4, <1>5, <1>6, <1>7 DEF Next, Prepares, CleansUp

\* What the processes share keeps its types.
LEMMA SharedTypedNext ==
  ASSUME ProcsTyped, SharedTyped, [Next]_vars
  PROVE  SharedTyped'
<1> DEFINE Counts == rare' \in 0..MaxRare /\ restarts' \in 0..MaxRestarts
           Reaps1 == /\ todo' \subseteq Cells /\ kept' \subseteq Builds
                     /\ late' \subseteq orphans' /\ orphans' \subseteq Cells
                     /\ pc'[Reaper] = "off" => late' = {}
           Files  == /\ dir' \in [Cells -> {"no", "made", "staged"}]
                     /\ mounts' \in [Cells -> SUBSET {"root", "workspace"}]
           Proxy  == /\ known' \subseteq Cells /\ asked' \subseteq Starts \cup Builds
                     /\ \A p \in asked' : pc'[p] # "off"
<1>0. \A q \in Starts \cup Builds : pc[q] # "off" => pc'[q] # "off" /\ cell'[q] = cell[q]
  BY StaysOn
<1>b. MaxRare \in Nat /\ MaxRestarts \in Nat
  BY GuestAssumption
<1>c. \A p \in Procs : pc[p] \notin {"off", "reap", "list"} => cell[p] \in Cells
  BY Names DEF ProcsTyped, Procs
<1>1. ASSUME Counts, Reaps1, Files, Proxy PROVE SharedTyped'
  BY <1>1 DEF SharedTyped
<1> HIDE DEF Counts, Reaps1, Files, Proxy
<1>2. Counts
  <2> USE <1>b DEF Counts
  <2>1. CASE UNCHANGED bounds
    BY <2>1 DEF bounds, SharedTyped
  <2>2. CASE Rarely
    BY <2>2 DEF Rarely, SharedTyped
  <2>3. CASE DaemonRestart
    BY <2>3 DEF DaemonRestart, SharedTyped
  <2>4. CASE \E p \in Starts \cup Builds : Prepares(p) \/ StartFails(p) \/ FailsEarly(p) \/ Signalled(p) \/ Killed(p)
    BY <2>1, <2>2, <2>4, LeavesIs DEF Prepares, Check, Exits, Describe, MountRoot, Registers, NoAnswer, StageDir,
                            Attach, Launch, Returns, StartFails, Signalled
  <2>5. CASE (\E p \in Procs : CleansUp(p)) \/ Reaps \/ ProxyRestart
    BY <2>1, <2>2, <2>5 DEF CleansUp, Stop, Stopped, Unregister, Unmount, Remove, Reaps, Reap, ReapList,
                            ReapRegistration, ReapMounts, ProxyRestart
  <2>6. CASE \/ (\E p \in Starts, t \in Tasks : Invoke(p, t)) \/ (\E b \in Builds : Build(b))
             \/ (\E c \in Cells : UnitEnds(c)) \/ UNCHANGED vars
    BY <2>1, <2>6 DEF Invoke, Build, UnitEnds, vars
  <2> QED
    BY <2>3, <2>4, <2>5, <2>6 DEF Next
<1>3. Files
  <2> USE DEF Files
  <2>1. CASE UNCHANGED <<dir, mounts>>
    BY <2>1 DEF SharedTyped
  <2>2. CASE \E p \in Starts \cup Builds : Check(p) \/ StageDir(p) \/ MountRoot(p) \/ Attach(p) \/ Build(p)
    BY <2>2 DEF Check, StageDir, MountRoot, Attach, Build, SharedTyped
  <2>3. CASE \E p \in Procs : Unmount(p) \/ Remove(p)
    BY <2>3 DEF Unmount, Remove, SharedTyped
  <2>4. CASE ReapMounts
    BY <2>4 DEF ReapMounts, SharedTyped
  <2>5. CASE \E p \in Starts \cup Builds :
               \/ Exits(p) \/ Describe(p) \/ Registers(p) \/ NoAnswer(p) \/ Launch(p) \/ Returns(p)
               \/ StartFails(p) \/ FailsEarly(p) \/ Signalled(p) \/ Killed(p)
    BY <2>1, <2>5, LeavesIs DEF Exits, Describe, Registers, NoAnswer, Launch, Returns, StartFails, Signalled
  <2>6. CASE \E p \in Procs : Stop(p) \/ Stopped(p) \/ Unregister(p)
    BY <2>1, <2>6 DEF Stop, Stopped, Unregister
  <2>7. CASE \/ (\E p \in Starts, t \in Tasks : Invoke(p, t)) \/ DaemonRestart \/ ReapList
             \/ (\E c \in Cells : Reap(c) \/ ReapRegistration(c) \/ UnitEnds(c))
             \/ ProxyRestart \/ UNCHANGED vars
    BY <2>1, <2>7 DEF Invoke, DaemonRestart, ReapList, Reap, ReapRegistration, UnitEnds, ProxyRestart, vars
  <2> QED
    BY <2>2, <2>3, <2>4, <2>5, <2>6, <2>7 DEF Next, Prepares, CleansUp, Reaps
<1>4. Proxy
  <2> USE <1>0, <1>c DEF Proxy
  <2>1. CASE UNCHANGED proxy
    BY <2>1 DEF proxy, SharedTyped
  <2>2. CASE \E p \in Starts \cup Builds : MountRoot(p) \/ Registers(p)
    BY <2>2, Names DEF MountRoot, Registers, SharedTyped, ProcsTyped
  <2>3. CASE (\E p \in Procs : Unregister(p)) \/ (\E c \in Cells : ReapRegistration(c)) \/ ProxyRestart
    BY <2>3 DEF Unregister, ReapRegistration, ProxyRestart, SharedTyped
  <2>4. CASE \E p \in Starts \cup Builds :
               \/ Check(p) \/ Exits(p) \/ Describe(p) \/ NoAnswer(p) \/ StageDir(p) \/ Attach(p) \/ Launch(p)
               \/ Returns(p) \/ StartFails(p) \/ FailsEarly(p) \/ Signalled(p) \/ Killed(p)
    BY <2>1, <2>4, LeavesIs DEF Check, Exits, Describe, NoAnswer, StageDir, Attach, Launch, Returns,
                            StartFails, Signalled
  <2>5. CASE \E p \in Procs : Stop(p) \/ Stopped(p) \/ Unmount(p) \/ Remove(p)
    BY <2>1, <2>5 DEF Stop, Stopped, Unmount, Remove
  <2>6. CASE \/ (\E p \in Starts, t \in Tasks : Invoke(p, t)) \/ (\E b \in Builds : Build(b))
             \/ DaemonRestart \/ ReapList \/ ReapMounts
             \/ (\E c \in Cells : Reap(c) \/ UnitEnds(c)) \/ UNCHANGED vars
    BY <2>1, <2>6 DEF Invoke, Build, DaemonRestart, ReapList, ReapMounts, Reap, UnitEnds, vars
  <2> QED
    BY <2>2, <2>3, <2>4, <2>5, <2>6 DEF Next, Prepares, CleansUp, Reaps
<1>5. Reaps1
  <2> USE DEF Reaps1
  <2>0. pc \in [Procs -> Phases] /\ Reaper \in Procs /\ \A p \in Starts \cup Builds : p # Reaper
    BY Names DEF ProcsTyped
  <2>1. ASSUME UNCHANGED <<reaper, killed>>, pc'[Reaper] = "off" => pc[Reaper] = "off" PROVE Reaps1
    BY <2>1 DEF reaper, killed, SharedTyped
  <2>2. ASSUME NEW p \in Procs, Goes(p) PROVE Reaps1
    BY <2>1, <2>2, GoesTyped DEF Goes, Moves
  <2>3. CASE \E p \in Starts \cup Builds : Prepares(p) \/ StartFails(p) \/ Signalled(p)
    <3> PICK p \in Starts \cup Builds : Prepares(p) \/ StartFails(p) \/ Signalled(p)
      BY <2>3
    <3>1. CASE Registers(p)
      BY <2>1, <2>2, <3>1, RegistersGoes, Names DEF procs
    <3> QED
      BY <2>2, <3>1, PreparesGoes, Names DEF Prepares
  <2>4. CASE \E p \in Starts \cup Builds : FailsEarly(p) \/ Killed(p)
    BY <1>c, <2>0, <2>4, LeavesIs, Names DEF Leaves, reaper, SharedTyped, ProcsTyped
  <2>5. CASE \E p \in Procs : CleansUp(p)
    <3> PICK p \in Procs : CleansUp(p)
      BY <2>5
    <3>1. CASE Remove(p)
      BY <2>0, <2>1, <3>1 DEF Remove, To, Then
    <3> QED
      BY <2>2, <3>1, CleansUpGoes DEF CleansUp
  <2>6. CASE DaemonRestart
    BY <2>0, <2>6 DEF DaemonRestart, To, Present, killed, SharedTyped
  <2>7. CASE ReapList \/ ReapMounts
    BY <2>0, <2>7 DEF ReapList, ReapMounts, To, reaper, killed, SharedTyped
  <2>8. CASE \E c \in Cells : Reap(c) \/ ReapRegistration(c)
    BY <2>0, <2>8 DEF Reap, ReapRegistration, Building, To, procs, killed, SharedTyped
  <2>9. CASE \/ (\E p \in Starts, t \in Tasks : Invoke(p, t)) \/ (\E b \in Builds : Build(b))
             \/ (\E c \in Cells : UnitEnds(c)) \/ ProxyRestart \/ UNCHANGED vars
    BY <2>0, <2>1, <2>9 DEF Invoke, Build, UnitEnds, ProxyRestart, To, procs, vars
  <2> QED
    BY <2>3, <2>4, <2>5, <2>6, <2>7, <2>8, <2>9 DEF Next, Reaps
<1> QED
  BY <1>1, <1>2, <1>3, <1>4, <1>5

\* No step leaves a directory or a mount of a cell to nobody, unless a process leaves without a cleanup.
LEMMA HeldNext ==
  ASSUME ProcsTyped, SharedTyped, DirsHeld, MountsHeld, [Next]_vars
  PROVE  DirsHeld' /\ MountsHeld'
<1>0. /\ pc \in [Procs -> Phases] /\ cell \in [Procs -> Cells \cup {None}] /\ ProcsTyped'
      /\ Reaper \in Procs /\ \A p \in Starts \cup Builds : p # Reaper
  BY ProcsTypedNext, Names DEF ProcsTyped
<1>1. /\ \A q \in Procs, c \in Cells : At(q, c) <=> cell[q] = c /\ pc[q] \in Working
      /\ \A q \in Procs, c \in Cells : At(q, c)' <=> cell'[q] = c /\ pc'[q] \in Working
  BY <1>0, AtIs DEF At, ProcsTyped, Working, Phases, Trying
\* What keeps the two, as far as no directory and no mount is made.
<1>2. ASSUME UNCHANGED <<killed, todo, kept>>,
             pc'[Reaper] = "list" => pc[Reaper] = "list", pc[Reaper] = "off" => pc'[Reaper] = "off",
             \A q \in Procs, c \in Cells : At(q, c) => At(q, c)' \/ dir'[c] = "no",
             \A c \in Cells : dir'[c] # "no" => dir[c] # "no"
      PROVE  DirsHeld'
  BY <1>2 DEF DirsHeld, Removable, killed
<1>3. ASSUME orphans \subseteq orphans', \A c \in Cells : mounts'[c] # {} => mounts[c] # {},
             \A q \in Procs : WillUnmount(q) => (WillUnmount(q)' /\ cell'[q] = cell[q]) \/ cell[q] \in orphans'
      PROVE  MountsHeld'
  BY <1>3 DEF MountsHeld
<1>4. CASE UNCHANGED <<pc, cell, killed, reaper, dir, mounts>>
  BY <1>2, <1>3, <1>4 DEF At, WillUnmount, killed, reaper
<1>5. ASSUME NEW p \in Procs, Goes(p) PROVE DirsHeld' /\ MountsHeld'
  BY <1>5, GoesHeld
<1>6. CASE \E p \in Starts, t \in Tasks : Invoke(p, t)
  <2> PICK p \in Starts, t \in Tasks : Invoke(p, t)
    BY <1>6
  <2>1. /\ pc[p] = "off" /\ pc' = [pc EXCEPT ![p] = "lock"] /\ cell' = [cell EXCEPT ![p] = t]
        /\ UNCHANGED <<killed, reaper, dir, mounts>>
    BY DEF Invoke, To
  <2>2. DirsHeld'
    BY <1>0, <1>1, <1>2, <2>1 DEF Working, Trying, reaper
  <2>3. MountsHeld'
    BY <1>0, <1>3, <2>1 DEF WillUnmount, Trying, killed
  <2> QED
    BY <2>2, <2>3
<1>7. CASE \E b \in Builds : Build(b)
  <2> PICK b \in Builds : Build(b)
    BY <1>7
  <2>1. /\ pc[b] = "off" /\ pc' = [pc EXCEPT ![b] = "made"] /\ dir' = [dir EXCEPT ![b] = "made"]
        /\ UNCHANGED <<cell, killed, reaper, mounts>>
    BY DEF Build, To
  <2>2. b \in Procs /\ b \in Cells /\ cell[b] = b
    BY Names DEF ProcsTyped, Cells
  <2>3. At(b, b)' /\ \A q \in Procs, c \in Cells : At(q, c) => At(q, c)'
    BY <1>0, <1>1, <2>1, <2>2 DEF Working, Trying
  <2>4. DirsHeld'
    <3> SUFFICES ASSUME NEW c \in Cells, dir'[c] # "no" PROVE Removable(c)'
      BY DEF DirsHeld
    <3>1. CASE c = b
      BY <2>2, <2>3, <3>1 DEF Removable
    <3>2. CASE c # b
      BY <1>0, <2>1, <2>3, <3>2 DEF DirsHeld, Removable, SharedTyped, killed, reaper
    <3> QED
      BY <3>1, <3>2
  <2>5. MountsHeld'
    BY <1>0, <1>3, <2>1, <2>2 DEF WillUnmount, Trying, killed
  <2> QED
    BY <2>4, <2>5
<1>8. CASE \E p \in Starts \cup Builds : Prepares(p) \/ StartFails(p) \/ Signalled(p)
  <2> PICK p \in Starts \cup Builds : Prepares(p) \/ StartFails(p) \/ Signalled(p)
    BY <1>8
  <2>1. CASE Registers(p)
    BY <1>4, <1>5, <2>1, RegistersGoes, Names DEF procs
  <2> QED
    BY <1>5, <2>1, PreparesGoes, Names DEF Prepares
<1>9. CASE \E p \in Starts \cup Builds : FailsEarly(p) \/ Killed(p)
  <2> PICK p \in Starts \cup Builds : FailsEarly(p) \/ Killed(p)
    BY <1>9
  <2>1. /\ pc' = [pc EXCEPT ![p] = "gone"] /\ UNCHANGED <<cell, reaper, dir, mounts>>
        /\ orphans' = orphans \cup {cell[p]} /\ p \in Procs /\ p # Reaper
        /\ late' = IF pc[Reaper] = "off" THEN late ELSE late \cup {cell[p]}
    BY LeavesIs, Names DEF Leaves
  <2>2. DirsHeld'
    <3> SUFFICES ASSUME NEW c \in Cells, dir[c] # "no" PROVE Removable(c)'
      BY <2>1 DEF DirsHeld
    <3>1. pc'[Reaper] = pc[Reaper] /\ \A q \in Procs \ {p} : At(q, c) => At(q, c)'
      BY <1>0, <1>1, <2>1
    <3>2. Removable(c)
      BY DEF DirsHeld
    <3>3. CASE At(p, c)
      BY <1>1, <2>1, <3>1, <3>3 DEF Removable
    <3>4. CASE ~At(p, c)
      BY <2>1, <3>1, <3>2, <3>4 DEF Removable, reaper
    <3> QED
      BY <3>3, <3>4
  <2>3. MountsHeld'
    BY <1>0, <1>3, <2>1 DEF WillUnmount
  <2> QED
    BY <2>2, <2>3
<1>10. CASE \E p \in Procs : CleansUp(p)
  <2> PICK p \in Procs : CleansUp(p)
    BY <1>10
  <2>1. CASE Remove(p)
    <3>1. /\ pc[p] = "remove" /\ pc' = [pc EXCEPT ![p] = Then(p)] /\ dir' = [dir EXCEPT ![cell[p]] = "no"]
          /\ UNCHANGED <<cell, killed, reaper, mounts>> /\ Then(p) \notin {"off", "list"}
      BY <2>1 DEF Remove, To, Then
    <3>2. DirsHeld'
      <4>1. \A q \in Procs, c \in Cells : At(q, c) => At(q, c)' \/ dir'[c] = "no"
        BY <1>0, <1>1, <3>1 DEF SharedTyped
      <4>2. \A c \in Cells : dir'[c] # "no" => dir[c] # "no"
        BY <3>1 DEF SharedTyped
      <4> QED
        BY <1>0, <1>2, <3>1, <4>1, <4>2 DEF reaper
    <3>3. MountsHeld'
      BY <1>0, <1>3, <3>1 DEF WillUnmount, Trying, killed
    <3> QED
      BY <3>2, <3>3
  <2> QED
    BY <1>5, <2>1, CleansUpGoes DEF CleansUp
<1>11. CASE DaemonRestart
  <2>1. /\ pc[Reaper] = "off" /\ pc' = [pc EXCEPT ![Reaper] = "reap"] /\ todo' = Present
        /\ UNCHANGED <<cell, killed, dir, mounts>> /\ late = {}
    BY <1>11 DEF DaemonRestart, To, SharedTyped
  <2>2. DirsHeld'
    <3> SUFFICES ASSUME NEW c \in Cells, dir[c] # "no" PROVE Removable(c)'
      BY <2>1 DEF DirsHeld
    <3>1. c \in todo' /\ Removable(c)
      BY <2>1 DEF DirsHeld, Present
    <3>2. \A q \in Procs : At(q, c) => At(q, c)'
      BY <1>0, <1>1, <2>1 DEF Working, Trying
    <3> QED
      BY <1>0, <2>1, <3>1, <3>2 DEF Removable, killed
  <2>3. MountsHeld'
    BY <1>0, <1>3, <2>1 DEF WillUnmount, Trying, killed
  <2> QED
    BY <2>2, <2>3
<1>12. CASE \E c \in Cells : Reap(c)
  <2> PICK c \in Cells : Reap(c)
    BY <1>12
  <2>1. /\ pc[Reaper] = "reap" /\ todo' = todo \ {c} /\ UNCHANGED <<killed, dir, mounts>> /\ kept \subseteq kept'
        /\ \A q \in Procs \ {Reaper} : pc'[q] = pc[q] /\ cell'[q] = cell[q]
        /\ pc'[Reaper] \in {"reap", "stop"}
    BY <1>0 DEF Reap, To
  <2>2. dir[c] # "no" => c \in kept' \/ At(Reaper, c)'
    BY <1>0, <1>1 DEF Reap, To, Working
  <2>3. \A q \in Procs, d \in Cells : At(q, d) => At(q, d)'
    BY <1>1, <2>1 DEF Working, Trying
  <2>4. DirsHeld'
    <3> SUFFICES ASSUME NEW d \in Cells, dir[d] # "no" PROVE Removable(d)'
      BY <2>1 DEF DirsHeld
    <3>1. Removable(d)
      BY DEF DirsHeld
    <3> QED
      BY <1>0, <2>1, <2>2, <2>3, <3>1 DEF Removable, killed
  <2>5. MountsHeld'
    BY <1>3, <2>1 DEF WillUnmount, Trying, killed
  <2> QED
    BY <2>4, <2>5
<1>13. CASE ReapList
  <2>1. /\ pc[Reaper] = "reap" /\ pc' = [pc EXCEPT ![Reaper] = "list"] /\ todo = {}
        /\ UNCHANGED <<cell, kept, killed, dir, mounts>>
    BY <1>13 DEF ReapList, To
  <2>2. DirsHeld'
    <3> SUFFICES ASSUME NEW c \in Cells, dir[c] # "no" PROVE Removable(c)'
      BY <2>1 DEF DirsHeld
    <3>1. Removable(c)
      BY DEF DirsHeld
    <3>2. \A q \in Procs : At(q, c) => At(q, c)'
      BY <1>0, <1>1, <2>1 DEF Working, Trying
    <3> QED
      BY <2>1, <3>1, <3>2 DEF Removable, killed
  <2>3. MountsHeld'
    BY <1>0, <1>3, <2>1 DEF WillUnmount, Trying, killed
  <2> QED
    BY <2>2, <2>3
<1>14. CASE \E c \in Cells : ReapRegistration(c)
  <2>1. UNCHANGED <<pc, cell, kept, killed, dir, mounts>> /\ pc[Reaper] = "list"
    BY <1>14 DEF ReapRegistration, procs
  <2> QED
    BY <1>3, <2>1 DEF DirsHeld, Removable, At, WillUnmount, killed
<1>15. CASE ReapMounts
  <2>1. /\ pc[Reaper] = "list" /\ pc' = [pc EXCEPT ![Reaper] = "off"] /\ UNCHANGED <<cell, todo, kept, dir>>
        /\ mounts' = [c \in Cells |-> IF c \in kept THEN mounts[c] ELSE {}]
        /\ orphans' = late \cup (orphans \cap kept)
    BY <1>15 DEF ReapMounts, To, reaper
  <2>2. \A q \in Procs, c \in Cells : At(q, c) => At(q, c)'
    BY <1>0, <1>1, <2>1 DEF Working, Trying
  <2>3. DirsHeld'
    <3> SUFFICES ASSUME NEW c \in Cells, dir[c] # "no" PROVE Removable(c)'
      BY <2>1 DEF DirsHeld
    <3>1. Removable(c)
      BY DEF DirsHeld
    <3>2. pc'[Reaper] = "off"
      BY <1>0, <2>1
    <3> QED
      BY <2>1, <2>2, <3>1, <3>2 DEF Removable
  <2>4. MountsHeld'
    <3> SUFFICES ASSUME NEW c \in Cells \ orphans', mounts'[c] # {}
                 PROVE  \E p \in Procs : cell'[p] = c /\ WillUnmount(p)'
      BY DEF MountsHeld
    <3>1. c \notin orphans /\ mounts[c] # {}
      BY <2>1
    <3>2. PICK p \in Procs : cell[p] = c /\ WillUnmount(p)
      BY <3>1 DEF MountsHeld
    <3> QED
      BY <1>0, <2>1, <3>2 DEF WillUnmount, Trying
  <2> QED
    BY <2>3, <2>4
<1>16. CASE (\E c \in Cells : UnitEnds(c)) \/ ProxyRestart \/ UNCHANGED vars
  BY <1>4, <1>16 DEF UnitEnds, ProxyRestart, vars, procs
<1> QED
  BY <1>6, <1>7, <1>8, <1>9, <1>10, <1>11, <1>12, <1>13, <1>14, <1>15, <1>16 DEF Next, Reaps

(***************************************************************************)
(* The theorems.                                                           *)
(***************************************************************************)

\* The invariant holds at the start, every step keeps it, and so it holds always.
LEMMA InvAlways == Spec => []Inv
<1>1. Init => Inv
  <2> SUFFICES ASSUME Init PROVE Inv
    OBVIOUS
  <2>1. ProcsTyped /\ SharedTyped
    BY Names, GuestAssumption DEF Init, ProcsTyped, SharedTyped, Phases, Cells, Procs
  <2>2. UnitsTyped /\ DirsHeld /\ MountsHeld
    BY DEF Init, UnitsTyped, DirsHeld, MountsHeld
  <2> QED
    BY <2>1, <2>2 DEF Inv
<1>2. Inv /\ [Next]_vars => Inv'
  BY ProcsTypedNext, SharedTypedNext, UnitsTypedNext, HeldNext DEF Inv
<1> QED
  BY <1>1, <1>2, PTL DEF Spec

\* Every variable keeps its shape, and a unit is that of the process that launched it for its
\* cell, however processes overlap, are killed or outlive their daemon (cell_start, cell_reap).
THEOREM GuestTyped == Spec => []TypeOK
<1>1. Inv => TypeOK
  BY DEF Inv, ProcsTyped, SharedTyped, UnitsTyped, TypeOK
<1> QED
  BY <1>1, InvAlways, PTL

\* Where nothing is at work and nobody left without a cleanup since the last reap, neither a directory nor a
\* mount of the cell is left (cleanup, cell_reap).
THEOREM CleanupIsComplete == Spec => []NothingLeft
<1>1. Inv => NothingLeft
  <2> SUFFICES ASSUME Inv, NEW c \in Cells \ orphans, \A p \in Procs : ~At(p, c)
               PROVE  dir[c] = "no" /\ mounts[c] = {}
    BY DEF NothingLeft
  <2>1. c \notin late
    BY DEF Inv, SharedTyped
  <2>2. dir[c] = "no"
    BY <2>1 DEF Inv, DirsHeld, Removable
  <2>3. \A p \in Procs : cell[p] = c => ~WillUnmount(p)
    BY AtIs DEF Inv, WillUnmount, Working
  <2>4. mounts[c] = {}
    BY <2>3 DEF Inv, MountsHeld
  <2> QED
    BY <2>2, <2>4
<1> QED
  BY <1>1, InvAlways, PTL
===============================================================================
