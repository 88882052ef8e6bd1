------------------------------ MODULE GuestCells ------------------------------
(***************************************************************************)
(* The cells of the virtual machine.  Every command of the daemon is a     *)
(* root process of its own (guest/anchi_cell.py): `start` prepares a cell, *)
(* waits for its unit and cleans up, an image build runs in a cell too,    *)
(* and `reap` closes what an earlier daemon left.  They share the work     *)
(* directories, mounts, units and the egress proxy's registrations         *)
(* (services/egress_proxy.py, Registry), and only the check of `start` and *)
(* the directory it makes are under a lock.                                *)
(*                                                                         *)
(* Processes interleave between any two system calls that matter here, get *)
(* signals, are killed, outlive their daemon; the proxy stops and starts.  *)
(***************************************************************************)
EXTENDS Naturals, FiniteSets

CONSTANTS
  Tasks,       \* a cell has the name of its task
  Starts,      \* processes of `anchi-cell start`
  Builds,      \* processes of `anchi-image build`; the cell of a build has its name
  Reaper,      \* the process of `anchi-cell reap`
  None,
  MaxCells,    \* MAX_CELLS
  MaxRare,     \* bound: signals, kills, failures, restarts of the proxy
  MaxRestarts  \* bound: restarts of the daemon

ASSUME GuestAssumption ==
  /\ MaxCells \in Nat \ {0} /\ {MaxRare, MaxRestarts} \subseteq Nat
  /\ Tasks \cap Builds = {} /\ Starts \cap Builds = {} /\ Reaper \notin Starts \cup Builds
  /\ None \notin Starts \cup Builds \cup Tasks

Cells     == Tasks \cup Builds
Procs     == Starts \cup Builds \cup {Reaper}

VARIABLES
  \* ---- the processes ----
  pc,        \* where each of them is
  cell,      \* the cell it works on
  again,     \* those that clean up twice: in the signal handler, then where it left off
  registered,\* builds whose registration was answered
  lock,      \* the start that holds the lock file
  todo,      \* what `reap` has yet to look at
  kept,      \* builds that it found running
  \* ---- what they share ----
  dir,       \* the work directory of a cell: "no", "made", or "staged" with its workspaces' one
  mounts,    \* what is mounted below it: the overlay root, a workspace of the user
  unit,      \* whose systemd unit of the cell exists
  halting,   \* units that are being stopped: no longer active, not yet gone
  \* ---- the proxy ----
  asked,     \* processes whose `register` it has not handled yet
  known,     \* registered cells
  \* ---- history and bounds ----
  orphans,   \* cells whose process left without a cleanup, until a `reap` that began later has ended
  late,      \* those of a process that left so while `reap` was under way
  rare, restarts

flags  == <<again, registered, lock>>
procs  == <<pc, cell, flags>>
reaper == <<todo, kept>>
proxy  == <<asked, known>>
bounds == <<rare, restarts>>
killed == <<orphans, late>>
vars   == <<procs, reaper, dir, mounts, unit, halting, proxy, killed, bounds>>

Init ==
  /\ pc = [p \in Procs |-> "off"]
  /\ cell = [p \in Procs |-> IF p \in Builds THEN p ELSE None]
  /\ again = {} /\ registered = {} /\ lock = None /\ todo = {} /\ kept = {}
  /\ dir = [c \in Cells |-> "no"] /\ mounts = [c \in Cells |-> {}]
  /\ unit = [c \in Cells |-> None] /\ halting = {}
  /\ asked = {} /\ known = {}
  /\ orphans = {} /\ late = {} /\ rare = 0 /\ restarts = 0

\* `systemctl is-active`: a unit that is being stopped no longer is.
Active(c) == unit[c] # None /\ c \notin halting

\* The directories that `start` counts.
Present == {c \in Cells : dir[c] # "no"}

To(p, step) == pc' = [pc EXCEPT ![p] = step]

\* An exception: `start` releases everything, a build what it made.
Fails(p) == To(p, IF p \in Builds THEN "unmount" ELSE "stop")

\* Leaving the block that holds the lock.
Released(p) == IF lock = p THEN None ELSE lock

\* A process that ends without a cleanup.
Leaves(p) ==
  /\ To(p, "gone") /\ lock' = Released(p)
  /\ orphans' = orphans \cup {cell[p]}
  /\ late' = IF pc[Reaper] = "off" THEN late ELSE late \cup {cell[p]}

Rarely == rare < MaxRare /\ rare' = rare + 1 /\ UNCHANGED restarts

-------------------------------------------------------------------------------
(* Preparing a cell. *)

\* The daemon starts a cell.  It may do so while the old process of the task still cleans up,
\* but not before it has reaped.
Invoke(p, t) ==
  /\ pc[p] = "off" /\ pc[Reaper] = "off"
  /\ To(p, "lock") /\ cell' = [cell EXCEPT ![p] = t]
  /\ UNCHANGED <<flags, reaper, dir, mounts, unit, halting, proxy, killed, bounds>>

\* cell_start() under the lock: one cell a task, MAX_CELLS directories.
Refused(t) == dir[t] # "no" \/ Active(t) \/ Cardinality(Present) >= MaxCells

Check(p) ==
  /\ p \in Starts /\ pc[p] = "lock" /\ lock = None
  /\ IF Refused(cell[p])
     THEN To(p, "refused") /\ UNCHANGED <<dir, lock>>
     ELSE To(p, "made") /\ dir' = [dir EXCEPT ![cell[p]] = "made"] /\ lock' = p
  /\ UNCHANGED <<cell, again, registered, reaper, mounts, unit, halting, proxy, killed, bounds>>

\* A refused start says so and exits; it has nothing to release.
Exits(p) ==
  /\ pc[p] = "refused"
  /\ To(p, "gone")
  /\ UNCHANGED <<cell, flags, reaper, dir, mounts, unit, halting, proxy, killed, bounds>>

\* An image build, one at a time under a lock of its own; it counts no directories.
Build(b) ==
  /\ pc[b] = "off" /\ \A d \in Builds : pc[d] \in {"off", "gone"}
  /\ To(b, "made") /\ dir' = [dir EXCEPT ![b] = "made"]
  /\ UNCHANGED <<cell, flags, reaper, mounts, unit, halting, proxy, killed, bounds>>

\* meta.json is written, and for a build its script and environment; then the `try` begins, and
\* the lock is left.
Describe(p) ==
  /\ pc[p] = "made" /\ dir[cell[p]] # "no"
  /\ To(p, "try") /\ lock' = Released(p)
  /\ UNCHANGED <<cell, again, registered, reaper, dir, mounts, unit, halting, proxy, killed, bounds>>

\* What fails before that `try`, for one because the directory is gone, is not cleaned up.
FailsEarly(p) ==
  /\ pc[p] = "made"
  /\ IF dir[cell[p]] # "no" THEN Rarely ELSE UNCHANGED bounds
  /\ Leaves(p)
  /\ UNCHANGED <<cell, again, registered, reaper, dir, mounts, unit, halting, proxy>>

\* The overlay root, in a directory that is made for it; then egress() asks for a registration
\* and waits for the answer.
MountRoot(p) ==
  /\ pc[p] = "try"
  /\ IF dir[cell[p]] # "no" /\ "root" \notin mounts[cell[p]]
     THEN /\ To(p, "asking")
          /\ mounts' = [mounts EXCEPT ![cell[p]] = @ \cup {"root"}] /\ asked' = asked \cup {p}
     ELSE Fails(p) /\ UNCHANGED <<mounts, asked>>
  /\ UNCHANGED <<cell, flags, reaper, dir, unit, halting, known, killed, bounds>>

\* Registry.register: one registration a cell.  Who asked may be gone.
Registers(p) ==
  /\ p \in asked /\ asked' = asked \ {p}
  /\ known' = known \cup {cell[p]}
  /\ \/ pc[p] # "asking" /\ UNCHANGED <<pc, registered>>
     \/ pc[p] = "asking" /\ cell[p] \in known /\ Fails(p) /\ UNCHANGED registered
     \/ /\ pc[p] = "asking" /\ cell[p] \notin known
        /\ To(p, "ready") /\ registered' = registered \cup ({p} \cap Builds)
  /\ UNCHANGED <<cell, again, lock, reaper, dir, mounts, unit, halting, killed, bounds>>

\* No answer: the proxy went, or it takes too long and may still register the cell.
NoAnswer(p) ==
  /\ pc[p] = "asking"
  /\ IF p \in asked THEN Rarely ELSE UNCHANGED bounds
  /\ Fails(p)
  /\ UNCHANGED <<cell, flags, reaper, dir, mounts, unit, halting, proxy, killed>>

\* What else can fail inside the `try`: the overlay, policy modes, the home, placeholders,
\* workspaces, the log of a build.
StartFails(p) ==
  /\ pc[p] \in {"try", "ready", "stage"} /\ Rarely
  /\ Fails(p)
  /\ UNCHANGED <<cell, flags, reaper, dir, mounts, unit, halting, proxy, killed>>

\* stage_workspaces(): a directory below the work directory, which it makes too if it is gone,
\* and then the user's directory mounted on it.
StageDir(p) ==
  /\ p \in Starts /\ pc[p] = "ready"
  /\ IF dir[cell[p]] # "staged"
     THEN To(p, "stage") /\ dir' = [dir EXCEPT ![cell[p]] = "staged"]
     ELSE Fails(p) /\ UNCHANGED dir
  /\ UNCHANGED <<cell, flags, reaper, mounts, unit, halting, proxy, killed, bounds>>

Attach(p) ==
  /\ pc[p] = "stage"
  /\ IF dir[cell[p]] = "staged"
     THEN To(p, "launch") /\ mounts' = [mounts EXCEPT ![cell[p]] = @ \cup {"workspace"}]
     ELSE Fails(p) /\ UNCHANGED mounts
  /\ UNCHANGED <<cell, flags, reaper, dir, unit, halting, proxy, killed, bounds>>

\* systemd-run: refused while the unit exists; nspawn needs what it is to bind.
Bindable(c) == dir[c] # "no" /\ "root" \in mounts[c] /\ c \in known

Launch(p) ==
  /\ pc[p] = (IF p \in Builds THEN "ready" ELSE "launch")
  /\ IF unit[cell[p]] = None /\ Bindable(cell[p])
     THEN To(p, "run") /\ unit' = [unit EXCEPT ![cell[p]] = p]
     ELSE Fails(p) /\ UNCHANGED unit
  /\ UNCHANGED <<cell, flags, reaper, dir, mounts, halting, proxy, killed, bounds>>

\* The runner stops by itself, at the end of its input, or because the unit is stopped.
UnitEnds(c) ==
  /\ unit[c] # None
  /\ unit' = [unit EXCEPT ![c] = None] /\ halting' = halting \ {c}
  /\ UNCHANGED <<procs, reaper, dir, mounts, proxy, killed, bounds>>

\* `systemd-run --wait` returns.
Returns(p) ==
  /\ pc[p] = "run" /\ unit[cell[p]] # p
  /\ Fails(p)
  /\ UNCHANGED <<cell, flags, reaper, dir, mounts, unit, halting, proxy, killed, bounds>>

-------------------------------------------------------------------------------
(* cleanup(): stop, unregister, unmount, remove.  A build unmounts, unregisters
   what it registered, removes. *)

Stop(p) ==
  /\ pc[p] = "stop"
  /\ IF Active(cell[p])
     THEN To(p, "stopping") /\ halting' = halting \cup {cell[p]}
     ELSE To(p, "unregister") /\ UNCHANGED halting
  /\ UNCHANGED <<cell, flags, reaper, dir, mounts, unit, proxy, killed, bounds>>

Stopped(p) ==
  /\ pc[p] = "stopping" /\ unit[cell[p]] = None
  /\ To(p, "unregister")
  /\ UNCHANGED <<cell, flags, reaper, dir, mounts, unit, halting, proxy, killed, bounds>>

\* Registry.unregister; the process goes on when the proxy does not answer.
Unregister(p) ==
  /\ pc[p] = "unregister"
  /\ To(p, IF p \in Builds THEN "remove" ELSE "unmount")
  /\ \/ known' = known \ {cell[p]} /\ UNCHANGED bounds
     \/ Rarely /\ UNCHANGED known
  /\ UNCHANGED <<cell, flags, reaper, dir, mounts, unit, halting, asked, killed>>

\* unmount_below(): until nothing is mounted there.
Unmount(p) ==
  /\ pc[p] = "unmount"
  /\ mounts' = [mounts EXCEPT ![cell[p]] = {}]
  /\ IF mounts[cell[p]] # {} THEN UNCHANGED pc
     ELSE To(p, IF p \in registered THEN "unregister" ELSE "remove")
  /\ UNCHANGED <<cell, flags, reaper, dir, unit, halting, proxy, killed, bounds>>

\* rmtree(work), and what comes after the cleanup.
Then(p) ==
  IF p = Reaper THEN "reap" ELSE IF p \in again THEN "stop" ELSE "gone"

Remove(p) ==
  /\ pc[p] = "remove"
  /\ dir' = [dir EXCEPT ![cell[p]] = "no"]
  /\ To(p, Then(p))
  /\ again' = again \ {p} /\ lock' = Released(p)
  /\ UNCHANGED <<cell, registered, reaper, mounts, unit, halting, proxy, killed, bounds>>

\* The handler that `start` installs before it takes the lock: cleanup(), then SystemExit.  On
\* that an interrupted `try` cleans up once more, also when a second signal interrupted the
\* handler; a signal under the lock is handled under the lock.
Trying == {"try", "asking", "ready", "stage", "launch", "run"}

SignalledUnhandled(p) ==
  /\ p \in Starts /\ pc[p] \notin {"off", "gone"} /\ Rarely
  /\ To(p, "gone") /\ lock' = Released(p)
  /\ UNCHANGED <<cell, again, registered, reaper, dir, mounts, unit, halting, proxy, killed>>

Signalled(p) ==
  /\ p \in Starts /\ pc[p] \notin {"off", "gone"} /\ Rarely
  /\ To(p, "stop")
  /\ again' = IF pc[p] \in Trying THEN again \cup {p} ELSE again
  /\ UNCHANGED <<cell, registered, lock, reaper, dir, mounts, unit, halting, proxy, killed>>

\* SIGKILL, or SIGTERM and SIGHUP to a build: nothing is released.
Killed(p) ==
  /\ p \in Starts \cup Builds /\ pc[p] \notin {"off", "gone"} /\ Rarely
  /\ Leaves(p)
  /\ UNCHANGED <<cell, again, registered, reaper, dir, mounts, unit, halting, proxy>>

-------------------------------------------------------------------------------
(* cell_reap(), which a new daemon runs before it starts anything. *)

\* The daemon stops: its processes lose their input, and go on to their end.
DaemonRestart ==
  /\ restarts < MaxRestarts /\ restarts' = restarts + 1 /\ pc[Reaper] = "off"
  /\ To(Reaper, "reap")
  /\ todo' = Present /\ kept' = {}
  /\ UNCHANGED <<cell, flags, dir, mounts, unit, halting, proxy, killed, rare>>

\* building(): the cell of a build that runs is left alone.
BuildingAnyUnit(c) == Active(c)

Building(c) == c \in Builds /\ Active(c)

Reap(c) ==
  /\ pc[Reaper] = "reap" /\ c \in todo /\ todo' = todo \ {c}
  /\ \/ dir[c] = "no" /\ UNCHANGED <<pc, cell, kept>>
     \/ dir[c] # "no" /\ Building(c) /\ kept' = kept \cup {c} /\ UNCHANGED <<pc, cell>>
     \/ /\ dir[c] # "no" /\ ~Building(c) /\ UNCHANGED kept
        /\ To(Reaper, "stop") /\ cell' = [cell EXCEPT ![Reaper] = c]
  /\ UNCHANGED <<flags, dir, mounts, unit, halting, proxy, killed, bounds>>

\* The proxy's list, or none when it does not answer.
ReapList ==
  /\ pc[Reaper] = "reap" /\ todo = {}
  /\ To(Reaper, "list")
  /\ \/ todo' = known /\ UNCHANGED bounds
     \/ Rarely /\ UNCHANGED todo
  /\ UNCHANGED <<cell, flags, kept, dir, mounts, unit, halting, proxy, killed>>

ReapRegistration(c) ==
  /\ pc[Reaper] = "list" /\ c \in todo /\ todo' = todo \ {c}
  /\ known' = IF c \notin kept /\ dir[c] = "no" THEN known \ {c} ELSE known
  /\ UNCHANGED <<procs, kept, dir, mounts, unit, halting, asked, killed, bounds>>

\* Mounts left by a cell that is gone.
ReapMounts ==
  /\ pc[Reaper] = "list" /\ todo = {}
  /\ To(Reaper, "off")
  /\ mounts' = [c \in Cells |-> IF c \in kept THEN mounts[c] ELSE {}]
  /\ orphans' = late \cup (orphans \cap kept) /\ late' = {}
  /\ UNCHANGED <<cell, flags, reaper, dir, unit, halting, proxy, bounds>>

\* EgressProxy.running(): no registration and no socket of an earlier proxy stays.
ProxyRestart ==
  /\ Rarely
  /\ asked' = {} /\ known' = {}
  /\ UNCHANGED <<procs, reaper, dir, mounts, unit, halting, killed>>

-------------------------------------------------------------------------------
Prepares(p) ==
  \/ Check(p) \/ Exits(p) \/ Describe(p) \/ MountRoot(p) \/ Registers(p) \/ NoAnswer(p)
  \/ StageDir(p) \/ Attach(p) \/ Launch(p) \/ Returns(p)

CleansUp(p) == Stop(p) \/ Stopped(p) \/ Unregister(p) \/ Unmount(p) \/ Remove(p)

Reaps ==
  \/ \E c \in Cells : Reap(c) \/ ReapRegistration(c)
  \/ ReapList
  \/ ReapMounts

Next ==
  \/ \E p \in Starts, t \in Tasks : Invoke(p, t)
  \/ \E b \in Builds : Build(b)
  \/ \E p \in Starts \cup Builds : Prepares(p)
  \/ \E p \in Procs : CleansUp(p)
  \/ \E p \in Starts \cup Builds : StartFails(p) \/ FailsEarly(p) \/ Signalled(p) \/ Killed(p)
  \/ \E c \in Cells : UnitEnds(c)
  \/ DaemonRestart
  \/ Reaps
  \/ ProxyRestart

Spec == Init /\ [][Next]_vars

-------------------------------------------------------------------------------
(* Properties. *)

Phases == Trying \cup {"off", "lock", "refused", "made", "stop", "stopping", "unregister", "unmount",
                       "remove", "reap", "list", "gone"}

\* Every variable keeps its shape, `reap` leaves nothing but builds alone, only a unit that exists
\* is being stopped, and a unit is that of the process that launched it for this cell.
TypeOK ==
  /\ pc \in [Procs -> Phases] /\ cell \in [Procs -> Cells \cup {None}]
  /\ again \subseteq Starts /\ registered \subseteq Builds /\ lock \in Starts \cup {None}
  /\ todo \subseteq Cells /\ kept \subseteq Builds
  /\ dir \in [Cells -> {"no", "made", "staged"}]
  /\ mounts \in [Cells -> SUBSET {"root", "workspace"}]
  /\ unit \in [Cells -> Starts \cup Builds \cup {None}]
  /\ halting \subseteq {c \in Cells : unit[c] # None}
  /\ asked \subseteq Starts \cup Builds /\ known \subseteq Cells
  /\ late \subseteq orphans /\ orphans \subseteq Cells
  /\ rare \in 0..MaxRare /\ restarts \in 0..MaxRestarts
  /\ \A c \in Cells : unit[c] # None => cell[unit[c]] = c

\* Whether a process works on a cell, or may have left something of it to itself.
At(p, c) == cell[p] = c /\ pc[p] \notin {"off", "lock", "refused", "gone", "reap", "list"}

\* "exits only after the cell's overlay, sockets and proxy registration are released", and the
\* reap of the next daemon releases what a killed process left, or one that failed before its
\* `try`: where nothing is at work, and nobody left without a cleanup since the last reap, no
\* directory and no mount of the cell is left.
NothingLeft ==
  \A c \in Cells \ orphans :
    (\A p \in Procs : ~At(p, c)) => dir[c] = "no" /\ mounts[c] = {}
===============================================================================
