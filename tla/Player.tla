-------------------------------- MODULE Player --------------------------------
(***************************************************************************)
(* The legacy Player (src/unnamed/part_008, class Player): spawn() and     *)
(* kill() of the player's one conductor process, called by concurrent      *)
(* async tasks of a scenario.  Each await is a point where another task    *)
(* may run: onJoin, _spawnConductor, initialize, c.kill and onLeave.       *)
(* A call of spawn while a conductor is set, and of kill while none is,    *)
(* only logs a warning and returns: those early returns are stutters.      *)
(* cleanup() calls kill() synchronously when a conductor is set, so it     *)
(* behaves as kill here (unparkPort is not modelled).                      *)
(***************************************************************************)
CONSTANTS
    Tasks,        \* concurrent async tasks using one Player
    Procs,        \* process ids _spawnConductor may start (reused after exit)
    NoConductor   \* this._conductor = null

ASSUME PlayerAssumption == NoConductor \notin Procs

VARIABLES
    conductor,  \* this._conductor
    alive,      \* conductor processes that are running
    task        \* task -> [pc, proc]: where its call is and its local conductor

vars == <<conductor, alive, task>>

Pcs == {"idle", "spawnJoin", "spawnStarted", "spawnInit", "killWait", "killLeave"}
Idle == [pc |-> "idle", proc |-> NoConductor]

Init ==
    /\ conductor = NoConductor
    /\ alive = {}
    /\ task = [t \in Tasks |-> Idle]

At(t, pc) == task[t].pc = pc
Goto(t, pc, p) == task' = [task EXCEPT ![t] = [pc |-> pc, proc |-> p]]

\* spawn(): the check of this._conductor, then await this.onJoin().
Spawn(t) ==
    /\ At(t, "idle")
    /\ conductor = NoConductor
    /\ Goto(t, "spawnJoin", NoConductor)
    /\ UNCHANGED <<conductor, alive>>

\* onJoin resolved; await this._spawnConductor(...) starts a process.
SpawnProcess(t, p) ==
    /\ At(t, "spawnJoin")
    /\ p \notin alive
    /\ alive' = alive \cup {p}
    /\ Goto(t, "spawnStarted", p)
    /\ UNCHANGED conductor

\* _spawnConductor resolved: this._conductor = conductor, await initialize().
SpawnAssign(t) ==
    /\ At(t, "spawnStarted")
    /\ conductor' = task[t].proc
    /\ Goto(t, "spawnInit", NoConductor)
    /\ UNCHANGED alive

SpawnInitialized(t) ==
    /\ At(t, "spawnInit")
    /\ Goto(t, "idle", NoConductor)
    /\ UNCHANGED <<conductor, alive>>

\* Mutant: kill() that clears this._conductor only after c.kill resolved.
KillLate(t) ==
    /\ At(t, "idle")
    /\ conductor # NoConductor
    /\ Goto(t, "killWait", conductor)
    /\ UNCHANGED <<conductor, alive>>

\* kill(): c = this._conductor; this._conductor = null; await c.kill(signal).
Kill(t) ==
    /\ At(t, "idle")
    /\ conductor # NoConductor
    /\ conductor' = NoConductor
    /\ Goto(t, "killWait", conductor)
    /\ UNCHANGED alive

\* The process exited; await this.onLeave().
KillExited(t) ==
    /\ At(t, "killWait")
    /\ alive' = alive \ {task[t].proc}
    /\ Goto(t, "killLeave", NoConductor)
    /\ UNCHANGED conductor

KillLeft(t) ==
    /\ At(t, "killLeave")
    /\ Goto(t, "idle", NoConductor)
    /\ UNCHANGED <<conductor, alive>>

Next ==
    \E t \in Tasks :
        \/ Spawn(t) \/ SpawnAssign(t) \/ SpawnInitialized(t)
        \/ \E p \in Procs : SpawnProcess(t, p)
        \/ Kill(t) \/ KillExited(t) \/ KillLeft(t)

Spec == Init /\ [][Next]_vars

-----------------------------------------------------------------------------
(***************************************************************************)
(* Each kill() (a test's own, or the one cleanup() makes at the end of a   *)
(* scenario while the test's may still be awaiting) stops its own running  *)
(* process: the process a task awaits c.kill() on is running, and no other *)
(* task holds it, neither a second kill nor a spawn that reused its id.    *)
(* It rests on kill() taking c and clearing _conductor in one synchronous  *)
(* run, and on _spawnConductor only starting a process that is not running.*)
(***************************************************************************)
ExclusiveKill ==
    \A t \in Tasks : At(t, "killWait") =>
        /\ task[t].proc \in alive
        /\ \A u \in Tasks \ {t} : task[u].proc # task[t].proc

(***************************************************************************)
(* At most one conductor per player (the warning "Attempted to spawn       *)
(* conductor twice"): every running process is the player's conductor, or  *)
(* is held by a spawn that has not stored it yet or a kill that stops it.  *)
(* A process that is none of these is never killed by kill() or cleanup(). *)
(***************************************************************************)
NoLeakedConductor ==
    \A p \in alive :
        \/ p = conductor
        \/ \E t \in Tasks : task[t].proc = p

=============================================================================
