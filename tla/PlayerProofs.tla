------------------------------ MODULE PlayerProofs ------------------------------
(***************************************************************************)
(* Proof that every kill() stops its own running process, for every number *)
(* of tasks and processes.  The invariant                                  *)
(* needs strengthening: a process a task holds (a spawn that has not       *)
(* stored it, or a kill that waits for it) is running, differs from the    *)
(* player's conductor and from every process another task holds, and the   *)
(* player's conductor is running.  Then SpawnProcess, which picks a        *)
(* process that is not running, never picks one of these, and Kill hands   *)
(* the conductor to one task while it clears the field.                    *)
(***************************************************************************)
EXTENDS Player, TLAPS

TypeOK ==
    /\ conductor \in Procs \cup {NoConductor}
    /\ alive \subseteq Procs
    /\ task \in [Tasks -> [pc : Pcs, proc : Procs \cup {NoConductor}]]

\* Which tasks hold a process, and that what they hold is running.
Held ==
    \A t \in Tasks :
        /\ task[t].pc \in {"spawnStarted", "killWait"} <=> task[t].proc # NoConductor
        /\ task[t].proc # NoConductor => task[t].proc \in alive

\* The conductor is running and no task holds it or a process another holds.
Distinct ==
    /\ conductor # NoConductor => conductor \in alive
    /\ \A t \in Tasks : task[t].proc # NoConductor => task[t].proc # conductor
    /\ \A t, u \in Tasks : t # u /\ task[t].proc # NoConductor => task[t].proc # task[u].proc

PInv == TypeOK /\ Held /\ Distinct

USE PlayerAssumption

LEMMA PInvInit == Init => PInv
BY DEF Init, PInv, TypeOK, Held, Distinct, Idle, Pcs

\* Moving one task to pc with process p, the other tasks and fields unchanged.
LEMMA GotoTyped ==
    ASSUME TypeOK, NEW t \in Tasks, NEW pc \in Pcs, NEW p \in Procs \cup {NoConductor},
           Goto(t, pc, p)
    PROVE  /\ task' \in [Tasks -> [pc : Pcs, proc : Procs \cup {NoConductor}]]
           /\ task'[t] = [pc |-> pc, proc |-> p]
           /\ \A u \in Tasks \ {t} : task'[u] = task[u]
BY DEF Goto, TypeOK

LEMMA PInvStep == PInv /\ [Next]_vars => PInv'
<1> SUFFICES ASSUME PInv, [Next]_vars PROVE PInv' OBVIOUS
<1> USE DEF Pcs
<1>1. CASE UNCHANGED vars BY <1>1 DEF vars, PInv, TypeOK, Held, Distinct
<1>2. ASSUME NEW t \in Tasks, Spawn(t) PROVE PInv'
  <2>1. /\ task' \in [Tasks -> [pc : Pcs, proc : Procs \cup {NoConductor}]]
        /\ task'[t] = [pc |-> "spawnJoin", proc |-> NoConductor]
        /\ \A u \in Tasks \ {t} : task'[u] = task[u]
        BY <1>2, GotoTyped DEF Spawn, PInv
  <2>2. task[t].proc = NoConductor BY <1>2 DEF Spawn, At, PInv, Held
  <2> QED BY <1>2, <2>1, <2>2 DEF Spawn, PInv, TypeOK, Held, Distinct
<1>3. ASSUME NEW t \in Tasks, NEW p \in Procs, SpawnProcess(t, p) PROVE PInv'
  <2>1. /\ task' \in [Tasks -> [pc : Pcs, proc : Procs \cup {NoConductor}]]
        /\ task'[t] = [pc |-> "spawnStarted", proc |-> p]
        /\ \A u \in Tasks \ {t} : task'[u] = task[u]
        BY <1>3, GotoTyped DEF SpawnProcess, PInv
  <2>2. task[t].proc = NoConductor /\ p \notin alive
        BY <1>3 DEF SpawnProcess, At, PInv, Held
  <2> QED BY <1>3, <2>1, <2>2 DEF SpawnProcess, PInv, TypeOK, Held, Distinct
<1>4. ASSUME NEW t \in Tasks, SpawnAssign(t) PROVE PInv'
  <2>1. /\ task' \in [Tasks -> [pc : Pcs, proc : Procs \cup {NoConductor}]]
        /\ task'[t] = [pc |-> "spawnInit", proc |-> NoConductor]
        /\ \A u \in Tasks \ {t} : task'[u] = task[u]
        BY <1>4, GotoTyped DEF SpawnAssign, PInv
  <2>2. task[t].proc \in alive /\ conductor' = task[t].proc
        BY <1>4 DEF SpawnAssign, At, PInv, Held
  <2> QED BY <1>4, <2>1, <2>2 DEF SpawnAssign, PInv, TypeOK, Held, Distinct
<1>5. ASSUME NEW t \in Tasks, SpawnInitialized(t) PROVE PInv'
  <2>1. /\ task' \in [Tasks -> [pc : Pcs, proc : Procs \cup {NoConductor}]]
        /\ task'[t] = [pc |-> "idle", proc |-> NoConductor]
        /\ \A u \in Tasks \ {t} : task'[u] = task[u]
        BY <1>5, GotoTyped DEF SpawnInitialized, PInv
  <2> QED BY <1>5, <2>1 DEF SpawnInitialized, PInv, TypeOK, Held, Distinct
<1>6. ASSUME NEW t \in Tasks, Kill(t) PROVE PInv'
  <2>1. /\ task' \in [Tasks -> [pc : Pcs, proc : Procs \cup {NoConductor}]]
        /\ task'[t] = [pc |-> "killWait", proc |-> conductor]
        /\ \A u \in Tasks \ {t} : task'[u] = task[u]
        BY <1>6, GotoTyped DEF Kill, PInv, TypeOK
  <2>2. task[t].proc = NoConductor BY <1>6 DEF Kill, At, PInv, Held
  <2> QED BY <1>6, <2>1, <2>2 DEF Kill, PInv, TypeOK, Held, Distinct
<1>7. ASSUME NEW t \in Tasks, KillExited(t) PROVE PInv'
  <2>1. /\ task' \in [Tasks -> [pc : Pcs, proc : Procs \cup {NoConductor}]]
        /\ task'[t] = [pc |-> "killLeave", proc |-> NoConductor]
        /\ \A u \in Tasks \ {t} : task'[u] = task[u]
        BY <1>7, GotoTyped DEF KillExited, PInv
  <2>2. task[t].proc # NoConductor BY <1>7 DEF KillExited, At, PInv, Held
  <2> QED BY <1>7, <2>1, <2>2 DEF KillExited, PInv, TypeOK, Held, Distinct
<1>8. ASSUME NEW t \in Tasks, KillLeft(t) PROVE PInv'
  <2>1. /\ task' \in [Tasks -> [pc : Pcs, proc : Procs \cup {NoConductor}]]
        /\ task'[t] = [pc |-> "idle", proc |-> NoConductor]
        /\ \A u \in Tasks \ {t} : task'[u] = task[u]
        BY <1>8, GotoTyped DEF KillLeft, PInv
  <2> QED BY <1>8, <2>1 DEF KillLeft, PInv, TypeOK, Held, Distinct
<1> QED BY <1>1, <1>2, <1>3, <1>4, <1>5, <1>6, <1>7, <1>8 DEF Next

(***************************************************************************)
(* For every instance: a task awaiting c.kill() in kill() waits on a       *)
(* running process that no other task (kill or spawn) holds.               *)
(***************************************************************************)
THEOREM ExclusiveKillInvariant == Spec => []ExclusiveKill
<1>1. Init => PInv BY PInvInit
<1>2. PInv /\ [Next]_vars => PInv' BY PInvStep
<1>3. PInv => ExclusiveKill BY DEF PInv, Held, Distinct, ExclusiveKill, At
<1> QED BY <1>1, <1>2, <1>3, PTL DEF Spec

=============================================================================
