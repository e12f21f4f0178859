--------------------------- MODULE SupervisionProofs ---------------------------
(***************************************************************************)
(* Proofs about Supervision, for any set of processes: the type invariant, *)
(* the single instance and the registration under every fault, and the     *)
(* unbroken chain of restarts under the faults the code handles.           *)
(***************************************************************************)
EXTENDS Supervision, TLAPS

(* What starting the exe does to the processes: at most one more, launched,  *)
(* under one of the identifiers it may get.                                  *)
LEMMA LaunchEffect ==
  ASSUME NEW left \in [Proc -> ProcStates], NEW ids \in SUBSET Proc,
         NEW after \in Launch(left, ids)
  PROVE  /\ after \in [Proc -> ProcStates]
         /\ \A i \in Proc : after[i] = left[i] \/ (i \in ids /\ after[i] = "launched")
         /\ exe => \E j \in ids : after[j] = "launched"
  BY DEF Launch, ProcStates

(* Every step keeps the type invariant. *)
LEMMA TypeStep == TypeOK /\ [Next]_vars => TypeOK'
<1> SUFFICES ASSUME TypeOK, [Next]_vars PROVE TypeOK'
  OBVIOUS
<1> USE DEF TypeOK
<1>1. CASE UNCHANGED vars
  BY <1>1 DEF vars
<1>2. ASSUME NEW i \in Proc, EnsureSingleInstance(i) PROVE TypeOK'
  BY <1>2 DEF EnsureSingleInstance, ProcStates
<1>3. ASSUME NEW i \in Proc, ExitRefused(i) PROVE TypeOK'
  BY <1>3 DEF ExitRefused, ProcStates
<1>4. ASSUME NEW i \in Proc, Boot(i) PROVE TypeOK'
  BY <1>4 DEF Boot, ProcStates, WdStates
<1>5. ASSUME NEW i \in Proc, MarkUpdate(i) PROVE TypeOK'
  BY <1>5 DEF MarkUpdate, ProcStates
<1>6. ASSUME NEW i \in Proc, Leave(i) PROVE TypeOK'
  BY <1>6 DEF Leave, ProcStates
<1>7. ASSUME NEW i \in Proc, OnForceLock(i) PROVE TypeOK'
  <2>1. [proc EXCEPT ![i] = "leaving"] \in [Proc -> ProcStates]
    BY DEF ProcStates
  <2>2. proc' \in [Proc -> ProcStates]
    BY <1>7, <2>1, LaunchEffect DEF OnForceLock, FreeIds
  <2> QED BY <1>7, <2>2 DEF OnForceLock
<1>8. ASSUME NEW i \in Proc, ApplyUpdate(i) PROVE TypeOK'
  BY <1>8 DEF ApplyUpdate, ProcStates
<1>9. ASSUME NEW i \in Proc, UninstallAgent(i) PROVE TypeOK'
  BY <1>9 DEF UninstallAgent, ProcStates
<1>10. ASSUME NEW i \in Proc, Terminate(i) PROVE TypeOK'
  BY <1>10 DEF Terminate, ProcStates
<1>11. ASSUME NEW i \in Proc, StartWatchdog(i) PROVE TypeOK'
  BY <1>11 DEF StartWatchdog, WdStates
<1>12. ASSUME NEW i \in Proc, Poll(i) PROVE TypeOK'
  BY <1>12 DEF Poll, WdStates
<1>13. ASSUME NEW i \in Proc, UpdateWait(i) PROVE TypeOK'
  BY <1>13 DEF UpdateWait, WdStates
<1>14. ASSUME NEW i \in Proc, RelaunchAgent(i) PROVE TypeOK'
  <2>1. proc' \in [Proc -> ProcStates]
    BY <1>14, LaunchEffect DEF RelaunchAgent, FreeIds
  <2> QED BY <1>14, <2>1 DEF RelaunchAgent, WdStates
<1>15. ASSUME NEW i \in Proc, KillWatchdog(i) PROVE TypeOK'
  BY <1>15 DEF KillWatchdog, WdStates
<1>16. CASE ScriptKill
  BY <1>16 DEF ScriptKill, ProcStates, WdStates
<1>17. CASE ScriptRename
  BY <1>17 DEF ScriptRename
<1>18. CASE ScriptStart
  BY <1>18 DEF ScriptStart, FreeIds, ProcStates
<1>19. CASE ScriptCheck
  <2>1. proc' \in [Proc -> ProcStates]
    BY <1>19, LaunchEffect DEF ScriptCheck, FreeIds
  <2> QED BY <1>19, <2>1 DEF ScriptCheck
<1>20. CASE ScriptBlocked \/ ScriptFail
  BY <1>20 DEF ScriptBlocked, ScriptFail
<1>21. CASE RunBat
  BY <1>21 DEF RunBat
<1>22. CASE PowerCycle
  <2>1. logons' \in 0 .. 2
    <3>1. logons' = 0 \/ logons' = 2
      BY <1>22, Zenon DEF PowerCycle
    <3> QED BY <3>1
  <2> QED BY <1>22, <2>1 DEF PowerCycle, ProcStates, WdStates
<1>23. CASE Logon
  <2>1. proc' \in [Proc -> ProcStates]
    BY <1>23, LaunchEffect DEF Logon, FreeIds
  <2> QED BY <1>23, <2>1 DEF Logon
<1>24. CASE StartByUser
  <2>1. proc' \in [Proc -> ProcStates]
    BY <1>24, LaunchEffect DEF StartByUser, FreeIds
  <2> QED BY <1>24, <2>1 DEF StartByUser
<1>25. CASE MarkerAges
  BY <1>25 DEF MarkerAges
<1> QED
  BY <1>1, <1>2, <1>3, <1>4, <1>5, <1>6, <1>7, <1>8, <1>9, <1>10, <1>11, <1>12, <1>13,
     <1>14, <1>15, <1>16, <1>17, <1>18, <1>19, <1>20, <1>21, <1>22, <1>23, <1>24, <1>25
  DEF Next, AgentStep, Command, WatchdogStep, ScriptStep

(* TypeOK is an invariant of Supervision. *)
THEOREM TypeCorrect == Spec => []TypeOK
<1>1. Init => TypeOK
  <2> SUFFICES ASSUME Init PROVE TypeOK
    OBVIOUS
  <2>1. proc \in [Proc -> ProcStates]
    BY DEF Init, ProcStates
  <2>2. wd \in [Proc -> WdStates]
    BY DEF Init, WdStates
  <2>3. registered \in BOOLEAN /\ exe \in BOOLEAN /\ bat \in BOOLEAN
    BY DEF Init
  <2>4. /\ marker \in {"none", "fresh", "stale"}
        /\ pidFile \in Proc \cup {NoProc} /\ scriptChild \in Proc \cup {NoProc}
        /\ script \in {"idle", "started", "killed", "copying", "checking"}
        /\ script # "checking" /\ logons \in 0 .. 2
    BY DEF Init
  <2> QED BY <2>1, <2>2, <2>3, <2>4 DEF TypeOK
<1> QED BY <1>1, TypeStep, PTL DEF Spec

-----------------------------------------------------------------------------
(* A step admits a process past the mutex only if no process has a handle on *)
(* it, and then only that one; every other step admits nobody.               *)
LEMMA AdmissionStep ==
  ASSUME TypeOK, [Next]_vars
  PROVE  \/ \A i \in Proc : Admitted(i)' => Admitted(i)
         \/ ~MutexExists /\ \E i \in Proc : proc' = [proc EXCEPT ![i] = "booting"]
<1> DEFINE Nobody == \A i \in Proc : Admitted(i)' => Admitted(i)
<1> USE DEF Admitted, TypeOK
<1>1. ASSUME NEW left \in [Proc -> ProcStates], NEW ids \in SUBSET Proc,
             proc' \in Launch(left, ids),
             \A i \in Proc : left[i] = proc[i] \/ (Admitted(i) /\ left[i] = "leaving")
      PROVE  Nobody
  BY <1>1, LaunchEffect
<1>2. ASSUME NEW i \in Proc, EnsureSingleInstance(i)
      PROVE  \/ Nobody
             \/ ~MutexExists /\ \E j \in Proc : proc' = [proc EXCEPT ![j] = "booting"]
  BY <1>2 DEF EnsureSingleInstance
<1>3. ASSUME NEW i \in Proc, AgentStep(i), ~EnsureSingleInstance(i) PROVE Nobody
  BY <1>3 DEF AgentStep, ExitRefused, Boot, MarkUpdate, Leave
<1>4. ASSUME NEW i \in Proc, Command(i) \/ Terminate(i) PROVE Nobody
  <2>1. CASE OnForceLock(i)
    <3>1. [proc EXCEPT ![i] = "leaving"] \in [Proc -> ProcStates]
      BY DEF ProcStates
    <3> DEFINE left == [proc EXCEPT ![i] = "leaving"]
    <3>2. \A j \in Proc : left[j] = proc[j] \/ (Admitted(j) /\ left[j] = "leaving")
      BY <2>1 DEF OnForceLock
    <3>3. proc' \in Launch(left, FreeIds) /\ FreeIds \in SUBSET Proc
      BY <2>1 DEF OnForceLock, FreeIds
    <3> HIDE DEF left
    <3>4. left \in [Proc -> ProcStates]
      BY <3>1 DEF left
    <3> QED BY <1>1, <3>2, <3>3, <3>4
  <2>2. CASE ApplyUpdate(i) \/ UninstallAgent(i) \/ Terminate(i)
    BY <2>2 DEF ApplyUpdate, UninstallAgent, Terminate
  <2> QED BY <1>4, <2>1, <2>2 DEF Command
<1>5. ASSUME NEW i \in Proc, WatchdogStep(i) \/ KillWatchdog(i) PROVE Nobody
  <2>1. CASE RelaunchAgent(i)
    BY <1>1, <2>1 DEF RelaunchAgent, FreeIds
  <2>2. CASE StartWatchdog(i) \/ Poll(i) \/ UpdateWait(i) \/ KillWatchdog(i)
    BY <2>2 DEF StartWatchdog, Poll, UpdateWait, KillWatchdog
  <2> QED BY <1>5, <2>1, <2>2 DEF WatchdogStep
<1>6. CASE ScriptStep \/ ScriptBlocked \/ ScriptFail
  <2>1. CASE ScriptCheck
    BY <1>1, <2>1 DEF ScriptCheck, FreeIds
  <2>2. CASE ScriptStart
    BY <2>2 DEF ScriptStart, FreeIds
  <2>3. CASE ScriptKill \/ ScriptRename \/ ScriptBlocked \/ ScriptFail
    BY <2>3 DEF ScriptKill, ScriptRename, ScriptBlocked, ScriptFail
  <2> QED BY <1>6, <2>1, <2>2, <2>3 DEF ScriptStep
<1>7. CASE Logon \/ StartByUser
  BY <1>1, <1>7 DEF Logon, StartByUser, FreeIds
<1>8. CASE RunBat \/ PowerCycle \/ MarkerAges \/ UNCHANGED vars
  BY <1>8 DEF RunBat, PowerCycle, MarkerAges, vars
<1> QED
  BY <1>2, <1>3, <1>4, <1>5, <1>6, <1>7, <1>8 DEF Next

(* main.py:14 - two agents never run at once, whatever faults happen.        *)
THEOREM SingleInstanceHolds == Spec => []SingleInstance
<1>1. Init => SingleInstance
  BY DEF Init, SingleInstance, Admitted
<1>2. TypeOK /\ SingleInstance /\ [Next]_vars => SingleInstance'
  BY AdmissionStep DEF SingleInstance, MutexExists, Admitted, TypeOK
<1> QED BY <1>1, <1>2, TypeCorrect, PTL DEF Spec

-----------------------------------------------------------------------------
(* An agent reaches "running" only by registering, and only the one agent    *)
(* that is up can take the registration away, becoming "uninstalling".       *)
LEMMA RegistrationStep ==
  ASSUME TypeOK, SingleInstance, RunningIsRegistered, [Next]_vars
  PROVE  RunningIsRegistered'
<1> USE DEF RunningIsRegistered, TypeOK
<1>1. ASSUME NEW left \in [Proc -> ProcStates], NEW ids \in SUBSET Proc,
             proc' \in Launch(left, ids), registered' = registered,
             \A i \in Proc : left[i] = proc[i] \/ proc[i] = "running"
      PROVE  RunningIsRegistered'
  BY <1>1, LaunchEffect
<1>2. ASSUME NEW i \in Proc, AgentStep(i) PROVE RunningIsRegistered'
  BY <1>2 DEF AgentStep, EnsureSingleInstance, ExitRefused, Boot, MarkUpdate, Leave
<1>3. ASSUME NEW i \in Proc, Command(i) \/ Terminate(i) PROVE RunningIsRegistered'
  <2>1. CASE OnForceLock(i)
    <3> DEFINE left == [proc EXCEPT ![i] = "leaving"]
    <3>1. left \in [Proc -> ProcStates]
      BY DEF ProcStates
    <3>2. \A j \in Proc : left[j] = proc[j] \/ proc[j] = "running"
      BY <2>1 DEF OnForceLock
    <3>3. proc' \in Launch(left, FreeIds) /\ FreeIds \in SUBSET Proc /\ registered' = registered
      BY <2>1 DEF OnForceLock, FreeIds
    <3> HIDE DEF left
    <3> QED BY <1>1, <3>1, <3>2, <3>3
  <2>2. CASE UninstallAgent(i)
    BY <2>2 DEF UninstallAgent, SingleInstance, Admitted
  <2>3. CASE ApplyUpdate(i) \/ Terminate(i)
    BY <2>3 DEF ApplyUpdate, Terminate
  <2> QED BY <1>3, <2>1, <2>2, <2>3 DEF Command
<1>4. ASSUME NEW i \in Proc, WatchdogStep(i) \/ KillWatchdog(i) PROVE RunningIsRegistered'
  <2>1. CASE RelaunchAgent(i)
    BY <1>1, <2>1 DEF RelaunchAgent, FreeIds
  <2>2. CASE StartWatchdog(i) \/ Poll(i) \/ UpdateWait(i) \/ KillWatchdog(i)
    BY <2>2 DEF StartWatchdog, Poll, UpdateWait, KillWatchdog
  <2> QED BY <1>4, <2>1, <2>2 DEF WatchdogStep
<1>5. CASE ScriptStep \/ ScriptBlocked \/ ScriptFail
  <2>1. CASE ScriptCheck
    BY <1>1, <2>1 DEF ScriptCheck, FreeIds
  <2>2. CASE ScriptStart
    BY <2>2 DEF ScriptStart, FreeIds
  <2>3. CASE ScriptKill \/ ScriptRename \/ ScriptBlocked \/ ScriptFail
    BY <2>3 DEF ScriptKill, ScriptRename, ScriptBlocked, ScriptFail
  <2> QED BY <1>5, <2>1, <2>2, <2>3 DEF ScriptStep
<1>6. CASE Logon \/ StartByUser
  BY <1>1, <1>6 DEF Logon, StartByUser, FreeIds
<1>7. CASE RunBat \/ PowerCycle \/ MarkerAges \/ UNCHANGED vars
  BY <1>7 DEF RunBat, PowerCycle, MarkerAges, vars
<1> QED
  BY <1>2, <1>3, <1>4, <1>5, <1>6, <1>7 DEF Next

(* main.py:107 - the next logon starts whatever agent has come up.           *)
THEOREM RegistrationHolds == Spec => []RunningIsRegistered
<1>1. Init => RunningIsRegistered
  BY DEF Init, RunningIsRegistered
<1>2. TypeOK /\ SingleInstance /\ RunningIsRegistered /\ [Next]_vars => RunningIsRegistered'
  BY RegistrationStep
<1> QED BY <1>1, <1>2, TypeCorrect, SingleInstanceHolds, PTL DEF Spec

-----------------------------------------------------------------------------
(* Under the handled faults every step keeps the chain of restarts.  The     *)
(* steps that could break it: a watchdog leaves (it has relaunched, or has   *)
(* seen the mutex of an agent with a watchdog of its own), a launched        *)
(* process is refused (then the mutex is supervised), and the batch file     *)
(* deletes the exe (then nothing may be alive to need it).                   *)
LEMMA ChainStep ==
  ASSUME Faults \subseteq HandledFaults, TypeOK, ChainInv, [Next]_vars
  PROVE  ChainInv'
<1> USE DEF TypeOK, ChainInv, ChainUnbroken, ReplaceUndisturbed, UpAgentsWatched,
            MutexSupervised, ExeOnlyReplaced, MutexExists, Admitted
<1>0. Faults \cap {"kill_starting", "kill_watchdog", "power_off", "manual_start",
                   "replace_failure"} = {}
  BY DEF HandledFaults
<1>1. ASSUME NEW i \in Proc, EnsureSingleInstance(i) PROVE ChainInv'
  BY <1>1 DEF EnsureSingleInstance
<1>2. ASSUME NEW i \in Proc, ExitRefused(i) PROVE ChainInv'
  BY <1>2 DEF ExitRefused
<1>3. ASSUME NEW i \in Proc, Boot(i) PROVE ChainInv'
  BY <1>0, <1>3 DEF Boot
<1>4. ASSUME NEW i \in Proc, MarkUpdate(i) PROVE ChainInv'
  BY <1>4 DEF MarkUpdate
<1>5. ASSUME NEW i \in Proc, Leave(i) PROVE ChainInv'
  BY <1>5 DEF Leave
<1>6. ASSUME NEW i \in Proc, OnForceLock(i) PROVE ChainInv'
  <2> DEFINE left == [proc EXCEPT ![i] = "leaving"]
  <2>1. left \in [Proc -> ProcStates] /\ FreeIds \in SUBSET Proc
    BY DEF ProcStates, FreeIds
  <2>2. \A j \in Proc : proc'[j] = left[j] \/ (j \in FreeIds /\ proc'[j] = "launched")
    <3>1. proc' \in Launch(left, FreeIds)
      BY <1>6 DEF OnForceLock
    <3> HIDE DEF left
    <3> QED BY <2>1, <3>1, LaunchEffect
  <2>3. /\ wd[i] \in {"spawned", "watching"} /\ proc[i] = "running"
        /\ \A j \in Proc : left[j] = proc[j] \/ (j = i /\ left[j] = "leaving")
    BY <1>6 DEF OnForceLock
  <2>4. UNCHANGED <<wd, exe, script, logons>>
    BY <1>6 DEF OnForceLock
  <2> HIDE DEF left
  <2> QED BY <2>2, <2>3, <2>4 DEF FreeIds
<1>7. ASSUME NEW i \in Proc, ApplyUpdate(i) PROVE ChainInv'
  BY <1>7 DEF ApplyUpdate
<1>8. ASSUME NEW i \in Proc, UninstallAgent(i) PROVE ChainInv'
  BY <1>8 DEF UninstallAgent
<1>9. ASSUME NEW i \in Proc, Terminate(i) PROVE ChainInv'
  BY <1>0, <1>9 DEF Terminate, ProcStates
<1>10. ASSUME NEW i \in Proc, StartWatchdog(i) PROVE ChainInv'
  BY <1>10 DEF StartWatchdog
<1>11. ASSUME NEW i \in Proc, Poll(i) PROVE ChainInv'
  BY <1>11 DEF Poll
<1>12. ASSUME NEW i \in Proc, UpdateWait(i) PROVE ChainInv'
  BY <1>12 DEF UpdateWait, Settled
<1>13. ASSUME NEW i \in Proc, RelaunchAgent(i) PROVE ChainInv'
  <2> DEFINE ids == FreeIds \cup ({i} \ {scriptChild})
  <2>1. script \notin {"killed", "copying"} /\ exe /\ wd[i] = "delay"
    BY <1>13 DEF RelaunchAgent
  <2>2. \A j \in Proc : proc'[j] = proc[j] \/ (j \in ids /\ proc'[j] = "launched")
    BY <1>13, LaunchEffect DEF RelaunchAgent, FreeIds
  <2>3. \E j \in Proc : proc'[j] = "launched"
    BY <1>13, <2>1, LaunchEffect DEF RelaunchAgent, FreeIds
  <2>4. /\ wd' = [wd EXCEPT ![i] = "none"] /\ UNCHANGED <<exe, script, logons>>
        /\ \A j \in Proc : proc[j] # "refused"
    BY <1>13 DEF RelaunchAgent, Settled
  <2> HIDE DEF ids
  <2>5. UpAgentsWatched' /\ ChainUnbroken' /\ ReplaceUndisturbed' /\ ExeOnlyReplaced'
    BY <2>1, <2>2, <2>3, <2>4
  <2>6. MutexSupervised'
    BY <2>1, <2>2, <2>4
  <2> QED BY <2>4, <2>5, <2>6
<1>14. CASE ScriptKill
  BY <1>14 DEF ScriptKill
<1>15. CASE ScriptRename
  BY <1>15 DEF ScriptRename
<1>16. CASE ScriptStart
  BY <1>16 DEF ScriptStart, FreeIds
<1>17. CASE ScriptCheck
  <2>1. \A j \in Proc : proc'[j] = proc[j] \/ (proc[j] = "gone" /\ proc'[j] = "launched")
    BY <1>17, LaunchEffect DEF ScriptCheck, FreeIds
  <2>2. script = "checking" /\ script' = "idle" /\ UNCHANGED <<wd, exe, logons>>
    BY <1>17 DEF ScriptCheck
  <2> QED BY <2>1, <2>2
<1>18. CASE ScriptBlocked
  BY <1>18 DEF ScriptBlocked
<1>19. CASE RunBat
  BY <1>19 DEF RunBat
<1>20. CASE MarkerAges \/ UNCHANGED vars
  BY <1>20 DEF MarkerAges, vars
<1>21. ~ScriptFail /\ ~PowerCycle /\ ~Logon /\ ~StartByUser /\ \A i \in Proc : ~KillWatchdog(i)
  BY <1>0 DEF ScriptFail, PowerCycle, Logon, StartByUser, KillWatchdog
<1> QED
  BY <1>1, <1>2, <1>3, <1>4, <1>5, <1>6, <1>7, <1>8, <1>9, <1>10, <1>11, <1>12, <1>13,
     <1>14, <1>15, <1>16, <1>17, <1>18, <1>19, <1>20, <1>21
  DEF Next, AgentStep, Command, WatchdogStep, ScriptStep

(* The inductive invariant, under the handled faults. *)
LEMMA ChainInvHolds ==
  ASSUME Faults \subseteq HandledFaults
  PROVE  Spec => []ChainInv
<1>1. Init => ChainInv
  BY DEF Init, ChainInv, ChainUnbroken, ReplaceUndisturbed, UpAgentsWatched,
         MutexSupervised, ExeOnlyReplaced, MutexExists, Admitted
<1>2. TypeOK /\ ChainInv /\ [Next]_vars => ChainInv'
  BY ChainStep
<1> QED BY <1>1, <1>2, TypeCorrect, PTL DEF Spec

(* watchdog.py:1 - under the handled faults something is always left that    *)
(* will bring the agent back.                                                *)
THEOREM ChainHolds ==
  ASSUME Faults \subseteq HandledFaults
  PROVE  Spec => []ChainUnbroken
<1>1. ChainInv => ChainUnbroken
  BY DEF ChainInv
<1> QED BY <1>1, ChainInvHolds, PTL

(* update_exit_marker.py:1 - under the handled faults nothing runs from the  *)
(* exe while the script replaces it.                                         *)
THEOREM ReplaceHolds ==
  ASSUME Faults \subseteq HandledFaults
  PROVE  Spec => []ReplaceUndisturbed
<1>1. ChainInv => ReplaceUndisturbed
  BY DEF ChainInv
<1> QED BY <1>1, ChainInvHolds, PTL

=============================================================================
