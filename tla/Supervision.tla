------------------------------ MODULE Supervision ------------------------------
(***************************************************************************)
(* Who keeps BosowAgent running: agent processes behind the named mutex,   *)
(* one watchdog per agent, the self-update script that kills and restarts  *)
(* all of them, start-up registration, and the commands that end an agent. *)
(* Process identifiers are reused once nothing refers to them any more.    *)
(***************************************************************************)
EXTENDS Integers

CONSTANTS Proc,     \* process identifiers of agents; a watchdog is named by
                    \* the agent process it was told to monitor
          NoProc,   \* "no process" (an absent watchdog.pid, no child)
          Faults    \* the faults of the environment that may happen

FaultKinds == { "kill_starting",    \* an agent killed before it has a watchdog
                "kill_watchdog",    \* a watchdog killed, or it never starts
                "power_off",        \* the PC goes down and comes back
                "manual_start",     \* the user starts the exe again
                "marker_failure",   \* the update marker cannot be written
                "script_blocked",   \* the update script never gets to run
                "replace_failure" } \* the script leaves no exe behind

\* The faults that the marker, the watchdog and the relaunch are there for.
HandledFaults == {"marker_failure", "script_blocked"}

ASSUME FaultsAssumption == Faults \subseteq FaultKinds
ASSUME NoProcAssumption == NoProc \notin Proc

VARIABLES
  proc,         \* what each agent process is doing
  wd,           \* the watchdog that monitors each agent process
  marker,       \* .update_replace_pending: absent, fresh (< 240 s) or older
  pidFile,      \* whose watchdog's PID watchdog.pid holds
  registered,   \* Run key and logon task exist
  exe,          \* the agent's exe is at its path
  bat,          \* the uninstall batch file is waiting to delete the exe
  script,       \* do_update.ps1
  scriptChild,  \* the process the script started and checks after 5 s
  logons        \* start-up entries Windows has still to start

vars == <<proc, wd, marker, pidFile, registered, exe, bat, script, scriptChild, logons>>

ProcStates == { "gone",
                "launched",      \* created, not yet at the mutex
                "refused",       \* lost the mutex, about to sys.exit(0)
                "booting",       \* owns the mutex, no watchdog yet
                "running",       \* lock screen or tray and service
                "leaving",       \* has spawned a successor, about to os._exit
                "replacing",     \* has started the script, about to os._exit
                "uninstalling" } \* has removed persistence, exits in 1.5 s

WdStates == { "none",
              "spawned",         \* created, has not written watchdog.pid
              "watching",        \* polling its agent's PID
              "waiting",         \* saw the update marker, waits for the mutex
              "delay" }          \* about to relaunch

Admitted(i) == proc[i] \in {"booting", "running", "leaving", "replacing", "uninstalling"}

\* Faulty: the mutex is created only when the agent has come up.
MutexExistsWhenUp == \E i \in Proc : Admitted(i) /\ proc[i] # "booting"

\* CreateMutexW gives the refused process a handle too, so the name outlives
\* the owner until the refused process has gone.
MutexExists == \E i \in Proc : Admitted(i) \/ proc[i] = "refused"

\* A watchdog or script that has slept 5 s or more finds no process that was
\* refused before: such a process does nothing but exit.
Settled == \A i \in Proc : proc[i] # "refused"

FreeIds == {i \in Proc : proc[i] = "gone" /\ wd[i] = "none" /\ scriptChild # i}

\* Popen / Start-Process of the exe: the states of the processes afterwards,
\* given those the caller leaves and the identifiers the new process may get.
\* Without an exe the call fails and is only logged.
Launch(left, ids) == IF exe THEN {[left EXCEPT ![j] = "launched"] : j \in ids} ELSE {left}

Init ==
  /\ \E i \in Proc : proc = [j \in Proc |-> IF j = i THEN "launched" ELSE "gone"]
  /\ wd = [i \in Proc |-> "none"]
  /\ marker = "none" /\ pidFile = NoProc /\ registered = FALSE /\ exe = TRUE
  /\ bat = FALSE /\ script = "idle" /\ scriptChild = NoProc /\ logons = 0

-----------------------------------------------------------------------------
(* The agent process: main(). *)

\* Faulty: the owner leaves the marker for later.
EnsureSingleInstanceKeepsMarker(i) ==
  /\ proc[i] = "launched"
  /\ proc' = [proc EXCEPT ![i] = IF MutexExists THEN "refused" ELSE "booting"]
  /\ UNCHANGED <<wd, marker, pidFile, registered, exe, bat, script, scriptChild, logons>>

\* The owner clears the marker of the update that started it.
EnsureSingleInstance(i) ==
  /\ proc[i] = "launched"
  /\ \/ /\ MutexExists
        /\ proc' = [proc EXCEPT ![i] = "refused"]
        /\ UNCHANGED marker
     \/ /\ ~MutexExists
        /\ proc' = [proc EXCEPT ![i] = "booting"]
        /\ marker' = "none"
  /\ UNCHANGED <<wd, pidFile, registered, exe, bat, script, scriptChild, logons>>

ExitRefused(i) ==
  /\ proc[i] = "refused"
  /\ proc' = [proc EXCEPT ![i] = "gone"]
  /\ UNCHANGED <<wd, marker, pidFile, registered, exe, bat, script, scriptChild, logons>>

\* Faulty: start-up registration is left to the installer.
BootUnregistered(i) ==
  /\ proc[i] = "booting"
  /\ proc' = [proc EXCEPT ![i] = "running"]
  /\ \/ wd' = [wd EXCEPT ![i] = "spawned"]
     \/ "kill_watchdog" \in Faults /\ UNCHANGED wd
  /\ UNCHANGED <<marker, pidFile, registered, exe, bat, script, scriptChild, logons>>

Boot(i) ==
  /\ proc[i] = "booting"
  /\ proc' = [proc EXCEPT ![i] = "running"]
  /\ registered' = TRUE
  /\ \/ wd' = [wd EXCEPT ![i] = "spawned"]
     \/ "kill_watchdog" \in Faults /\ UNCHANGED wd
  /\ UNCHANGED <<marker, pidFile, exe, bat, script, scriptChild, logons>>

\* An agent that ends without arranging for anything: force_logout, the tray's
\* exit with a PIN, an exception out of main, Task Manager.
Terminate(i) ==
  /\ proc[i] # "gone" /\ proc[i] # "refused"
  /\ proc[i] \in {"launched", "booting"} => "kill_starting" \in Faults
  /\ proc' = [proc EXCEPT ![i] = "gone"]
  /\ UNCHANGED <<wd, marker, pidFile, registered, exe, bat, script, scriptChild, logons>>

\* force_lock and force_reauth: the successor is spawned first.
OnForceLock(i) ==
  /\ proc[i] = "running"
  /\ FreeIds # {}
  /\ proc' \in Launch([proc EXCEPT ![i] = "leaving"], FreeIds)
  /\ UNCHANGED <<wd, marker, pidFile, registered, exe, bat, script, scriptChild, logons>>

\* A script still checking its child gives way to the one started now; before
\* that it is done in seconds, while a second update takes a download.
ApplyUpdate(i) ==
  /\ proc[i] = "running"
  /\ script \in {"idle", "checking"}
  /\ proc' = [proc EXCEPT ![i] = "replacing"]
  /\ script' = "started" /\ scriptChild' = NoProc
  /\ UNCHANGED <<wd, marker, pidFile, registered, exe, bat, logons>>

MarkUpdate(i) ==
  /\ proc[i] = "replacing"
  /\ proc' = [proc EXCEPT ![i] = "gone"]
  /\ \/ marker' = "fresh"
     \/ "marker_failure" \in Faults /\ UNCHANGED marker
  /\ UNCHANGED <<wd, pidFile, registered, exe, bat, script, scriptChild, logons>>

UninstallAgent(i) ==
  /\ proc[i] = "running"
  /\ proc' = [proc EXCEPT ![i] = "uninstalling"]
  /\ registered' = FALSE
  /\ UNCHANGED <<wd, marker, pidFile, exe, bat, script, scriptChild, logons>>

\* os._exit, for an uninstall after the batch file has been started.
Leave(i) ==
  /\ proc[i] \in {"leaving", "uninstalling"}
  /\ proc' = [proc EXCEPT ![i] = "gone"]
  /\ bat' = (bat \/ proc[i] = "uninstalling")
  /\ UNCHANGED <<wd, marker, pidFile, registered, exe, script, scriptChild, logons>>

\* del fails while any process, watchdogs included, runs from the exe.
RunBat ==
  /\ bat /\ bat' = FALSE
  /\ exe' = (exe /\ \E i \in Proc : proc[i] # "gone" \/ wd[i] # "none")
  /\ marker' = "none" /\ pidFile' = NoProc
  /\ UNCHANGED <<proc, wd, registered, script, scriptChild, logons>>

-----------------------------------------------------------------------------
(* The watchdog: run_watchdog(). restart_count is 0 whenever the loop tests  *)
(* it, for the loop ends with the first relaunch: giving up is no action.    *)

StartWatchdog(i) ==
  /\ wd[i] = "spawned"
  /\ wd' = [wd EXCEPT ![i] = "watching"]
  /\ pidFile' = i
  /\ UNCHANGED <<proc, marker, registered, exe, bat, script, scriptChild, logons>>

Poll(i) ==
  /\ wd[i] = "watching" /\ proc[i] = "gone"
  /\ wd' = [wd EXCEPT ![i] = IF marker = "fresh" THEN "waiting" ELSE "delay"]
  /\ UNCHANGED <<proc, marker, pidFile, registered, exe, bat, script, scriptChild, logons>>

\* Faulty: after 180 s without a replacement the watchdog just leaves.
UpdateWaitLeaves(i) ==
  /\ wd[i] = "waiting" /\ Settled
  /\ marker' = "none" /\ pidFile' = NoProc
  /\ wd' = [wd EXCEPT ![i] = "none"]
  /\ UNCHANGED <<proc, registered, exe, bat, script, scriptChild, logons>>

\* Every 5 s: a mutex means a replacement runs; after 180 s relaunch instead.
UpdateWait(i) ==
  /\ wd[i] = "waiting" /\ Settled
  /\ marker' = "none"
  /\ \/ /\ MutexExists
        /\ wd' = [wd EXCEPT ![i] = "none"]
        /\ pidFile' = NoProc
     \/ /\ ~MutexExists
        /\ wd' = [wd EXCEPT ![i] = "delay"]
        /\ UNCHANGED pidFile
  /\ UNCHANGED <<proc, registered, exe, bat, script, scriptChild, logons>>

\* Faulty: no delay, so a refused process may still hold the mutex.
RelaunchAgentAtOnce(i) ==
  /\ wd[i] = "delay"
  /\ wd' = [wd EXCEPT ![i] = "none"]
  /\ FreeIds \cup ({i} \ {scriptChild}) # {}
  /\ proc' \in Launch(proc, FreeIds \cup ({i} \ {scriptChild}))
  /\ pidFile' = NoProc
  /\ UNCHANGED <<marker, registered, exe, bat, script, scriptChild, logons>>

\* The identifier of the watchdog's dead agent is free as soon as it leaves.
RelaunchAgent(i) ==
  /\ wd[i] = "delay" /\ Settled
  /\ wd' = [wd EXCEPT ![i] = "none"]
  /\ FreeIds \cup ({i} \ {scriptChild}) # {}
  /\ proc' \in Launch(proc, FreeIds \cup ({i} \ {scriptChild}))
  /\ pidFile' = NoProc
  /\ UNCHANGED <<marker, registered, exe, bat, script, scriptChild, logons>>

-----------------------------------------------------------------------------
(* do_update.ps1 *)

ScriptBlocked ==
  /\ "script_blocked" \in Faults
  /\ script = "started" /\ script' = "idle"
  /\ UNCHANGED <<proc, wd, marker, pidFile, registered, exe, bat, scriptChild, logons>>

\* Faulty: the script kills the agent by its PID, and no watchdog.
ScriptKillAgent ==
  /\ script = "started" /\ script' = "killed"
  /\ proc' = [i \in Proc |-> "gone"]
  /\ UNCHANGED <<wd, marker, pidFile, registered, exe, bat, scriptChild, logons>>

\* Stop-Process for every process of that name, the watchdogs included.
ScriptKill ==
  /\ script = "started" /\ script' = "killed"
  /\ proc' = [i \in Proc |-> "gone"]
  /\ wd' = [i \in Proc |-> "none"]
  /\ UNCHANGED <<marker, pidFile, registered, exe, bat, scriptChild, logons>>

ScriptRename ==
  /\ script = "killed" /\ script' = "copying"
  /\ exe' = FALSE
  /\ UNCHANGED <<proc, wd, marker, pidFile, registered, bat, scriptChild, logons>>

\* Faulty: Start-Process without -PassThru.
ScriptStartForgetsChild ==
  /\ script = "copying" /\ exe' = TRUE
  /\ \E j \in FreeIds : proc' = [proc EXCEPT ![j] = "launched"]
  /\ script' = "checking"
  /\ UNCHANGED <<wd, marker, pidFile, registered, bat, scriptChild, logons>>

\* The exe is back, the new one or the old: start it; only the new one is
\* checked again 5 s later.
ScriptStart ==
  /\ script = "copying" /\ exe' = TRUE
  /\ \E j \in FreeIds :
       /\ proc' = [proc EXCEPT ![j] = "launched"]
       /\ \/ script' = "checking" /\ scriptChild' = j
          \/ script' = "idle" /\ UNCHANGED scriptChild
  /\ UNCHANGED <<wd, marker, pidFile, registered, bat, logons>>

ScriptFail ==
  /\ "replace_failure" \in Faults
  /\ script = "copying" /\ script' = "idle"
  /\ UNCHANGED <<proc, wd, marker, pidFile, registered, exe, bat, scriptChild, logons>>

ScriptCheck ==
  /\ script = "checking" /\ script' = "idle" /\ Settled
  /\ scriptChild' = NoProc
  /\ IF proc[scriptChild] = "gone"
     THEN /\ FreeIds # {}
          /\ proc' \in Launch(proc, FreeIds)
     ELSE UNCHANGED proc
  /\ UNCHANGED <<wd, marker, pidFile, registered, exe, bat, logons>>

-----------------------------------------------------------------------------
(* The environment *)

\* The Run key and the ONLOGON task both start the agent at the next logon.
PowerCycle ==
  /\ "power_off" \in Faults
  /\ proc' = [i \in Proc |-> "gone"]
  /\ wd' = [i \in Proc |-> "none"]
  /\ bat' = FALSE /\ script' = "idle" /\ scriptChild' = NoProc
  /\ logons' = IF registered THEN 2 ELSE 0
  /\ UNCHANGED <<marker, pidFile, registered, exe>>

Logon ==
  /\ logons > 0 /\ logons' = logons - 1
  /\ FreeIds # {}
  /\ proc' \in Launch(proc, FreeIds)
  /\ UNCHANGED <<wd, marker, pidFile, registered, exe, bat, script, scriptChild>>

StartByUser ==
  /\ "manual_start" \in Faults /\ exe
  /\ proc' \in Launch(proc, FreeIds)
  /\ UNCHANGED <<wd, marker, pidFile, registered, exe, bat, script, scriptChild, logons>>

KillWatchdog(i) ==
  /\ "kill_watchdog" \in Faults /\ wd[i] # "none"
  /\ wd' = [wd EXCEPT ![i] = "none"]
  /\ UNCHANGED <<proc, marker, pidFile, registered, exe, bat, script, scriptChild, logons>>

\* 240 s are longer than a watchdog's 15 s poll.
MarkerAges ==
  /\ marker = "fresh" /\ marker' = "stale"
  /\ \A i \in Proc : wd[i] = "watching" => proc[i] # "gone"
  /\ UNCHANGED <<proc, wd, pidFile, registered, exe, bat, script, scriptChild, logons>>

-----------------------------------------------------------------------------
AgentStep(i) == EnsureSingleInstance(i) \/ ExitRefused(i) \/ Boot(i) \/ MarkUpdate(i) \/ Leave(i)
WatchdogStep(i) == StartWatchdog(i) \/ Poll(i) \/ UpdateWait(i) \/ RelaunchAgent(i)
ScriptStep == ScriptKill \/ ScriptRename \/ ScriptStart \/ ScriptCheck
Command(i) == OnForceLock(i) \/ ApplyUpdate(i) \/ UninstallAgent(i)

Next ==
  \/ \E i \in Proc : AgentStep(i) \/ Command(i) \/ Terminate(i)
  \/ \E i \in Proc : WatchdogStep(i) \/ KillWatchdog(i)
  \/ ScriptStep \/ ScriptBlocked \/ ScriptFail \/ RunBat
  \/ PowerCycle \/ Logon \/ StartByUser \/ MarkerAges

Spec == Init /\ [][Next]_vars

\* The operating system runs processes that are able to step; nobody owes a
\* command, a kill, a logon or a fault.
FairSpec ==
  /\ Spec
  /\ \A i \in Proc : WF_vars(AgentStep(i)) /\ WF_vars(WatchdogStep(i))
  /\ WF_vars(ScriptStep) /\ WF_vars(RunBat)

-----------------------------------------------------------------------------
\* Type invariant.
TypeOK ==
  /\ proc \in [Proc -> ProcStates]
  /\ wd \in [Proc -> WdStates]
  /\ marker \in {"none", "fresh", "stale"}
  /\ pidFile \in Proc \cup {NoProc}
  /\ registered \in BOOLEAN /\ exe \in BOOLEAN /\ bat \in BOOLEAN
  /\ script \in {"idle", "started", "killed", "copying", "checking"}
  /\ scriptChild \in Proc \cup {NoProc}
  /\ script = "checking" => scriptChild \in Proc
  /\ logons \in 0 .. 2

\* main.py:14 - however many watchdogs, scripts, logons, users and dying
\* predecessors start the exe, at most one process gets past the mutex.
SingleInstance == \A i, j \in Proc : Admitted(i) /\ Admitted(j) => i = j

\* main.py:107 - an agent that has come up will be started at the next logon,
\* whichever earlier instance was uninstalled, unless it is itself being removed.
RunningIsRegistered ==
  \A i \in Proc : proc[i] \in {"running", "leaving", "replacing"} => registered

\* watchdog.py:1, relaunch.py:14 - as long as no fault takes a watchdog or a
\* starting agent away, there is always a process left that will bring the
\* agent back: one at or before the mutex, a watchdog, or, once it has killed
\* those, the script.
ChainUnbroken ==
  \/ \E i \in Proc : proc[i] \in {"launched", "booting"} \/ wd[i] # "none"
  \/ script \in {"killed", "copying"}

\* The strengthening of ChainUnbroken and ReplaceUndisturbed that is inductive
\* under the handled faults: an agent that is up has its watchdog; the mutex
\* name outlives its owner only beside a watchdog or a booting agent; only the
\* script takes the exe away.
UpAgentsWatched ==
  \A i \in Proc : Admitted(i) /\ proc[i] # "booting" => wd[i] \in {"spawned", "watching"}
MutexSupervised == MutexExists => \E i \in Proc : proc[i] = "booting" \/ wd[i] # "none"
ExeOnlyReplaced == ~exe => script \in {"killed", "copying"}

\* update_exit_marker.py:1 - while the script replaces the exe nothing runs
\* from it, so no watchdog restarts the old one and the copy meets no lock.
ReplaceUndisturbed ==
  script \in {"killed", "copying"} => \A i \in Proc : proc[i] = "gone" /\ wd[i] = "none"

ChainInv ==
  /\ ChainUnbroken /\ ReplaceUndisturbed
  /\ UpAgentsWatched /\ MutexSupervised /\ ExeOnlyReplaced /\ logons = 0

\* watchdog.py:6 - the agent always comes back up, whatever commands, kills
\* and updates it goes through.
AgentReturns == []<>(\E i \in Proc : proc[i] = "running")

\* update_exit_marker.py:30 - an update's marker never outlives the update: the
\* replacement or the waiting watchdog removes it.
MarkerCleared == marker # "none" ~> marker = "none"

\* system_control.py:85 - "exit and delete frozen exe": the batch file started
\* by an uninstall leaves no exe behind.
UninstallDeletesExe == [][bat /\ ~bat' => ~exe']_vars
=============================================================================
