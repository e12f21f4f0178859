------------------------------ MODULE MCCrashLoop ------------------------------
(***************************************************************************)
(* Supervision with a count of the watchdogs' relaunches since the agent   *)
(* last stayed up for RESTART_WINDOW_SECS, the number that                 *)
(* MAX_RESTART_ATTEMPTS is meant to bound.                                 *)
(***************************************************************************)
EXTENDS Supervision

CONSTANT MaxRestartAttempts   \* MAX_RESTART_ATTEMPTS, 10 in watchdog.py:24

VARIABLE relaunches

\* 300 s without an exit.
StableRun ==
  /\ \E i \in Proc : proc[i] = "running"
  /\ relaunches' = 0
  /\ UNCHANGED vars

CountedNext ==
  \/ StableRun
  \/ /\ relaunches <= MaxRestartAttempts      \* bound of the instance
     /\ Next
     /\ relaunches' = relaunches + (IF \E i \in Proc : RelaunchAgent(i) THEN 1 ELSE 0)

CountedSpec == Init /\ relaunches = 0 /\ [][CountedNext]_<<vars, relaunches>>

\* watchdog.py:24 - "guard against crash-loop": without a stable run in between
\* the watchdogs relaunch the agent at most MAX_RESTART_ATTEMPTS times.
CrashLoopGuard == relaunches <= MaxRestartAttempts
=============================================================================
