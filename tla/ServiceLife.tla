----------------------------- MODULE ServiceLife -----------------------------
(***************************************************************************)
(* The agent process from the log-in to its end: the main thread starts    *)
(* the tray, runs AgentService in an event loop and takes both down again; *)
(* the tray's Qt thread, where the user asks for the exit; the worker      *)
(* threads that asyncio.run waits for; and uptime.py's hooks, which report *)
(* the power-off when Windows shuts down or the interpreter ends.          *)
(***************************************************************************)
EXTENDS Naturals

VARIABLES
  main,           \* the main thread's next step
  tray,           \* the Qt thread: none, up, or armed with the exit's timer
  running,        \* AgentService._running
  stopRequested,  \* _stop_event
  worker,         \* a call of asyncio.to_thread is under way
  hook,           \* the console handler: none, ready, or posting the power-off
  \* History, which no action reads:
  exitAsked,      \* the user has confirmed the exit of this process
  powerOffs       \* power-offs this process has posted

lifeVars == <<main, tray, running, stopRequested, worker, hook, exitAsked, powerOffs>>

LifeInit ==
  /\ main = "tray" /\ tray = "none" /\ running = FALSE /\ stopRequested = FALSE
  /\ worker = FALSE /\ hook = "none" /\ exitAsked = FALSE /\ powerOffs = 0

\* The event loop and its stop event exist.
LoopOpen == main \in {"starting", "serving", "stopping"}

\* All threads end together; nobody reports anything.
Gone ==
  /\ main' = "gone" /\ tray' = "none" /\ running' = FALSE /\ stopRequested' = FALSE
  /\ worker' = FALSE /\ hook' = "none"
  /\ UNCHANGED exitAsked

-----------------------------------------------------------------------------
(* The main thread. *)

\* _start_tray: what it raises is logged, and the agent goes on without.
StartTray ==
  /\ main = "tray" /\ main' = "loop" /\ tray' \in {"none", "up"}
  /\ UNCHANGED <<running, stopRequested, worker, hook, exitAsked, powerOffs>>

\* asyncio.run, and start() with register_shutdown_hooks, which has no console
\* handler without pywin32.
StartLoop ==
  /\ main = "loop" /\ main' = "starting" /\ running' = TRUE /\ hook' \in {"none", "ready"}
  /\ UNCHANGED <<tray, stopRequested, worker, exitAsked, powerOffs>>

\* Hardware and power-on are posted, in the event loop itself, and the tasks are
\* created; or something raises, and the service is stopped.
Started ==
  /\ main = "starting" /\ main' \in {"serving", "stopping"}
  /\ running' = (main' = "serving")
  /\ UNCHANGED <<tray, stopRequested, worker, hook, exitAsked, powerOffs>>

\* stop() begins by setting _running to False.
StopBegins ==
  /\ main = "serving" /\ stopRequested /\ main' = "stopping" /\ running' = FALSE
  /\ UNCHANGED <<tray, stopRequested, worker, hook, exitAsked, powerOffs>>

\* _tray.stop() quits Qt's event loop, and with it the exit's timer.
StopTray == tray' = "none"

\* The audit buffer is flushed, tasks are cancelled, the socket disconnects, and
\* _run's finally stops the tray.
StopEnds ==
  /\ main = "stopping" /\ main' = "draining" /\ StopTray
  /\ UNCHANGED <<running, stopRequested, worker, hook, exitAsked, powerOffs>>

\* Whether the request arrives or not.
SendPowerOff == powerOffs' = powerOffs + 1

\* _safe_power_off with the getter that AgentService has registered.
SafePowerOff == IF running THEN SendPowerOff ELSE UNCHANGED powerOffs

\* asyncio.run returns when no worker is left; atexit calls the hook.
InterpreterEnds ==
  /\ main = "draining" /\ ~worker /\ SafePowerOff /\ Gone

\* Tasks call to_thread; a worker outlives the task that is cancelled.
WorkerStarts ==
  /\ main = "serving" /\ ~worker /\ worker' = TRUE
  /\ UNCHANGED <<main, tray, running, stopRequested, hook, exitAsked, powerOffs>>

WorkerEnds ==
  /\ worker /\ worker' = FALSE
  /\ UNCHANGED <<main, tray, running, stopRequested, hook, exitAsked, powerOffs>>

-----------------------------------------------------------------------------
(* The user's exit, and Windows. *)

\* request_stop does nothing while there is no event loop.
RequestStop == stopRequested' = (stopRequested \/ LoopOpen)

\* Faulty: the process is left to request_stop.
ExitWithoutTimer ==
  /\ tray = "up" /\ RequestStop /\ exitAsked' = TRUE
  /\ UNCHANGED <<main, tray, running, worker, hook, powerOffs>>

\* _exit_agent, once the PIN and the question are answered.
ExitAgent ==
  /\ tray = "up" /\ RequestStop /\ exitAsked' = TRUE /\ tray' = "armed"
  /\ UNCHANGED <<main, running, worker, hook, powerOffs>>

\* os._exit, 3.5 s later.
TimerExits == tray = "armed" /\ Gone /\ UNCHANGED powerOffs

\* CTRL_SHUTDOWN_EVENT or CTRL_CLOSE_EVENT, in a thread of its own.
ShutdownEvent ==
  /\ hook = "ready" /\ hook' = "posting" /\ SafePowerOff
  /\ UNCHANGED <<main, tray, running, stopRequested, worker, exitAsked>>

\* The handler has returned 1, or its time is up.
WindowsEnds == hook = "posting" /\ Gone /\ UNCHANGED powerOffs

\* Killed, or os._exit by a command of the portal.
EndsAtOnce == main # "gone" /\ Gone /\ UNCHANGED powerOffs

\* A new process, up to its log-in.
NextProcess ==
  /\ main = "gone" /\ main' = "tray" /\ exitAsked' = FALSE /\ powerOffs' = 0
  /\ UNCHANGED <<tray, running, stopRequested, worker, hook>>

MainGoesOn == StartTray \/ StartLoop \/ Started \/ StopBegins \/ StopEnds \/ InterpreterEnds

LifeNext ==
  \/ MainGoesOn \/ WorkerStarts \/ WorkerEnds
  \/ ExitAgent \/ TimerExits \/ ShutdownEvent \/ WindowsEnds \/ EndsAtOnce \/ NextProcess

\* The main thread runs on, its requests have time limits, so have the workers'
\* calls, and Qt fires its timers as long as its event loop runs.
LifeFairness ==
  /\ WF_lifeVars(MainGoesOn) /\ WF_lifeVars(WorkerEnds) /\ WF_lifeVars(TimerExits)

LifeSpec == LifeInit /\ [][LifeNext]_lifeVars /\ LifeFairness

-----------------------------------------------------------------------------
(* Properties. *)

\* With it, a process posts at most one power-off: stop() takes the token away
\* from the hook that the interpreter's end calls (agent_service.py:50).
LifeTypeOK ==
  /\ main \in {"tray", "loop", "starting", "serving", "stopping", "draining", "gone"}
  /\ tray \in {"none", "up", "armed"} /\ hook \in {"none", "ready", "posting"}
  /\ running \in BOOLEAN /\ stopRequested \in BOOLEAN /\ worker \in BOOLEAN
  /\ exitAsked \in BOOLEAN /\ powerOffs \in 0 .. 1
  /\ running = (main \in {"starting", "serving"})

\* An exit that the user has confirmed with the PIN ends the process
\* (tray_app.py:1950-1955), whether it comes before the service has its event
\* loop, in the middle of its start, or while the service stops and takes the
\* exit's own timer with the tray.
ExitCompletes == exitAsked ~> main = "gone"
=============================================================================
