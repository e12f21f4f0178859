----------------------------- MODULE UpdatePipeline -----------------------------
(***************************************************************************)
(* Self-update from the portal's release to the exe on disk: UPDATE_AGENT  *)
(* tasks that stream the release into update/BosowAgent_new.exe, and the   *)
(* script that puts that file in place of the exe.  A file is the sequence *)
(* of its chunks, each the version it belongs to; a stretch never written  *)
(* (a hole) is 0.                                                          *)
(***************************************************************************)
EXTENDS Integers, Sequences

CONSTANTS Task,         \* download tasks: UPDATE_AGENT commands, the silent poll
          MaxVersion,   \* bound: the releases are 1 .. MaxVersion
          Chunks,       \* length of an exe
          MaxAttempts,  \* strategy 2's attempts, 8 in the script
          Faults,
          Absent        \* the content of a file that does not exist

FaultKinds == { "network",         \* a download breaks off
                "locked",          \* the exe cannot be renamed
                "copy_fails",      \* Copy-Item throws, the target untouched
                "short_copy",      \* Copy-Item succeeds with a shorter file
                "rollback_fails",  \* .old cannot be renamed back
                "power_loss" }

ASSUME BoundsAssumption ==
  MaxVersion \in Nat \ {0} /\ Chunks \in Nat \ {0} /\ MaxAttempts \in Nat \ {0}
ASSUME FaultsAssumption == Faults \subseteq FaultKinds

VARIABLES
  released,    \* the version of the exe under the download URL
  advertised,  \* the version /agent/version answers
  version,     \* AGENT_VERSION of the agent that runs, or ran last
  up,          \* the agent runs
  phase,       \* of each task
  stream,      \* the version each task is streaming
  pos,         \* the chunks each task has written
  src,         \* update/BosowAgent_new.exe
  dst,         \* the exe
  backup,      \* the exe's .old
  script,      \* what do_update.ps1 does next
  attempt,     \* strategy 2's attempts so far
  damaged      \* a fault no strategy makes good has hit the installation

server == <<released, advertised>>
agent  == <<version, up>>
tasks  == <<phase, stream, pos>>
files  == <<dst, backup>>
vars   == <<server, agent, tasks, src, files, script, attempt, damaged>>

Whole(file) == \E v \in 1 .. MaxVersion : file = [c \in 1 .. Chunks |-> v]

ASSUME AbsentAssumption == ~Whole(Absent)

Size(file) == IF file = Absent THEN 0 ELSE Len(file)

Init ==
  /\ released = 1 /\ advertised = 1 /\ version = 1 /\ up = TRUE
  /\ phase = [t \in Task |-> "idle"] /\ stream = [t \in Task |-> 0] /\ pos = [t \in Task |-> 0]
  /\ src = Absent /\ dst = [c \in 1 .. Chunks |-> 1] /\ backup = Absent
  /\ script = "idle" /\ attempt = 0 /\ damaged = FALSE

-----------------------------------------------------------------------------
(* The portal: the exe is uploaded before its version is advertised. *)

Publish ==
  /\ released < MaxVersion /\ released' = released + 1
  /\ UNCHANGED <<advertised, agent, tasks, src, files, script, attempt, damaged>>

Advertise ==
  /\ advertised < released /\ advertised' = released
  /\ UNCHANGED <<released, agent, tasks, src, files, script, attempt, damaged>>

-----------------------------------------------------------------------------
(* A download task; every task of a process writes the same file. *)

\* Faulty: the running version counts as an update.
CheckNotOlder(t) ==
  /\ up /\ phase[t] = "idle" /\ advertised >= version
  /\ phase' = [phase EXCEPT ![t] = "checked"]
  /\ UNCHANGED <<server, agent, stream, pos, src, files, script, attempt, damaged>>

Check(t) ==
  /\ up /\ phase[t] = "idle" /\ advertised > version
  /\ phase' = [phase EXCEPT ![t] = "checked"]
  /\ UNCHANGED <<server, agent, stream, pos, src, files, script, attempt, damaged>>

\* requests.get, then open(target, 'wb') truncates whatever is there.
Open(t) ==
  /\ phase[t] = "checked"
  /\ phase' = [phase EXCEPT ![t] = "writing"]
  /\ stream' = [stream EXCEPT ![t] = released]
  /\ pos' = [pos EXCEPT ![t] = 0]
  /\ src' = <<>>
  /\ UNCHANGED <<server, agent, files, script, attempt, damaged>>

\* At the task's own position: a file another task truncated gets a hole.
WriteChunk(t) ==
  /\ phase[t] = "writing" /\ pos[t] < Chunks
  /\ pos' = [pos EXCEPT ![t] = @ + 1]
  /\ src' = [c \in 1 .. (IF pos[t] < Len(src) THEN Len(src) ELSE pos[t] + 1) |->
               IF c = pos[t] + 1 THEN stream[t]
               ELSE IF c <= Len(src) THEN src[c] ELSE 0]
  /\ UNCHANGED <<server, agent, phase, stream, files, script, attempt, damaged>>

FailDownload(t) ==
  /\ "network" \in Faults /\ phase[t] = "writing"
  /\ phase' = [phase EXCEPT ![t] = "idle"]
  /\ UNCHANGED <<server, agent, stream, pos, src, files, script, attempt, damaged>>

\* Faulty: a stream that ends early passes for a complete one.
ApplyUpdateEarly(t) ==
  /\ phase[t] = "writing"
  /\ phase' = [u \in Task |-> "idle"]
  /\ up' = FALSE /\ script' = "rename"
  /\ UNCHANGED <<server, version, stream, pos, src, files, attempt, damaged>>

\* The exit ends every task of the process.
ApplyUpdate(t) ==
  /\ phase[t] = "writing" /\ pos[t] = Chunks
  /\ phase' = [u \in Task |-> "idle"]
  /\ up' = FALSE /\ script' = "rename"
  /\ UNCHANGED <<server, version, stream, pos, src, files, attempt, damaged>>

\* The agent ends for another reason, and its watchdog or a logon starts the
\* exe again.
Exit ==
  /\ up /\ up' = FALSE
  /\ phase' = [t \in Task |-> "idle"]
  /\ UNCHANGED <<server, version, stream, pos, src, files, script, attempt, damaged>>

\* Starting an exe: one that is not whole does not come up.
StartsFrom(file) ==
  /\ up' = Whole(file)
  /\ version' = IF Whole(file) THEN file[1] ELSE version

Restart ==
  /\ ~up /\ script = "idle" /\ Whole(dst)
  /\ StartsFrom(dst)
  /\ UNCHANGED <<server, tasks, src, files, script, attempt, damaged>>

-----------------------------------------------------------------------------
(* do_update.ps1 *)

Prefixes(file) == {SubSeq(file, 1, n) : n \in 0 .. Len(file)}

\* What Copy-Item may leave when it reports success.
Copies == {src} \cup IF "short_copy" \in Faults THEN Prefixes(src) ELSE {}

\* Strategy 1; if the exe cannot be renamed it is still there: no rollback.
Rename ==
  /\ script = "rename" /\ attempt' = 0
  /\ \/ script' = "copy" /\ backup' = dst /\ dst' = Absent
     \/ "locked" \in Faults /\ script' = "overwrite" /\ backup' = Absent /\ UNCHANGED dst
  /\ UNCHANGED <<server, agent, tasks, src, damaged>>

Copy ==
  /\ script = "copy" /\ script' = "verify"
  /\ dst' \in Copies
  /\ damaged' = (damaged \/ dst' # src)
  /\ UNCHANGED <<server, agent, tasks, src, backup, attempt>>

\* Faulty: .old is cleaned up before it is needed.
RollbackWithoutOld ==
  /\ script = "copy" /\ "copy_fails" \in Faults
  /\ script' = "overwrite"
  /\ backup' = Absent /\ UNCHANGED dst
  /\ UNCHANGED <<server, agent, tasks, src, attempt, damaged>>

Rollback ==
  /\ script = "copy" /\ "copy_fails" \in Faults
  /\ script' = "overwrite"
  /\ \/ dst' = backup /\ backup' = Absent /\ UNCHANGED damaged
     \/ "rollback_fails" \in Faults /\ damaged' = TRUE /\ UNCHANGED files
  /\ UNCHANGED <<server, agent, tasks, src, attempt>>

\* Faulty: one attempt too many.
OverwriteOnceMore ==
  /\ script = "overwrite" /\ attempt <= MaxAttempts /\ attempt' = attempt + 1
  /\ \/ /\ script' = "verify" /\ dst' \in Copies
        /\ damaged' = (damaged \/ dst' # src)
     \/ /\ "copy_fails" \in Faults
        /\ UNCHANGED <<script, dst, damaged>>
  /\ UNCHANGED <<server, agent, tasks, src, backup>>

\* Strategy 2.
Overwrite ==
  /\ script = "overwrite" /\ attempt < MaxAttempts /\ attempt' = attempt + 1
  /\ \/ /\ script' = "verify" /\ dst' \in Copies
        /\ damaged' = (damaged \/ dst' # src)
     \/ /\ "copy_fails" \in Faults
        /\ UNCHANGED <<script, dst, damaged>>
  /\ UNCHANGED <<server, agent, tasks, src, backup>>

\* Faulty: the script waits for an attempt that Overwrite no longer makes.
GiveUpLater ==
  /\ script = "overwrite" /\ attempt > MaxAttempts
  /\ script' = "existing"
  /\ UNCHANGED <<server, agent, tasks, src, files, attempt, damaged>>

GiveUp ==
  /\ script = "overwrite" /\ attempt = MaxAttempts
  /\ script' = "existing"
  /\ UNCHANGED <<server, agent, tasks, src, files, attempt, damaged>>

\* A size of 0 or a missing file passes.
Verify ==
  /\ script = "verify"
  /\ script' = IF Size(src) # 0 /\ Size(dst) # 0 /\ Size(src) # Size(dst)
               THEN "existing" ELSE "launch"
  /\ UNCHANGED <<server, agent, tasks, src, files, attempt, damaged>>

LaunchNew ==
  /\ script = "launch" /\ script' = "idle"
  /\ StartsFrom(dst)
  /\ UNCHANGED <<server, tasks, src, files, attempt, damaged>>

\* "All copy strategies failed": start the exe if there is one, else .old.
LaunchExisting ==
  /\ script = "existing" /\ script' = "idle"
  /\ \/ dst # Absent /\ UNCHANGED files
     \/ dst = Absent /\ dst' = backup /\ backup' = Absent
     \/ dst = Absent /\ "rollback_fails" \in Faults /\ UNCHANGED files
  /\ StartsFrom(dst')
  /\ UNCHANGED <<server, tasks, src, attempt, damaged>>

\* A copy that was under way leaves any prefix.
PowerLoss ==
  /\ "power_loss" \in Faults
  /\ up' = FALSE /\ script' = "idle"
  /\ phase' = [t \in Task |-> "idle"]
  /\ dst' \in {dst} \cup IF script \in {"copy", "overwrite"} THEN Prefixes(src) ELSE {}
  /\ damaged' = (damaged \/ script # "idle")
  /\ UNCHANGED <<server, version, stream, pos, src, backup, attempt>>

-----------------------------------------------------------------------------
ScriptStep == \/ Rename \/ Copy \/ Rollback \/ Overwrite \/ GiveUp
              \/ Verify \/ LaunchNew \/ LaunchExisting

Next ==
  \/ Publish \/ Advertise
  \/ \E t \in Task : Check(t) \/ Open(t) \/ WriteChunk(t) \/ FailDownload(t) \/ ApplyUpdate(t)
  \/ Exit \/ Restart \/ ScriptStep \/ PowerLoss

Spec == Init /\ [][Next]_vars

\* The script runs to its end and the watchdog restarts an agent (Supervision).
FairSpec == Spec /\ WF_vars(ScriptStep) /\ WF_vars(Restart)

-----------------------------------------------------------------------------
Versions == 0 .. MaxVersion
Contents == UNION {[1 .. n -> Versions] : n \in 0 .. Chunks}
Files == {Absent} \cup Contents

\* Type invariant.
TypeOK ==
  /\ released \in Versions /\ advertised \in Versions /\ version \in Versions
  /\ up \in BOOLEAN /\ damaged \in BOOLEAN
  /\ phase \in [Task -> {"idle", "checked", "writing"}]
  /\ stream \in [Task -> Versions] /\ pos \in [Task -> 0 .. Chunks]
  /\ src \in Files /\ dst \in Files /\ backup \in Files
  /\ script \in {"idle", "rename", "copy", "overwrite", "verify", "launch", "existing"}
  /\ attempt \in 0 .. MaxAttempts

\* auto_update.py:72 - what the script installs is a complete release: a
\* download that breaks off is never handed to it.
SourceWhole == script # "idle" => Whole(src)

\* auto_update.py:140 - through locked exes, failed copies, rollbacks and
\* retries, an update leaves a complete exe at the exe's path.
InstalledWhole == script = "idle" /\ ~damaged => Whole(dst)

\* update_exit_marker.py:5 - no download/replace loop: the script is never
\* started to install the version that already runs, whenever the portal
\* publishes between the check and the download.
NoUpdateLoop ==
  [][script = "idle" /\ script' = "rename" /\ Whole(src) => src[1] > version]_vars

\* auto_update.py:182 - an agent that gave way to the script comes back.
BackOnline == script # "idle" /\ ~damaged ~> up \/ damaged

\* auto_update.py:200 - "relaunching existing binary": when the update is given
\* up the agent runs again.
ExistingBinaryRuns == [][script = "existing" /\ script' = "idle" => up']_vars
=============================================================================
