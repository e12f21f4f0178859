------------------------------ MODULE UpdateProofs ------------------------------
(***************************************************************************)
(* Proofs about UpdatePipeline for any number of releases, chunks and      *)
(* attempts and any faults: the types of its variables, whatever the tasks *)
(* do to one another's file and, with one download task at a time, that    *)
(* what the script installs is whole, and so is what it leaves.            *)
(***************************************************************************)
EXTENDS UpdatePipeline, TLAPS

OneTask == \A t, u \in Task : t = u

\* The types the argument needs.
Typed ==
  /\ released \in 1 .. MaxVersion /\ advertised \in 0 .. released /\ version \in Nat
  /\ phase \in [Task -> {"idle", "checked", "writing"}]
  /\ stream \in [Task -> Int] /\ pos \in [Task -> 0 .. Chunks]
  /\ script \in {"idle", "rename", "copy", "overwrite", "verify", "launch", "existing"}

\* Only an agent that runs downloads; the script runs without one.
Exclusive ==
  /\ ~up => \A t \in Task : phase[t] = "idle"
  /\ script # "idle" => ~up

\* A task that has checked, and one that writes, is on its way to a newer release.
Newer ==
  \A t \in Task :
    /\ phase[t] = "checked" => version < released
    /\ phase[t] = "writing" => stream[t] \in 1 .. released /\ version < stream[t]

\* What has arrived is the beginning of the release that is streamed.
Arrived ==
  \A t \in Task : phase[t] = "writing" => src = [c \in 1 .. pos[t] |-> stream[t]]

\* What the installation holds between the script's steps, if no fault that
\* nothing makes good has hit it.
Installation ==
  ~damaged =>
    /\ script \in {"idle", "rename", "overwrite", "existing"} => Whole(dst)
    /\ script = "copy" => Whole(backup)
    /\ script \in {"verify", "launch"} => dst = src

IInv == Typed /\ Exclusive /\ Newer /\ Arrived /\ SourceWhole /\ Installation

(* The initial states satisfy the invariant. *)
LEMMA InitInv == Init => IInv
<1> SUFFICES ASSUME Init PROVE IInv
  OBVIOUS
<1> USE BoundsAssumption DEF Init
<1>1. Typed
  BY DEF Typed
<1>2. Whole(dst)
  BY DEF Whole
<1>3. \A t \in Task : phase[t] = "idle"
  OBVIOUS
<1> QED BY <1>1, <1>2, <1>3 DEF IInv, Exclusive, Newer, Arrived, SourceWhole, Installation

(* The portal's releases. *)
LEMMA PortalStep == ASSUME IInv, Publish \/ Advertise PROVE IInv'
<1> USE BoundsAssumption DEF IInv, server, agent, tasks, files
<1>1. Typed' /\ released <= released'
  BY DEF Publish, Advertise, Typed
<1>2. Newer'
  BY <1>1 DEF Publish, Advertise, Newer, Typed
<1> QED BY <1>1, <1>2 DEF Publish, Advertise, Exclusive, Arrived, SourceWhole, Installation, Whole

(* A task checks the version and opens the file. *)
LEMMA OpenStep ==
  ASSUME IInv, OneTask, NEW t \in Task, Check(t) \/ Open(t)
  PROVE  IInv'
<1> USE BoundsAssumption DEF IInv, server, agent, tasks, files
<1>0. \A u \in Task : u = t
  BY DEF OneTask
<1>1. CASE Check(t)
  <2>1. Typed' /\ phase'[t] = "checked"
    BY <1>1 DEF Check, Typed
  <2>2. version < released
    BY <1>1 DEF Check, Typed
  <2>3. script = "idle"
    BY <1>1 DEF Check, Exclusive
  <2> QED BY <1>0, <1>1, <2>1, <2>2, <2>3 DEF Check, Exclusive, Newer, Arrived, SourceWhole,
            Installation, Whole
<1>2. CASE Open(t)
  <2>1. /\ phase'[t] = "writing" /\ stream'[t] = released /\ pos'[t] = 0
        /\ Typed'
    BY <1>2 DEF Open, Typed
  <2>2. released \in 1 .. released /\ version < released
    BY <1>2 DEF Open, Newer, Typed
  <2>3. up /\ script = "idle"
    BY <1>2 DEF Open, Exclusive
  <2>4. src' = [c \in 1 .. pos'[t] |-> stream'[t]]
    BY <1>2, <2>1 DEF Open
  <2>5. Newer' /\ Arrived'
    BY <1>0, <1>2, <2>1, <2>2, <2>4 DEF Open, Newer, Arrived
  <2> QED BY <1>2, <2>1, <2>3, <2>5 DEF Open, Exclusive, SourceWhole, Installation, Whole
<1> QED BY <1>1, <1>2

(* A chunk is written where the last one ended. *)
LEMMA ChunkStep ==
  ASSUME IInv, OneTask, NEW t \in Task, WriteChunk(t)
  PROVE  IInv'
<1> USE BoundsAssumption DEF IInv, server, agent, tasks, files
<1>0. \A u \in Task : u = t
  BY DEF OneTask
<1>1. /\ phase[t] = "writing" /\ pos[t] \in 0 .. Chunks - 1 /\ pos'[t] = pos[t] + 1
      /\ UNCHANGED <<phase, stream>>
  BY DEF WriteChunk, Typed
<1>2. src = [c \in 1 .. pos[t] |-> stream[t]]
  BY <1>1 DEF Arrived
<1>3. Len(src) = pos[t]
  BY <1>1, <1>2
<1>4. src' = [c \in 1 .. pos[t] + 1 |-> stream[t]]
  <2>1. src' = [c \in 1 .. pos[t] + 1 |-> IF c = pos[t] + 1 THEN stream[t]
                                          ELSE IF c <= pos[t] THEN src[c] ELSE 0]
    BY <1>1, <1>3 DEF WriteChunk
  <2> QED BY <1>1, <1>2, <2>1
<1>5. Typed'
  BY <1>1 DEF WriteChunk, Typed
<1>6. up /\ script = "idle"
  BY <1>1 DEF Exclusive
<1>7. Arrived' /\ Newer'
  BY <1>0, <1>1, <1>4 DEF WriteChunk, Arrived, Newer
<1> QED BY <1>5, <1>6, <1>7 DEF WriteChunk, Exclusive, SourceWhole, Installation, Whole

(* A task ends: its download breaks off, the agent gives way to the script, or *)
(* ends for another reason.                                                    *)
LEMMA EndStep ==
  ASSUME IInv, OneTask, Exit \/ \E t \in Task : FailDownload(t) \/ ApplyUpdate(t)
  PROVE  IInv'
<1> USE BoundsAssumption DEF IInv, server, agent, tasks, files
<1>1. ASSUME NEW t \in Task, FailDownload(t) PROVE IInv'
  <2>0. \A u \in Task : u = t
    BY DEF OneTask
  <2>1. Typed' /\ phase'[t] = "idle"
    BY <1>1 DEF FailDownload, Typed
  <2> QED BY <1>1, <2>0, <2>1 DEF FailDownload, Exclusive, Newer, Arrived, SourceWhole,
            Installation, Whole
<1>2. ASSUME NEW t \in Task, ApplyUpdate(t) PROVE IInv'
  <2>1. Typed' /\ \A u \in Task : phase'[u] = "idle"
    BY <1>2 DEF ApplyUpdate, Typed
  <2>2. Whole(src)
    <3>1. stream[t] \in 1 .. MaxVersion /\ src = [c \in 1 .. Chunks |-> stream[t]]
      BY <1>2 DEF ApplyUpdate, Arrived, Newer, Typed
    <3> QED BY <3>1 DEF Whole
  <2>3. script = "idle"
    BY <1>2 DEF ApplyUpdate, Exclusive
  <2> QED BY <1>2, <2>1, <2>2, <2>3 DEF ApplyUpdate, Exclusive, Newer, Arrived, SourceWhole,
            Installation, Whole
<1>3. CASE Exit
  <2>1. Typed' /\ \A u \in Task : phase'[u] = "idle"
    BY <1>3 DEF Exit, Typed
  <2> QED BY <1>3, <2>1 DEF Exit, Exclusive, Newer, Arrived, SourceWhole, Installation, Whole
<1> QED BY <1>1, <1>2, <1>3

(* What a started exe changes. *)
LEMMA StartKeeps ==
  ASSUME Typed, NEW file, StartsFrom(file)
  PROVE  version' \in Nat
<1>1. CASE Whole(file)
  <2>1. PICK v \in 1 .. MaxVersion : file = [c \in 1 .. Chunks |-> v]
    BY <1>1 DEF Whole
  <2>2. 1 \in 1 .. Chunks
    BY BoundsAssumption
  <2> QED BY <1>1, <2>1, <2>2 DEF StartsFrom
<1>2. CASE ~Whole(file)
  BY <1>2 DEF StartsFrom, Typed
<1> QED BY <1>1, <1>2

(* The exe starts, by itself or by the script. *)
LEMMA LaunchStep ==
  ASSUME IInv, Restart \/ LaunchNew \/ LaunchExisting
  PROVE  IInv'
<1> USE DEF IInv, server, agent, tasks, files
<1>1. ~up /\ \A t \in Task : phase[t] = "idle"
  BY DEF Restart, LaunchNew, LaunchExisting, Exclusive
<1>2. script' = "idle" /\ UNCHANGED <<server, tasks, src, damaged>> /\ version' \in Nat
  BY StartKeeps DEF Restart, LaunchNew, LaunchExisting
<1>3. Typed' /\ Exclusive' /\ Newer' /\ Arrived' /\ SourceWhole'
  BY <1>1, <1>2 DEF Typed, Exclusive, Newer, Arrived, SourceWhole
<1>4. Installation'
  <2> SUFFICES ASSUME ~damaged PROVE Whole(dst')
    BY <1>2 DEF Installation, Whole
  <2>1. CASE Restart
    BY <2>1 DEF Restart
  <2>2. CASE LaunchNew
    BY <2>2 DEF LaunchNew, Installation, SourceWhole
  <2>3. CASE LaunchExisting
    BY <2>3, AbsentAssumption DEF LaunchExisting, Installation
  <2> QED BY <2>1, <2>2, <2>3
<1> QED BY <1>3, <1>4

(* The script's steps before it starts an exe. *)
LEMMA ScriptInv ==
  ASSUME IInv, Rename \/ Copy \/ Rollback \/ Overwrite \/ GiveUp \/ Verify
  PROVE  IInv'
<1> USE DEF IInv, server, agent, tasks, files
<1>1. /\ script # "idle" /\ UNCHANGED <<server, agent, tasks, src>>
      /\ script' \in {"copy", "overwrite", "verify", "launch", "existing"}
  BY DEF Rename, Copy, Rollback, Overwrite, GiveUp, Verify
<1>2. Typed' /\ Exclusive' /\ Newer' /\ Arrived' /\ SourceWhole'
  BY <1>1 DEF Typed, Exclusive, Newer, Arrived, SourceWhole, Whole
<1>3. Installation'
  <2>1. CASE Rename
    BY <2>1 DEF Rename, Installation, Whole
  <2>2. CASE Copy
    BY <2>2, <1>1 DEF Copy, Installation
  <2>3. CASE Rollback
    BY <2>3 DEF Rollback, Installation, Whole
  <2>4. CASE Overwrite
    <3>1. CASE script' = "verify"
      <4>1. ~damaged' => dst' = src
        BY <2>4, <3>1 DEF Overwrite
      <4> QED BY <1>1, <3>1, <4>1 DEF Installation
    <3>2. CASE UNCHANGED <<script, dst, damaged>>
      BY <2>4, <3>2 DEF Overwrite, Installation, Whole
    <3> QED BY <2>4, <3>1, <3>2 DEF Overwrite
  <2>5. CASE GiveUp
    BY <2>5 DEF GiveUp, Installation, Whole
  <2>6. CASE Verify
    BY <2>6 DEF Verify, Installation, Whole
  <2> QED BY <2>1, <2>2, <2>3, <2>4, <2>5, <2>6
<1> QED BY <1>2, <1>3

(* The power fails. *)
LEMMA PowerLossStep == ASSUME IInv, PowerLoss PROVE IInv'
<1> USE DEF IInv, server, agent, tasks, files
<1>1. Typed' /\ \A u \in Task : phase'[u] = "idle"
  BY DEF PowerLoss, Typed
<1>2. ~damaged' => ~damaged /\ script = "idle" /\ dst' = dst
  BY DEF PowerLoss
<1> QED BY <1>1, <1>2 DEF PowerLoss, Exclusive, Newer, Arrived, SourceWhole, Installation, Whole

(* Every step keeps the invariant. *)
LEMMA Inductive == ASSUME OneTask PROVE IInv /\ [Next]_vars => IInv'
<1> SUFFICES ASSUME IInv, [Next]_vars PROVE IInv'
  OBVIOUS
<1>1. CASE UNCHANGED vars
  BY <1>1 DEF vars, server, agent, tasks, files, IInv, Typed, Exclusive, Newer, Arrived, SourceWhole,
     Installation, Whole
<1>2. CASE Next
  BY <1>2, PortalStep, OpenStep, ChunkStep, EndStep, LaunchStep, ScriptInv, PowerLossStep
     DEF Next, ScriptStep
<1> QED BY <1>1, <1>2

(* The bookkeeping of one update at a time. *)
LEMMA Invariant == ASSUME OneTask PROVE Spec => []IInv
<1>1. IInv /\ [Next]_vars => IInv'
  BY Inductive
<1> QED BY InitInv, <1>1, PTL DEF Spec

(* One update at a time, and whatever breaks off or fails: what the script *)
(* installs is a complete release.                                         *)
THEOREM SourceWholeHolds == ASSUME OneTask PROVE Spec => []SourceWhole
<1>1. IInv => SourceWhole
  BY DEF IInv
<1> QED BY <1>1, Invariant, PTL

(* And what it leaves at the exe's path is a complete release too, unless a *)
(* fault hit that no strategy makes good.                                   *)
THEOREM InstalledWholeHolds == ASSUME OneTask PROVE Spec => []InstalledWhole
<1>1. IInv => InstalledWhole
  BY DEF IInv, Installation, InstalledWhole
<1> QED BY <1>1, Invariant, PTL

(* The script is never started for the version that runs, however the portal *)
(* publishes between the check and the download.                             *)
THEOREM NoUpdateLoopHolds == ASSUME OneTask PROVE Spec => NoUpdateLoop
<1>1. ASSUME IInv, [Next]_vars, script = "idle", script' = "rename", Whole(src)
      PROVE  src[1] > version
  <2>1. PICK t \in Task : ApplyUpdate(t)
    BY <1>1 DEF Next, vars, server, agent, tasks, files, Publish, Advertise, Check, Open, WriteChunk,
       FailDownload, Exit, Restart, ScriptStep, Rename, Copy, Rollback, Overwrite, GiveUp, Verify,
       LaunchNew, LaunchExisting, PowerLoss
  <2>2. src = [c \in 1 .. Chunks |-> stream[t]] /\ stream[t] > version
    BY <1>1, <2>1 DEF ApplyUpdate, IInv, Arrived, Newer, Typed
  <2> QED BY <2>2, BoundsAssumption
<1>2. IInv /\ [Next]_vars => [script = "idle" /\ script' = "rename" /\ Whole(src) => src[1] > version]_vars
  BY <1>1
<1> QED BY <1>2, Invariant, PTL DEF Spec, NoUpdateLoop
-----------------------------------------------------------------------------
(* Types, with any number of tasks. *)

\* There is a file once a task has opened it.
FileOpened == (\E t \in Task : phase[t] = "writing") \/ script # "idle" => src \in Contents

(* A file that is not empty of chunks is a sequence of versions. *)
LEMMA ContentsFacts ==
  ASSUME NEW file \in Contents
  PROVE  /\ file \in Seq(Versions) /\ Len(file) \in 0 .. Chunks
         /\ \A p \in Prefixes(file) : p \in Contents
<1>1. PICK n \in 0 .. Chunks : file \in [1 .. n -> Versions]
  BY DEF Contents
<1>2. n \in Nat /\ file \in Seq(Versions) /\ Len(file) = n
  BY <1>1, BoundsAssumption
<1>3. ASSUME NEW m \in 0 .. Len(file) PROVE SubSeq(file, 1, m) \in Contents
  <2>1. SubSeq(file, 1, m) = [i \in 1 .. m |-> file[i]]
    BY <1>2
  <2>2. m \in 0 .. Chunks /\ \A i \in 1 .. m : i \in 1 .. n
    BY <1>2, BoundsAssumption
  <2>3. SubSeq(file, 1, m) \in [1 .. m -> Versions]
    BY <1>1, <2>1, <2>2
  <2> QED BY <2>2, <2>3 DEF Contents
<1> QED BY <1>1, <1>2, <1>3 DEF Prefixes

(* A chunk written at a task's position, with a hole before it or without. *)
LEMMA ChunkTyped ==
  ASSUME TypeOK, FileOpened, NEW t \in Task, WriteChunk(t)
  PROVE  src' \in Contents
<1>1. src \in Contents /\ pos[t] \in 0 .. Chunks - 1 /\ stream[t] \in Versions
  BY BoundsAssumption DEF WriteChunk, FileOpened, TypeOK
<1> DEFINE n == IF pos[t] < Len(src) THEN Len(src) ELSE pos[t] + 1
<1>2. n \in 0 .. Chunks /\ 0 \in Versions /\ Len(src) \in Nat
  BY <1>1, ContentsFacts, BoundsAssumption DEF Versions
<1>3. \A c \in 1 .. n : c <= Len(src) => src[c] \in Versions
  BY <1>1, <1>2, ContentsFacts
<1>4. src' = [c \in 1 .. n |-> IF c = pos[t] + 1 THEN stream[t] ELSE IF c <= Len(src) THEN src[c] ELSE 0]
  BY DEF WriteChunk
<1>5. src' \in [1 .. n -> Versions]
  BY <1>1, <1>2, <1>3, <1>4
<1> QED BY <1>2, <1>5 DEF Contents

(* The version of an exe that has started. *)
LEMMA StartTyped ==
  ASSUME TypeOK, NEW file, StartsFrom(file)
  PROVE  version' \in Versions /\ up' \in BOOLEAN
<1>1. ASSUME Whole(file) PROVE version' \in Versions
  <2>1. PICK v \in 1 .. MaxVersion : file = [c \in 1 .. Chunks |-> v]
    BY <1>1 DEF Whole
  <2>2. 1 \in 1 .. Chunks /\ v \in Versions
    BY BoundsAssumption DEF Versions
  <2> QED BY <1>1, <2>1, <2>2 DEF StartsFrom
<1>2. ASSUME ~Whole(file) PROVE version' \in Versions
  BY <1>2 DEF StartsFrom, TypeOK
<1>3. up' \in BOOLEAN
  BY Zenon DEF StartsFrom, Whole
<1> QED BY <1>1, <1>2, <1>3

(* The variables stay in their sets, however the tasks overwrite one another's *)
(* file and whatever a fault leaves of it; the script makes no more attempts   *)
(* than it is given.                                                           *)
THEOREM UpdateTypeCorrect == Spec => []TypeOK
<1> DEFINE TInv == TypeOK /\ FileOpened
<1>1. Init => TInv
  <2> SUFFICES ASSUME Init PROVE TInv
    OBVIOUS
  <2>1. 0 \in Versions /\ 1 \in Versions /\ 0 \in 0 .. Chunks /\ Chunks \in 0 .. Chunks /\ 0 \in 0 .. MaxAttempts
    BY BoundsAssumption DEF Versions
  <2>2. dst \in Contents
    BY <2>1 DEF Init, Contents
  <2>3. TypeOK
    BY <2>1, <2>2 DEF Init, TypeOK, Files
  <2> QED BY <2>3 DEF Init, FileOpened
<1>2. TInv /\ [Next]_vars => TInv'
  <2> SUFFICES ASSUME TInv, [Next]_vars PROVE TInv'
    OBVIOUS
  <2> USE DEF server, agent, tasks, files
  <2>0. /\ TypeOK /\ FileOpened /\ 0 \in 0 .. Chunks /\ <<>> \in Contents /\ Contents \subseteq Files
        /\ Absent \in Files
    <3>1. <<>> \in [1 .. 0 -> Versions] /\ 0 \in 0 .. Chunks
      BY BoundsAssumption
    <3> QED BY <3>1 DEF Contents, Files
  <2>1. CASE Publish \/ Advertise
    <3>1. released' \in Versions /\ advertised' \in Versions
      BY <2>0, <2>1, BoundsAssumption DEF Publish, Advertise, TypeOK, Versions
    <3> QED BY <2>0, <2>1, <3>1 DEF Publish, Advertise, TypeOK, FileOpened
  <2>2. ASSUME NEW t \in Task, Check(t) \/ Open(t) PROVE TInv'
    BY <2>0, <2>2 DEF Check, Open, TypeOK, FileOpened
  <2>3. ASSUME NEW t \in Task, WriteChunk(t) PROVE TInv'
    <3>1. src' \in Contents
      BY <2>0, <2>3, ChunkTyped
    <3>2. pos' \in [Task -> 0 .. Chunks]
      BY <2>0, <2>3, BoundsAssumption DEF WriteChunk, TypeOK
    <3> QED BY <2>0, <2>3, <3>1, <3>2 DEF WriteChunk, TypeOK, FileOpened
  <2>4. ASSUME NEW t \in Task, FailDownload(t) \/ ApplyUpdate(t) PROVE TInv'
    BY <2>0, <2>4 DEF FailDownload, ApplyUpdate, TypeOK, FileOpened
  <2>5. CASE Exit
    BY <2>0, <2>5 DEF Exit, TypeOK, FileOpened
  <2>6. CASE Restart \/ LaunchNew \/ LaunchExisting
    <3>1. version' \in Versions /\ up' \in BOOLEAN
      BY <2>0, <2>6, StartTyped DEF Restart, LaunchNew, LaunchExisting
    <3> QED BY <2>0, <2>6, <3>1 DEF Restart, LaunchNew, LaunchExisting, TypeOK, FileOpened
  <2>7. CASE Rename \/ Rollback \/ GiveUp \/ Verify
    <3>1. damaged' \in BOOLEAN
      BY <2>0, <2>7, Zenon DEF Rename, Rollback, GiveUp, Verify, TypeOK
    <3>2. attempt' \in 0 .. MaxAttempts
      BY <2>0, <2>7, BoundsAssumption DEF Rename, Rollback, GiveUp, Verify, TypeOK
    <3> QED BY <2>0, <2>7, <3>1, <3>2 DEF Rename, Rollback, GiveUp, Verify, TypeOK, FileOpened
  <2>8. CASE Copy \/ Overwrite
    <3>1. script # "idle" /\ script' # "idle" /\ damaged' \in BOOLEAN
      <4>1. damaged' \in BOOLEAN
        BY <2>0, <2>8, Zenon DEF Copy, Overwrite, TypeOK
      <4> QED BY <2>8, <4>1 DEF Copy, Overwrite
    <3>2. src \in Contents /\ Copies \subseteq Contents
      BY <2>0, <3>1, ContentsFacts DEF FileOpened, Copies
    <3>3. attempt' \in 0 .. MaxAttempts
      BY <2>0, <2>8, BoundsAssumption DEF Copy, Overwrite, TypeOK
    <3> QED BY <2>0, <2>8, <3>1, <3>2, <3>3 DEF Copy, Overwrite, TypeOK, FileOpened
  <2>9. CASE PowerLoss
    <3>1. dst' \in Files
      BY <2>0, <2>9, ContentsFacts DEF PowerLoss, FileOpened, TypeOK
    <3>2. damaged' \in BOOLEAN
      BY <2>0, <2>9, Zenon DEF PowerLoss, TypeOK
    <3> QED BY <2>0, <2>9, <3>1, <3>2 DEF PowerLoss, TypeOK, FileOpened
  <2>10. CASE UNCHANGED vars
    BY <2>0, <2>10 DEF vars, TypeOK, FileOpened
  <2> QED BY <2>1, <2>2, <2>3, <2>4, <2>5, <2>6, <2>7, <2>8, <2>9, <2>10 DEF Next, ScriptStep
<1> QED BY <1>1, <1>2, PTL DEF Spec
=============================================================================
