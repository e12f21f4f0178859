----------------------------- MODULE CommandProofs -----------------------------
(***************************************************************************)
(* Proofs about the portal's commands.                                     *)
(* DevicePin, for any number of synchronisations at a time and any number  *)
(* of PINs: types, and that an undisturbed device that has synchronised    *)
(* holds the portal's PIN.  SoftwareInstall, for any commands, file names  *)
(* and length of an installer: a command that shared its file name with    *)
(* nobody runs what it downloaded.  BlockedSites, for any domains and      *)
(* lines: the hosts file is the user's lines and the section that the      *)
(* portal asked for.                                                       *)
(***************************************************************************)
EXTENDS DevicePin, SoftwareInstall, BlockedSites, FiniteSetTheorems, SequenceTheorems, TLAPS

(* DevicePin. *)

Undisturbed == ~disturbed

Synchronising(s) == sync[s].pc # "idle"

\* Without a disturbance one handler works at a time, for a handler of an older
\* connection disturbs the next one.
OneBusy == Undisturbed => \A s, t \in Sync : Synchronising(s) /\ Synchronising(t) => s = t

\* The last push under way is the portal's PIN.
PushesEndInPin == pushes # <<>> => pushes[Len(pushes)] = pin

\* The answer that a handler of this connection holds is the portal's PIN, or the
\* newer one is pushed after it.
AnswerNotOld ==
  \A s \in Sync : sync[s].pc = "answered" =>
    /\ sync[s].got <= pin
    /\ link /\ Undisturbed /\ pushes = <<>> => sync[s].got = pin

\* A handler that is done is done with this connection.
SyncedIdle == link /\ synced /\ Undisturbed => \A s \in Sync : ~Synchronising(s)

\* What the file holds, once nothing is under way.
FileCurrent == link /\ synced /\ pushes = <<>> /\ Undisturbed => pin \in {0, pinFile}

NoLink == ~link => pushes = <<>>

PinInv ==
  PinTypeOK /\ OneBusy /\ PushesEndInPin /\ AnswerNotOld /\ SyncedIdle /\ FileCurrent /\ NoLink

(* What a push and its reception do to the end of the sequence. *)
LEMMA AppendEnds ==
  ASSUME NEW s \in Seq(Pins), NEW p \in Pins
  PROVE  /\ Append(s, p) \in Seq(Pins) /\ Append(s, p) # <<>>
         /\ Append(s, p)[Len(Append(s, p))] = p
  OBVIOUS

LEMMA TailEnds ==
  ASSUME NEW s \in Seq(Pins), s # <<>>
  PROVE  /\ Tail(s) \in Seq(Pins) /\ Head(s) \in Pins
         /\ Tail(s) # <<>> => Tail(s)[Len(Tail(s))] = s[Len(s)]
         /\ Tail(s) = <<>> => Head(s) = s[Len(s)]
<1>1. Tail(s) \in Seq(Pins) /\ Head(s) \in Pins /\ Len(Tail(s)) = Len(s) - 1
  OBVIOUS
<1>2. Tail(s) # <<>> => Tail(s)[Len(Tail(s))] = s[Len(s)]
  BY <1>1
<1>3. Tail(s) = <<>> => Head(s) = s[Len(s)]
  BY <1>1
<1> QED BY <1>1, <1>2, <1>3

(* The initial states satisfy the invariant. *)
LEMMA PinInitInv == PinInit => PinInv
<1> SUFFICES ASSUME PinInit PROVE PinInv
  OBVIOUS
<1>1. PinTypeOK
  <2>1. 0 \in Pins
    BY PinAssumption DEF Pins
  <2>2. sync \in [Sync -> [pc : {"idle", "asking", "answered"}, got : Pins]]
    BY <2>1 DEF PinInit, NoSync
  <2>3. pin \in Pins /\ pinFile \in Pins /\ prompt \in Pins /\ expired \subseteq Pins
    BY <2>1 DEF PinInit
  <2>4. pushes \in Seq(Pins)
    BY DEF PinInit
  <2> QED BY <2>2, <2>3, <2>4 DEF PinInit, PinTypeOK
<1>2. \A s \in Sync : sync[s].pc = "idle"
  BY DEF PinInit, NoSync
<1> QED BY <1>1, <1>2 DEF PinInit, PinInv, OneBusy, Synchronising, PushesEndInPin, AnswerNotOld,
          SyncedIdle, FileCurrent, NoLink

(* The portal's settings. *)
LEMMA PortalStep == ASSUME PinInv, SetPin \/ Expire PROVE PinInv'
<1> USE PinAssumption DEF PinInv, PinTypeOK, Pins
<1>1. CASE SetPin
  <2>1. pin' = pin + 1 /\ pin' \in Pins
    BY <1>1 DEF SetPin
  <2>2. /\ pushes' \in Seq(Pins)
        /\ link => pushes' # <<>> /\ pushes'[Len(pushes')] = pin'
        /\ ~link => pushes' = <<>>
    BY <1>1, <2>1, AppendEnds DEF SetPin, NoLink
  <2>3. PinTypeOK'
    BY <1>1, <2>1, <2>2 DEF SetPin
  <2>4. AnswerNotOld'
    BY <1>1, <2>1, <2>2 DEF SetPin, AnswerNotOld, Undisturbed
  <2> QED BY <1>1, <2>1, <2>2, <2>3, <2>4 DEF SetPin, OneBusy, Synchronising, PushesEndInPin, SyncedIdle,
            FileCurrent, NoLink, Undisturbed
<1>2. CASE Expire
  <2>1. PinTypeOK'
    BY <1>2 DEF Expire
  <2> QED BY <1>2, <2>1 DEF Expire, OneBusy, Synchronising, PushesEndInPin, AnswerNotOld, SyncedIdle,
            FileCurrent, NoLink, Undisturbed
<1> QED BY <1>1, <1>2

(* The connection comes and goes. *)
LEMMA PinLinkStep ==
  ASSUME PinInv, Disconnect \/ ClearPin \/ \E s \in Sync : Connect(s)
  PROVE  PinInv'
<1> USE PinAssumption DEF PinInv, PinTypeOK, Pins, NoSync
<1>1. CASE Disconnect
  <2>1. /\ UNCHANGED <<pin, expired, sync, pinFile, usb, prompt, synced, disturbed>>
        /\ link' = FALSE /\ pushes' = <<>>
    BY <1>1 DEF Disconnect
  <2>2. link' \in BOOLEAN
    BY <2>1, Zenon
  <2>3. pushes' \in Seq(Pins)
    <3>1. pushes' = <<>>
      BY <2>1
    <3> QED BY <3>1
  <2>4. PinTypeOK'
    <3>1. UNCHANGED <<pin, expired, sync, pinFile, usb, prompt, synced, disturbed>>
      BY <2>1
    <3> QED BY <3>1, <2>2, <2>3
  <2> QED BY <2>1, <2>4 DEF OneBusy, Synchronising, PushesEndInPin, AnswerNotOld, SyncedIdle, FileCurrent,
            NoLink, Undisturbed
<1>2. CASE ClearPin
  <2>1. sync' \in [Sync -> [pc : {"idle", "asking", "answered"}, got : Pins]]
        /\ \A s \in Sync : sync'[s].pc = "idle"
    BY <1>2 DEF ClearPin
  <2>2. ~link' /\ pushes' = <<>> /\ pushes' \in Seq(Pins)
    BY <1>2 DEF ClearPin
  <2>3. UNCHANGED <<pin, expired, usb, disturbed>> /\ pinFile' \in Pins /\ prompt' \in Pins
    BY <1>2 DEF ClearPin
  <2>4. link' \in BOOLEAN /\ synced' \in BOOLEAN
    BY <1>2, Zenon DEF ClearPin
  <2>5. PinTypeOK'
    BY <2>1, <2>2, <2>3, <2>4
  <2> QED BY <2>1, <2>2, <2>5 DEF OneBusy, Synchronising, PushesEndInPin, AnswerNotOld, SyncedIdle,
            FileCurrent, NoLink
<1>3. ASSUME NEW s \in Sync, Connect(s) PROVE PinInv'
  <2>1. sync' = [sync EXCEPT ![s].pc = "asking"] /\ sync[s].pc = "idle"
    BY <1>3 DEF Connect
  <2>2. /\ sync'[s].pc = "asking"
        /\ \A t \in Sync \ {s} : sync'[t] = sync[t]
        /\ sync' \in [Sync -> [pc : {"idle", "asking", "answered"}, got : Pins]]
    BY <2>1
  <2>3. disturbed' \in BOOLEAN /\ (~disturbed' => ~disturbed /\ \A t \in Sync : ~Synchronising(t))
    BY <1>3 DEF Connect, Synchronising
  <2>4. PinTypeOK'
    BY <1>3, <2>2, <2>3 DEF Connect
  <2>5. OneBusy'
    BY <2>2, <2>3 DEF OneBusy, Synchronising, Undisturbed
  <2>6. AnswerNotOld'
    BY <1>3, <2>2, <2>3 DEF Connect, AnswerNotOld, Synchronising, Undisturbed
  <2> QED BY <1>3, <2>4, <2>5, <2>6 DEF Connect, PushesEndInPin, SyncedIdle, FileCurrent, NoLink
<1> QED BY <1>1, <1>2, <1>3

(* A synchronisation from its answer to its end. *)
LEMMA SyncStep ==
  ASSUME PinInv, NEW s \in Sync, Answer(s) \/ SyncFails(s) \/ StoreAnswer(s)
  PROVE  PinInv'
<1> USE PinAssumption DEF PinInv, PinTypeOK, Pins, NoSync
<1>0. Synchronising(s)
  BY DEF Answer, SyncFails, StoreAnswer, Synchronising
<1>1. CASE Answer(s)
  <2>1. /\ sync'[s] = [pc |-> "answered", got |-> pin]
        /\ \A t \in Sync \ {s} : sync'[t] = sync[t]
        /\ sync' \in [Sync -> [pc : {"idle", "asking", "answered"}, got : Pins]]
    BY <1>1 DEF Answer
  <2>2. OneBusy'
    BY <1>0, <1>1, <2>1 DEF Answer, OneBusy, Synchronising, Undisturbed
  <2>3. AnswerNotOld'
    BY <1>1, <2>1 DEF Answer, AnswerNotOld, Undisturbed
  <2>4. SyncedIdle'
    BY <1>0, <1>1 DEF Answer, SyncedIdle, Undisturbed
  <2> QED BY <1>1, <2>1, <2>2, <2>3, <2>4 DEF Answer, PushesEndInPin, FileCurrent, NoLink, Undisturbed
<1>2. CASE SyncFails(s) \/ StoreAnswer(s)
  <2>1. /\ sync'[s].pc = "idle"
        /\ \A t \in Sync \ {s} : sync'[t] = sync[t]
        /\ sync' \in [Sync -> [pc : {"idle", "asking", "answered"}, got : Pins]]
    BY <1>2 DEF SyncFails, StoreAnswer
  <2>2. UNCHANGED <<pin, link, pushes, disturbed>> /\ expired' = expired /\ usb' = usb /\ prompt' = prompt
    BY <1>2 DEF SyncFails, StoreAnswer
  <2>3. OneBusy' /\ AnswerNotOld' /\ PushesEndInPin' /\ NoLink'
    BY <2>1, <2>2 DEF OneBusy, Synchronising, AnswerNotOld, PushesEndInPin, NoLink, Undisturbed
  <2>4. SyncedIdle'
    BY <1>0, <2>1, <2>2 DEF OneBusy, Synchronising, SyncedIdle, Undisturbed
  <2>5. PinTypeOK' /\ FileCurrent'
    <3>1. CASE SyncFails(s)
      BY <2>1, <3>1 DEF SyncFails, FileCurrent, Undisturbed
    <3>2. CASE StoreAnswer(s)
      <4>1. pinFile' = IF sync[s].got # 0 THEN sync[s].got ELSE pinFile
        BY <3>2 DEF StoreAnswer, StorePinHash
      <4>2. link /\ Undisturbed /\ pushes = <<>> => sync[s].got = pin
        BY <3>2 DEF StoreAnswer, AnswerNotOld
      <4> QED BY <2>1, <2>2, <3>2, <4>1, <4>2 DEF StoreAnswer, FileCurrent, Undisturbed
    <3> QED BY <1>2, <3>1, <3>2
  <2> QED BY <2>3, <2>4, <2>5
<1> QED BY <1>1, <1>2

(* A push is received. *)
LEMMA PushStep == ASSUME PinInv, UpdatePin PROVE PinInv'
<1> USE PinAssumption DEF PinInv, PinTypeOK, Pins
<1>1. /\ pushes # <<>> /\ pushes' = Tail(pushes)
      /\ UNCHANGED <<pin, expired, link, sync, usb, prompt, synced>>
  BY DEF UpdatePin
<1>2. /\ Tail(pushes) \in Seq(Pins) /\ Head(pushes) \in Pins
      /\ Tail(pushes) # <<>> => Tail(pushes)[Len(Tail(pushes))] = pin
      /\ Tail(pushes) = <<>> => Head(pushes) = pin
  BY <1>1, TailEnds DEF PushesEndInPin
<1>3. /\ disturbed' \in BOOLEAN /\ (~disturbed' => ~disturbed /\ pinFile' = Head(pushes))
      /\ ~disturbed' => \A s \in Sync : sync[s].pc = "answered" => ~(sync[s].got < Head(pushes))
      /\ pinFile' \in {pinFile, Head(pushes)}
  BY DEF UpdatePin, StorePinHash
<1>4. PinTypeOK'
  BY <1>1, <1>2, <1>3
<1>5. AnswerNotOld'
  <2> SUFFICES ASSUME NEW s \in Sync, sync'[s].pc = "answered"
               PROVE  /\ sync'[s].got <= pin'
                      /\ link' /\ ~disturbed' /\ pushes' = <<>> => sync'[s].got = pin'
    BY DEF AnswerNotOld, Undisturbed
  <2>1. sync[s].got \in Nat /\ sync[s].got <= pin /\ pin \in Nat
    BY <1>1 DEF AnswerNotOld
  <2> QED BY <1>1, <1>2, <1>3, <2>1
<1> QED BY <1>1, <1>2, <1>3, <1>4, <1>5 DEF OneBusy, Synchronising, PushesEndInPin, SyncedIdle, FileCurrent,
          NoLink, Undisturbed

(* USB storage and its prompt leave the PIN alone. *)
LEMMA UsbStep ==
  ASSUME PinInv, UsbControl \/ OpenDialog \/ DialogRefuses \/ DialogUnlocks
  PROVE  PinInv'
<1>1. /\ UNCHANGED <<pin, expired, link, pushes, sync, pinFile, synced, disturbed>>
      /\ usb' \in {"locked", "enabled"} /\ prompt' \in Pins
  BY PinAssumption DEF UsbControl, OpenDialog, DialogRefuses, DialogUnlocks, StoredPin, SetUsbEnabled,
     PinInv, PinTypeOK, Pins
<1> QED BY <1>1 DEF PinInv, PinTypeOK, OneBusy, Synchronising, PushesEndInPin, AnswerNotOld, SyncedIdle,
          FileCurrent, NoLink, Undisturbed

(* Every step keeps the invariant. *)
LEMMA PinInductive == PinInv /\ [PinNext]_pinVars => PinInv'
<1> SUFFICES ASSUME PinInv, [PinNext]_pinVars PROVE PinInv'
  OBVIOUS
<1>1. CASE UNCHANGED pinVars
  BY <1>1 DEF pinVars, PinInv, PinTypeOK, OneBusy, Synchronising, PushesEndInPin, AnswerNotOld, SyncedIdle,
     FileCurrent, NoLink, Undisturbed
<1>2. CASE PinNext
  BY <1>2, PortalStep, PinLinkStep, SyncStep, PushStep, UsbStep DEF PinNext
<1> QED BY <1>1, <1>2

(* The bookkeeping of a connection: what is under way, and what is stored. *)
LEMMA PinInvariant == PinSpec => []PinInv
BY PinInitInv, PinInductive, PTL DEF PinSpec

LEMMA PinInvGives == PinInv => PinTypeOK /\ PinCurrent
BY DEF PinInv, FileCurrent, PinCurrent, Undisturbed

(* Every variable of the PIN's component stays in its set. *)
THEOREM PinTypeCorrect == PinSpec => []PinTypeOK
BY PinInvariant, PinInvGives, PTL

(* A connected device that has synchronised, and that no overtaken answer, second *)
(* handler or write error has disturbed, holds the portal's PIN as soon as        *)
(* nothing is under way.                                                          *)
THEOREM PinCurrentHolds == PinSpec => []PinCurrent
BY PinInvariant, PinInvGives, PTL

-----------------------------------------------------------------------------
(* SoftwareInstall. *)

\* What the argument needs of the types.
InstallTyped ==
  /\ job \in [Command -> [pc : Steps, name : FileName, pos : 0 .. Chunks]]
  /\ disk \in [FileName -> Seq(Command \cup {Hole})] /\ ran \in [Command -> Seq(Command \cup {Hole})]

Active(c) == job[c].pc \in {"ask", "write", "ready", "running"}

\* Commands that work on a file at the same time are marked.
Marked ==
  \A c, d \in Command :
    c # d /\ Active(c) /\ Active(d) /\ job[c].name = job[d].name => c \in shares

FirstOf(c, n) == [i \in 1 .. n |-> c]

\* The file of a command that is not marked is its own, as far as it has come.
OwnFile ==
  \A c \in Command \ shares :
    /\ job[c].pc = "ask" => job[c].pos = 0
    /\ job[c].pc = "write" => disk[job[c].name] = FirstOf(c, job[c].pos)
    /\ job[c].pc = "ready" => disk[job[c].name] = FirstOf(c, Chunks)

InstallInv == InstallTyped /\ Marked /\ OwnFile /\ RanItsOwn

(* The initial states satisfy the invariant. *)
LEMMA InstallInitInv == InstallInit => InstallInv
<1> SUFFICES ASSUME InstallInit PROVE InstallInv
  OBVIOUS
<1>1. (CHOOSE n \in FileName : TRUE) \in FileName /\ 0 \in 0 .. Chunks
  BY InstallAssumption
<1>2. InstallTyped
  BY <1>1 DEF InstallInit, InstallTyped, Steps
<1>3. \A c \in Command : job[c].pc = "none" /\ ran[c] = <<>>
  BY DEF InstallInit
<1> QED BY <1>2, <1>3 DEF InstallInv, Marked, Active, OwnFile, RanItsOwn

(* What a chunk makes of a file. *)
LEMMA WrittenFacts ==
  ASSUME NEW c \in Command, NEW content \in Seq(Command \cup {Hole}), NEW pos \in Nat
  PROVE  /\ Written(content, c, pos) \in Seq(Command \cup {Hole})
         /\ content = FirstOf(c, pos) => Written(content, c, pos) = FirstOf(c, pos + 1)
<1>1. Len(content) \in Nat /\ \A i \in 1 .. Len(content) : content[i] \in Command \cup {Hole}
  OBVIOUS
<1>2. Written(content, c, pos) \in Seq(Command \cup {Hole})
  BY <1>1 DEF Written
<1>3. ASSUME content = FirstOf(c, pos) PROVE Written(content, c, pos) = FirstOf(c, pos + 1)
  <2>1. Len(content) = pos
    BY <1>3 DEF FirstOf
  <2>2. Written(content, c, pos) = [i \in 1 .. pos + 1 |-> IF i = pos + 1 THEN c ELSE IF i <= pos THEN content[i] ELSE Hole]
    BY <2>1 DEF Written
  <2> QED BY <1>3, <2>2 DEF FirstOf
<1> QED BY <1>2, <1>3

(* A step of command c that leaves its name alone and activates nobody. *)
JobMoves(c) ==
  /\ job' \in [Command -> [pc : Steps, name : FileName, pos : 0 .. Chunks]]
  /\ \A d \in Command \ {c} : job'[d] = job[d]

LEMMA ToFacts ==
  ASSUME InstallTyped, NEW c \in Command, NEW pc \in Steps, To(c, pc)
  PROVE  JobMoves(c) /\ job'[c].pc = pc /\ job'[c].name = job[c].name /\ job'[c].pos = job[c].pos
BY DEF InstallTyped, To, JobMoves

(* A file is emptied. *)
LEMMA Emptied ==
  ASSUME InstallTyped, NEW n \in FileName, disk' = [disk EXCEPT ![n] = <<>>]
  PROVE  /\ disk' \in [FileName -> Seq(Command \cup {Hole})] /\ disk'[n] = <<>>
         /\ \A m \in FileName \ {n} : disk'[m] = disk[m]
<1> DEFINE Content == Seq(Command \cup {Hole})
<1>1. <<>> \in Content
  OBVIOUS
<1>2. disk \in [FileName -> Content]
  BY DEF InstallTyped
<1> HIDE DEF Content
<1>3. disk' \in [FileName -> Content] /\ disk'[n] = <<>> /\ \A m \in FileName \ {n} : disk'[m] = disk[m]
  BY <1>1, <1>2
<1> QED BY <1>3 DEF Content

(* A command that is active goes on: what is to be shown of its file. *)
LEMMA WorkStep ==
  ASSUME InstallInv, NEW c \in Command, JobMoves(c), job'[c].name = job[c].name, Active(c),
         job'[c].pc \notin {"none", "ask"}, UNCHANGED shares,
         disk' \in [FileName -> Seq(Command \cup {Hole})], ran' \in [Command -> Seq(Command \cup {Hole})],
         \A n \in FileName \ {job[c].name} : disk'[n] = disk[n],
         \A d \in Command \ {c} : ran'[d] = ran[d],
         c \notin shares =>
           /\ job'[c].pc = "write" => disk'[job[c].name] = FirstOf(c, job'[c].pos)
           /\ job'[c].pc = "ready" => disk'[job[c].name] = FirstOf(c, Chunks)
           /\ ran'[c] # <<>> => ran'[c] = FirstOf(c, Chunks)
  PROVE  InstallInv'
<1> USE DEF InstallInv, JobMoves
<1>1. InstallTyped'
  BY DEF InstallTyped
<1>2. Marked'
  <2>1. \A d \in Command : job'[d].name = job[d].name /\ (Active(d)' => Active(d))
    BY DEF Active
  <2> QED BY <2>1 DEF Marked
<1>3. OwnFile'
  <2> SUFFICES ASSUME NEW d \in Command, d \notin shares
               PROVE  /\ job'[d].pc = "ask" => job'[d].pos = 0
                      /\ job'[d].pc = "write" => disk'[job'[d].name] = FirstOf(d, job'[d].pos)
                      /\ job'[d].pc = "ready" => disk'[job'[d].name] = FirstOf(d, Chunks)
    BY DEF OwnFile
  <2>1. CASE d = c
    BY <2>1
  <2>2. CASE d # c /\ Active(d)
    <3>1. job[d].name # job[c].name /\ job[d].name \in FileName
      BY <2>2 DEF Marked, InstallTyped
    <3> QED BY <2>2, <3>1 DEF OwnFile
  <2>3. CASE d # c /\ ~Active(d)
    BY <2>3 DEF Active
  <2> QED BY <2>1, <2>2, <2>3
<1>4. RanItsOwn'
  BY DEF RanItsOwn, FirstOf
<1> QED BY <1>1, <1>2, <1>3, <1>4

(* The download. *)
LEMMA DownloadStep ==
  ASSUME InstallInv, NEW c \in Command,
         OpenFile(c) \/ WriteChunk(c) \/ DownloadFails(c) \/ Downloaded(c)
  PROVE  InstallInv'
<1>0. /\ InstallTyped /\ job[c].name \in FileName /\ job[c].pos \in 0 .. Chunks /\ Chunks \in Nat
      /\ c \notin shares /\ ran[c] # <<>> => ran[c] = FirstOf(c, Chunks)
  BY InstallAssumption DEF InstallInv, InstallTyped, RanItsOwn, FirstOf
<1>1. CASE OpenFile(c)
  <2>1. /\ Active(c) /\ job[c].pc = "ask" /\ UNCHANGED <<shares, ran>>
        /\ \/ To(c, "write") /\ disk' = [disk EXCEPT ![job[c].name] = <<>>]
           \/ To(c, "emit") /\ UNCHANGED disk
    BY <1>1 DEF OpenFile, Active, Fails
  <2>2. /\ JobMoves(c) /\ job'[c].name = job[c].name /\ job'[c].pos = job[c].pos
        /\ \/ job'[c].pc = "write" /\ disk' = [disk EXCEPT ![job[c].name] = <<>>]
           \/ job'[c].pc = "emit" /\ UNCHANGED disk
    BY <1>0, <2>1, ToFacts DEF Steps
  <2>3. FirstOf(c, 0) = <<>>
    BY DEF FirstOf
  <2>4. c \notin shares => job[c].pos = 0
    BY <2>1 DEF InstallInv, OwnFile
  <2>5. disk' \in [FileName -> Seq(Command \cup {Hole})]
    BY <1>0, <2>2, Emptied DEF InstallTyped
  <2>6. job'[c].pc = "write" => disk'[job[c].name] = <<>>
    BY <1>0, <2>2 DEF InstallTyped
  <2>7. \A n \in FileName \ {job[c].name} : disk'[n] = disk[n]
    BY <1>0, <2>2 DEF InstallTyped
  <2> QED BY <1>0, <2>1, <2>2, <2>3, <2>4, <2>5, <2>6, <2>7, WorkStep DEF InstallTyped
<1>2. CASE WriteChunk(c)
  <2>1. /\ Active(c) /\ job[c].pc = "write" /\ job[c].pos < Chunks /\ UNCHANGED <<shares, ran>>
        /\ disk' = [disk EXCEPT ![job[c].name] = Written(disk[job[c].name], c, job[c].pos)]
        /\ job' = [job EXCEPT ![c].pos = @ + 1]
    BY <1>2 DEF WriteChunk, Active
  <2>2. JobMoves(c) /\ job'[c].name = job[c].name /\ job'[c].pc = "write" /\ job'[c].pos = job[c].pos + 1
    <3>1. job[c] \in [pc : Steps, name : FileName, pos : 0 .. Chunks] /\ job[c].pos + 1 \in 0 .. Chunks
      BY <1>0, <2>1 DEF InstallTyped
    <3>2. [job[c] EXCEPT !.pos = @ + 1] \in [pc : Steps, name : FileName, pos : 0 .. Chunks]
      BY <3>1
    <3>3. job' = [job EXCEPT ![c] = [job[c] EXCEPT !.pos = @ + 1]]
      BY <2>1
    <3>4. JobMoves(c) /\ job'[c] = [job[c] EXCEPT !.pos = @ + 1]
      BY <1>0, <3>2, <3>3 DEF InstallTyped, JobMoves
    <3> QED BY <2>1, <3>1, <3>4
  <2>3. disk[job[c].name] \in Seq(Command \cup {Hole}) /\ job[c].pos \in Nat
    BY <1>0 DEF InstallTyped
  <2>4. /\ Written(disk[job[c].name], c, job[c].pos) \in Seq(Command \cup {Hole})
        /\ c \notin shares => Written(disk[job[c].name], c, job[c].pos) = FirstOf(c, job[c].pos + 1)
    BY <2>1, <2>3, WrittenFacts DEF InstallInv, OwnFile
  <2>5. /\ disk' \in [FileName -> Seq(Command \cup {Hole})]
        /\ disk'[job[c].name] = Written(disk[job[c].name], c, job[c].pos)
        /\ \A n \in FileName \ {job[c].name} : disk'[n] = disk[n]
    BY <1>0, <2>1, <2>4 DEF InstallTyped
  <2> QED BY <1>0, <2>1, <2>2, <2>4, <2>5, WorkStep DEF InstallTyped
<1>3. CASE DownloadFails(c)
  <2>1. Active(c) /\ To(c, "emit") /\ UNCHANGED <<disk, shares, ran>>
    BY <1>3 DEF DownloadFails, Fails, Active
  <2>2. JobMoves(c) /\ job'[c].name = job[c].name /\ job'[c].pc = "emit"
    BY <1>0, <2>1, ToFacts DEF Steps
  <2> QED BY <1>0, <2>1, <2>2, WorkStep DEF InstallTyped
<1>4. CASE Downloaded(c)
  <2>1. Active(c) /\ To(c, "ready") /\ job[c].pc = "write" /\ job[c].pos = Chunks /\ UNCHANGED <<disk, shares, ran>>
    BY <1>4 DEF Downloaded, Active
  <2>2. JobMoves(c) /\ job'[c].name = job[c].name /\ job'[c].pc = "ready"
    BY <1>0, <2>1, ToFacts DEF Steps
  <2>3. c \notin shares => disk[job[c].name] = FirstOf(c, Chunks)
    BY <2>1 DEF InstallInv, OwnFile
  <2> QED BY <1>0, <2>1, <2>2, <2>3, WorkStep DEF InstallTyped
<1> QED BY <1>1, <1>2, <1>3, <1>4

(* The installer. *)
LEMMA InstallerStep ==
  ASSUME InstallInv, NEW c \in Command, StartInstaller(c) \/ InstallerEnds(c) \/ InstallerFails(c)
  PROVE  InstallInv'
<1>0. /\ InstallTyped /\ job[c].name \in FileName
      /\ c \notin shares /\ ran[c] # <<>> => ran[c] = FirstOf(c, Chunks)
  BY DEF InstallInv, InstallTyped, RanItsOwn, FirstOf
<1>1. CASE StartInstaller(c)
  <2>1. /\ Active(c) /\ job[c].pc = "ready" /\ UNCHANGED <<disk, shares>>
        /\ \/ To(c, "running") /\ ran' = [ran EXCEPT ![c] = disk[job[c].name]]
           \/ To(c, "emit") /\ UNCHANGED ran
    BY <1>1 DEF StartInstaller, Fails, Active
  <2>2. JobMoves(c) /\ job'[c].name = job[c].name /\ job'[c].pc \in {"running", "emit"}
    BY <1>0, <2>1, ToFacts DEF Steps
  <2>3. c \notin shares => disk[job[c].name] = FirstOf(c, Chunks)
    BY <2>1 DEF InstallInv, OwnFile
  <2>4. /\ ran' \in [Command -> Seq(Command \cup {Hole})] /\ ran'[c] \in {ran[c], disk[job[c].name]}
        /\ \A d \in Command \ {c} : ran'[d] = ran[d]
    BY <1>0, <2>1 DEF InstallTyped
  <2> QED BY <1>0, <2>1, <2>2, <2>3, <2>4, WorkStep DEF InstallTyped
<1>2. CASE InstallerEnds(c)
  <2>1. /\ Active(c) /\ To(c, "emit") /\ UNCHANGED <<shares, ran>>
        /\ \/ disk' = [disk EXCEPT ![job[c].name] = <<>>]
           \/ UNCHANGED disk
    BY <1>2 DEF InstallerEnds, Active
  <2>2. JobMoves(c) /\ job'[c].name = job[c].name /\ job'[c].pc = "emit"
    BY <1>0, <2>1, ToFacts DEF Steps
  <2>3. /\ disk' \in [FileName -> Seq(Command \cup {Hole})]
        /\ \A n \in FileName \ {job[c].name} : disk'[n] = disk[n]
    BY <1>0, <2>1, Emptied DEF InstallTyped
  <2> QED BY <1>0, <2>1, <2>2, <2>3, WorkStep DEF InstallTyped
<1>3. CASE InstallerFails(c)
  <2>1. Active(c) /\ To(c, "emit") /\ UNCHANGED <<disk, shares, ran>>
    BY <1>3 DEF InstallerFails, Fails, Active
  <2>2. JobMoves(c) /\ job'[c].name = job[c].name /\ job'[c].pc = "emit"
    BY <1>0, <2>1, ToFacts DEF Steps
  <2> QED BY <1>0, <2>1, <2>2, WorkStep DEF InstallTyped
<1> QED BY <1>1, <1>2, <1>3

(* A command comes: it and those it meets are marked. *)
LEMMA ReceiveStep == ASSUME InstallInv, NEW c \in Command, Receive(c) PROVE InstallInv'
<1>1. PICK n \in FileName, pc \in {"ask", "emit"} :
        /\ job' = [job EXCEPT ![c] = [pc |-> pc, name |-> n, pos |-> 0]]
        /\ LET others == {d \in Command \ {c} : job[d].name = n /\ job[d].pc \notin {"none", "emit", "over"}}
           IN  shares' = IF pc = "ask" /\ others # {} THEN shares \cup {c} \cup others ELSE shares
  BY DEF Receive
<1>2. UNCHANGED <<disk, ran>>
  BY DEF Receive
<1>3. InstallTyped'
  BY <1>1, <1>2, InstallAssumption DEF InstallInv, InstallTyped, Steps
<1>4. /\ job'[c] = [pc |-> pc, name |-> n, pos |-> 0] /\ \A d \in Command \ {c} : job'[d] = job[d]
      /\ shares \subseteq shares'
  BY <1>1 DEF InstallInv, InstallTyped
<1>5. \A d \in Command \ {c} : Active(d) /\ job[d].name = n /\ pc = "ask" => c \in shares' /\ d \in shares'
  BY <1>1 DEF Active
<1>6. Marked'
  <2> SUFFICES ASSUME NEW d \in Command, NEW e \in Command, d # e, Active(d)', Active(e)', job'[d].name = job'[e].name
               PROVE  d \in shares'
    BY DEF Marked
  <2>1. CASE d = c
    BY <1>4, <1>5, <2>1 DEF Active
  <2>2. CASE e = c
    BY <1>4, <1>5, <2>2 DEF Active
  <2>3. CASE d # c /\ e # c
    BY <1>4, <2>3 DEF InstallInv, Marked, Active
  <2> QED BY <2>1, <2>2, <2>3
<1>7. \A d \in Command : d \notin shares' => d \notin shares
  BY <1>4
<1>8. OwnFile'
  <2> SUFFICES ASSUME NEW d \in Command, d \notin shares'
               PROVE  /\ job'[d].pc = "ask" => job'[d].pos = 0
                      /\ job'[d].pc = "write" => disk'[job'[d].name] = FirstOf(d, job'[d].pos)
                      /\ job'[d].pc = "ready" => disk'[job'[d].name] = FirstOf(d, Chunks)
    BY DEF OwnFile
  <2>1. CASE d = c
    BY <1>4, <2>1
  <2>2. CASE d # c
    BY <1>2, <1>4, <1>7, <2>2 DEF InstallInv, OwnFile
  <2> QED BY <2>1, <2>2
<1>9. RanItsOwn'
  BY <1>2, <1>7 DEF InstallInv, RanItsOwn
<1> QED BY <1>3, <1>6, <1>8, <1>9 DEF InstallInv

(* Nobody works on a file: the answer goes out, or all tasks end. *)
LEMMA RestStep ==
  ASSUME InstallInv, LinkChanges \/ AgentEnds \/ \E c \in Command : EmitResult(c)
  PROVE  InstallInv'
<1>1. UNCHANGED <<disk, ran, shares>>
  BY DEF LinkChanges, AgentEnds, EmitResult
<1>2. /\ job' \in [Command -> [pc : Steps, name : FileName, pos : 0 .. Chunks]]
      /\ \A d \in Command : job'[d] = job[d] \/ job'[d].pc = "over"
  <2>1. CASE LinkChanges
    BY <2>1 DEF LinkChanges, InstallInv, InstallTyped
  <2>2. CASE AgentEnds
    BY <2>2 DEF AgentEnds, InstallInv, InstallTyped, Steps
  <2>3. ASSUME NEW c \in Command, EmitResult(c) PROVE <1>2!1
    BY <2>3, ToFacts DEF EmitResult, InstallInv, JobMoves, Steps
  <2>4. ASSUME NEW c \in Command, EmitResult(c) PROVE <1>2!2
    BY <2>4, ToFacts DEF EmitResult, InstallInv, JobMoves, Steps
  <2> QED BY <2>1, <2>2, <2>3, <2>4
<1>3. InstallTyped'
  BY <1>1, <1>2 DEF InstallInv, InstallTyped
<1>4. Marked'
  BY <1>1, <1>2 DEF InstallInv, Marked, Active
<1>5. OwnFile' /\ RanItsOwn'
  BY <1>1, <1>2 DEF InstallInv, OwnFile, RanItsOwn
<1> QED BY <1>3, <1>4, <1>5 DEF InstallInv

(* Every step keeps the invariant. *)
LEMMA InstallInductive == InstallInv /\ [InstallNext]_installVars => InstallInv'
<1> SUFFICES ASSUME InstallInv, [InstallNext]_installVars PROVE InstallInv'
  OBVIOUS
<1>1. CASE UNCHANGED installVars
  BY <1>1 DEF installVars, InstallInv, InstallTyped, Marked, Active, OwnFile, RanItsOwn
<1>2. CASE InstallNext
  BY <1>2, DownloadStep, InstallerStep, ReceiveStep, RestStep DEF InstallNext, CommandStep
<1> QED BY <1>1, <1>2

(* An installer that is started is the one its own command downloaded, whole, *)
(* however many commands are under way; unless two used one file name at a    *)
(* time.                                                                      *)
THEOREM RanItsOwnHolds == InstallSpec => []RanItsOwn
<1>1. InstallInv => RanItsOwn
  BY DEF InstallInv
<1> QED BY <1>1, InstallInitInv, InstallInductive, PTL DEF InstallSpec

(* The rest of the types. *)
InstallRest ==
  linked \in BOOLEAN /\ results \in [Command -> Nat] /\ shares \subseteq Command /\ lost \subseteq Command

LEMMA RestInit == InstallInit => InstallRest
<1> SUFFICES ASSUME InstallInit PROVE InstallRest
  OBVIOUS
<1>1. linked \in BOOLEAN
  BY Zenon DEF InstallInit
<1> QED BY <1>1 DEF InstallInit, InstallRest

LEMMA RestKept == InstallRest /\ [InstallNext]_installVars => InstallRest'
<1> SUFFICES ASSUME InstallRest, [InstallNext]_installVars PROVE InstallRest'
  OBVIOUS
<1>1. CASE UNCHANGED installVars
  BY <1>1 DEF installVars, InstallRest
<1>2. CASE LinkChanges
  <2>1. linked' \in BOOLEAN
    BY <1>2, Zenon DEF LinkChanges
  <2> QED BY <1>2, <2>1 DEF LinkChanges, InstallRest
<1>3. CASE AgentEnds
  <2>1. linked' \in BOOLEAN
    BY <1>3, Zenon DEF AgentEnds
  <2> QED BY <1>3, <2>1 DEF AgentEnds, InstallRest
<1>4. ASSUME NEW c \in Command, Receive(c) PROVE InstallRest'
  <2>1. shares' \subseteq Command
    BY <1>4 DEF Receive, InstallRest
  <2> QED BY <1>4, <2>1 DEF Receive, InstallRest
<1>5. ASSUME NEW c \in Command, EmitResult(c) PROVE InstallRest'
  <2>1. results' \in [Command -> Nat] /\ lost' \subseteq Command
    BY <1>5 DEF EmitResult, InstallRest
  <2> QED BY <1>5, <2>1 DEF EmitResult, InstallRest
<1>6. ASSUME NEW c \in Command, CommandStep(c), ~EmitResult(c) PROVE InstallRest'
  <2>1. UNCHANGED <<linked, results, shares, lost>>
    BY <1>6 DEF CommandStep, OpenFile, WriteChunk, DownloadFails, Downloaded, StartInstaller, InstallerEnds, InstallerFails
  <2> QED BY <2>1 DEF InstallRest
<1> QED BY <1>1, <1>2, <1>3, <1>4, <1>5, <1>6 DEF InstallNext

LEMMA InstallInvGives == InstallInv /\ InstallRest => InstallTypeOK /\ RanItsOwn
BY DEF InstallInv, InstallTyped, InstallRest, InstallTypeOK

(* The variables of the installations stay in their sets: a file is what the   *)
(* commands wrote and holes, and nobody writes beyond the installer's length.  *)
THEOREM InstallTypeCorrect == InstallSpec => []InstallTypeOK
BY InstallInitInv, InstallInductive, RestInit, RestKept, InstallInvGives, PTL DEF InstallSpec

-----------------------------------------------------------------------------
(* BlockedSites. *)

(* What taking one element out of a sequence leaves. *)
LEMMA RemoveAtFacts ==
  ASSUME NEW S, NEW s \in Seq(S), NEW k \in 1 .. Len(s)
  PROVE  /\ RemoveAt(s, k) \in Seq(S) /\ Len(RemoveAt(s, k)) = Len(s) - 1
         /\ \A i \in 1 .. Len(s) - 1 : RemoveAt(s, k)[i] = IF i < k THEN s[i] ELSE s[i + 1]
<1> DEFINE a == SubSeq(s, 1, k - 1)
           b == SubSeq(s, k + 1, Len(s))
<1>1. Len(s) \in Nat /\ k \in Nat /\ k >= 1 /\ k <= Len(s)
  OBVIOUS
<1>2. a \in Seq(S) /\ Len(a) = k - 1 /\ \A i \in 1 .. k - 1 : a[i] = s[i]
  BY <1>1
<1>3. b \in Seq(S) /\ Len(b) = Len(s) - k /\ \A i \in 1 .. Len(s) - k : b[i] = s[k + i]
  BY <1>1, SubSeqProperties
<1>4. RemoveAt(s, k) = a \o b
  BY DEF RemoveAt
<1> HIDE DEF a, b
<1>5. /\ a \o b \in Seq(S) /\ Len(a \o b) = Len(s) - 1
      /\ \A i \in 1 .. Len(s) - 1 : (a \o b)[i] = IF i <= k - 1 THEN a[i] ELSE b[i - (k - 1)]
  <2>1. /\ a \o b \in Seq(S) /\ Len(a \o b) = Len(a) + Len(b)
        /\ \A i \in 1 .. Len(a) + Len(b) : (a \o b)[i] = IF i <= Len(a) THEN a[i] ELSE b[i - Len(a)]
    BY <1>2, <1>3, ConcatProperties
  <2>2. Len(a) = k - 1 /\ Len(a) + Len(b) = Len(s) - 1
    BY <1>1, <1>2, <1>3
  <2> QED BY <2>1, <2>2
<1>6. ASSUME NEW i \in 1 .. Len(s) - 1 PROVE (a \o b)[i] = IF i < k THEN s[i] ELSE s[i + 1]
  <2>1. CASE i < k
    BY <1>1, <1>2, <1>5, <2>1
  <2>2. CASE ~(i < k)
    <3>1. i - (k - 1) \in 1 .. Len(s) - k /\ k + (i - (k - 1)) = i + 1 /\ ~(i <= k - 1)
      BY <1>1, <2>2
    <3> QED BY <1>3, <1>5, <2>2, <3>1
  <2> QED BY <2>1, <2>2
<1> QED BY <1>4, <1>5, <1>6

(* An element appended to the second of two sequences. *)
LEMMA ConcatAppend ==
  ASSUME NEW S, NEW s \in Seq(S), NEW t \in Seq(S), NEW e \in S
  PROVE  s \o Append(t, e) = Append(s \o t, e)
<1>1. s \o t \in Seq(S) /\ <<e>> \in Seq(S)
  BY ConcatProperties
<1>2. Append(t, e) = t \o <<e>> /\ Append(s \o t, e) = (s \o t) \o <<e>>
  BY <1>1, AppendIsConcat
<1>3. (s \o t) \o <<e>> = s \o (t \o <<e>>)
  BY <1>1, ConcatAssociative
<1> QED BY <1>2, <1>3

Distinct(s) == \A i, j \in DOMAIN s : s[i] = s[j] => i = j

\* A section lists its domains once.
Listing(s) == s \in Seq(Domain) /\ Distinct(s)

IsFile(f) ==
  /\ f = [before |-> f.before, open |-> f.open, section |-> f.section, after |-> f.after]
  /\ f.open \in BOOLEAN /\ (f.section = Absent \/ Listing(f.section))

\* The file, and what the handler read of it: the section cannot have changed since.
FilesTyped ==
  /\ IsFile(file) /\ command.pc \in {"idle", "write"}
  /\ command.pc = "write" =>
       /\ command.action \in {"block", "unblock"} /\ command.domain \in Domain
       /\ IsFile(command.read) /\ command.read.section = file.section

\* The domains that the section must hold once the command under way is through.
AnswerOf ==
  CASE command.pc = "idle" -> Range(Blocked(file))
    [] command.pc = "write" /\ command.action = "block" -> Range(Blocked(file)) \cup {command.domain}
    [] OTHER -> Range(Blocked(file)) \ {command.domain}

\* A command under way has something to change.
Answering ==
  /\ asked = AnswerOf
  /\ command.pc = "write" => (command.action = "unblock" <=> command.domain \in Range(Blocked(file)))

\* Undisturbed, the file is the user's lines around the section, and what the
\* handler read of it still is the file.
Lines == [i \in 1 .. written |-> <<i>>]
UserFile ==
  ~torn /\ ~glued =>
    /\ file.before \in Seq(Seq(Nat)) /\ file.after \in Seq(Seq(Nat)) /\ file.before \o file.after = Lines
    /\ file.section = Absent \/ file.open => file.after = <<>>
    /\ command.pc = "write" => command.read = file

SitesScalars ==
  /\ command.action \in {"block", "unblock"} /\ command.domain \in Domain \cup {Absent}
  /\ written \in 0 .. MaxLines /\ asked \subseteq Domain /\ torn \in BOOLEAN /\ glued \in BOOLEAN

SitesInv == FilesTyped /\ Answering /\ UserFile /\ SitesScalars

(* A list of distinct domains has as many entries as domains. *)
LEMMA ListingCounts == ASSUME NEW s, Listing(s) PROVE Cardinality(Range(s)) = Len(s) /\ Range(s) \subseteq Domain
<1>1. s \in Seq(Domain) /\ Len(s) \in Nat /\ DOMAIN s = 1 .. Len(s)
  BY DEF Listing
<1>2. s \in [1 .. Len(s) -> Range(s)] /\ Range(s) \subseteq Domain
  BY <1>1 DEF Range
<1>3. s \in Bijection(1 .. Len(s), Range(s))
  BY <1>1, <1>2 DEF Listing, Distinct, Bijection, Injection, Surjection, IsInjective, Range
<1> QED BY <1>1, <1>2, <1>3, FS_CountingElements DEF ExistsBijection

(* Blocking one more domain. *)
LEMMA ListingAppend ==
  ASSUME NEW s, Listing(s), NEW d \in Domain, d \notin Range(s)
  PROVE  /\ Listing(Append(s, d)) /\ Append(s, d) # <<>>
         /\ Range(Append(s, d)) = Range(s) \cup {d}
<1> DEFINE t == Append(s, d)
<1>1. s \in Seq(Domain) /\ Len(s) \in Nat /\ DOMAIN s = 1 .. Len(s)
  BY DEF Listing
<1>2. /\ t \in Seq(Domain) /\ DOMAIN t = 1 .. Len(s) + 1 /\ t[Len(s) + 1] = d /\ t # <<>>
      /\ \A i \in 1 .. Len(s) : t[i] = s[i] /\ i \in 1 .. Len(s) + 1
  BY <1>1
<1>3. \A i \in 1 .. Len(s) : s[i] # d
  BY <1>1 DEF Range
<1>4. \A i \in 1 .. Len(s) + 1 : i = Len(s) + 1 \/ i \in 1 .. Len(s)
  BY <1>1
<1> HIDE DEF t
<1>5. Distinct(t)
  BY <1>1, <1>2, <1>3, <1>4 DEF Listing, Distinct
<1>6. Range(t) = Range(s) \cup {d}
  <2>1. ASSUME NEW x \in Range(t) PROVE x \in Range(s) \cup {d}
    BY <1>1, <1>2, <1>4 DEF Range
  <2>2. Range(s) \subseteq Range(t)
    BY <1>1, <1>2 DEF Range
  <2>3. d \in Range(t)
    <3>1. Len(s) + 1 \in 1 .. Len(s) + 1
      BY <1>1
    <3> QED BY <1>2, <3>1 DEF Range
  <2> QED BY <2>1, <2>2, <2>3
<1> QED BY <1>2, <1>5, <1>6 DEF t, Listing

(* Unblocking one of the domains. *)
LEMMA ListingRemove ==
  ASSUME NEW s, Listing(s), NEW d, d \in Range(s)
  PROVE  Listing(RemoveFirst(s, d)) /\ Range(RemoveFirst(s, d)) = Range(s) \ {d}
<1>1. s \in Seq(Domain) /\ Len(s) \in Nat /\ DOMAIN s = 1 .. Len(s)
  BY DEF Listing
<1>2. PICK k \in 1 .. Len(s) : s[k] = d
  BY <1>1 DEF Range
<1>3. \A i \in 1 .. Len(s) : s[i] = d => i = k
  BY <1>1, <1>2 DEF Listing, Distinct
<1> DEFINE t == RemoveAt(s, k)
<1>4. RemoveFirst(s, d) = t
  <2>1. {i \in 1 .. Len(s) : s[i] = d} = {k}
    BY <1>2, <1>3
  <2>2. Min({k}) = k
    BY DEF Min
  <2>3. SelectInSeq(s, LAMBDA v : v = d) = k
    BY <2>1, <2>2 DEF SelectInSeq
  <2> QED BY <1>2, <2>3 DEF RemoveFirst
<1>5. /\ t \in Seq(Domain) /\ Len(t) = Len(s) - 1
      /\ \A i \in 1 .. Len(t) : t[i] = IF i < k THEN s[i] ELSE s[i + 1]
  BY <1>1, <1>2, RemoveAtFacts
<1> HIDE DEF t
<1>6. Len(t) \in Nat /\ DOMAIN t = 1 .. Len(t)
  BY <1>1, <1>2, <1>5
<1>7. \A i \in 1 .. Len(t) : LET j == IF i < k THEN i ELSE i + 1 IN j \in 1 .. Len(s) /\ j # k /\ t[i] = s[j]
  BY <1>1, <1>2, <1>5
<1>8. Distinct(t)
  <2> SUFFICES ASSUME NEW i \in 1 .. Len(t), NEW j \in 1 .. Len(t), t[i] = t[j] PROVE i = j
    BY <1>6 DEF Distinct
  <2>1. (IF i < k THEN i ELSE i + 1) = (IF j < k THEN j ELSE j + 1)
    BY <1>1, <1>7 DEF Listing, Distinct
  <2> QED BY <1>2, <2>1
<1>9. Range(t) = Range(s) \ {d}
  <2>1. ASSUME NEW x \in Range(t) PROVE x \in Range(s) \ {d}
    BY <1>1, <1>3, <1>6, <1>7 DEF Range
  <2>2. ASSUME NEW x \in Range(s) \ {d} PROVE x \in Range(t)
    <3>1. PICK j \in 1 .. Len(s) : s[j] = x /\ j # k
      BY <1>1, <1>2 DEF Range
    <3>2. CASE j < k
      <4>1. j \in 1 .. Len(t) /\ t[j] = s[j]
        BY <1>1, <1>2, <1>5, <3>1, <3>2
      <4> QED BY <1>6, <3>1, <4>1 DEF Range
    <3>3. CASE j > k
      <4>1. j - 1 \in 1 .. Len(t) /\ ~(j - 1 < k) /\ (j - 1) + 1 = j
        BY <1>1, <1>2, <1>5, <3>1, <3>3
      <4> QED BY <1>5, <1>6, <3>1, <4>1 DEF Range
    <3> QED BY <1>2, <3>1, <3>2, <3>3
  <2> QED BY <2>1, <2>2
<1> QED BY <1>4, <1>5, <1>8, <1>9 DEF Listing

(* The initial states satisfy the invariant. *)
LEMMA SitesInitInv == SitesInit => SitesInv
<1> SUFFICES ASSUME SitesInit PROVE SitesInv
  OBVIOUS
<1>1. PICK o \in BOOLEAN : file = [before |-> <<<<1>>>>, open |-> o, section |-> Absent, after |-> <<>>]
  BY DEF SitesInit, EmptyFile
<1>2. command = NoCommand /\ written = 1 /\ asked = {} /\ torn = FALSE /\ glued = FALSE
  BY DEF SitesInit
<1>3. FilesTyped
  BY <1>1, <1>2 DEF FilesTyped, IsFile, NoCommand
<1>4. Answering
  <2>1. Range(Blocked(file)) = {}
    BY <1>1 DEF Blocked, Range
  <2> QED BY <1>2, <2>1 DEF Answering, AnswerOf, NoCommand
<1>5. UserFile
  <2>1. <<1>> \in Seq(Nat)
    OBVIOUS
  <2>2. file.before \in Seq(Seq(Nat)) /\ file.after = <<>> /\ file.after \in Seq(Seq(Nat))
    BY <1>1, <2>1
  <2>3. file.before \o file.after = file.before
    BY <2>2
  <2>4. file.before = Lines
    BY <1>1, <1>2 DEF Lines
  <2> QED BY <1>2, <2>2, <2>3, <2>4 DEF UserFile, NoCommand
<1>6. SitesScalars
  <2>1. torn \in BOOLEAN /\ glued \in BOOLEAN
    BY <1>2, Zenon
  <2>2. command.action = "block" /\ command.domain = Absent
    BY <1>2 DEF NoCommand
  <2>3. written \in 0 .. MaxLines /\ asked \subseteq Domain
    BY <1>2, SitesAssumption
  <2> QED BY <2>1, <2>2, <2>3 DEF SitesScalars
<1> QED BY <1>3, <1>4, <1>5, <1>6 DEF SitesInv

(* The user appends a line. *)
LEMMA AppendsStep == ASSUME SitesInv, UserAppends PROVE SitesInv'
<1>0. /\ FilesTyped /\ IsFile(file) /\ written \in Nat /\ written' = written + 1 /\ written' \in 0 .. MaxLines
      /\ UNCHANGED <<command, asked>>
      /\ glued' = (glued \/ file.open) /\ torn' = (torn \/ command.pc = "write")
  BY SitesAssumption DEF UserAppends, SitesInv, FilesTyped, SitesScalars
<1>1. IsFile(file') /\ file'.section = file.section
  <2>1. \E b, a : \E o \in {file.open, FALSE} :
          file' = [before |-> b, open |-> o, section |-> file.section, after |-> a]
    <3>1. CASE file' = [file EXCEPT !.before = Append(@, <<written'>>)]
      BY <1>0, <3>1 DEF IsFile
    <3>2. CASE file' = [file EXCEPT !.before = Append(Front(@), Append(Last(@), written')), !.open = FALSE]
      BY <1>0, <3>2 DEF IsFile
    <3>3. CASE file' = [file EXCEPT !.after = Append(@, <<written'>>)]
      BY <1>0, <3>3 DEF IsFile
    <3> QED BY <3>1, <3>2, <3>3 DEF UserAppends
  <2>2. PICK b, a : \E o \in {file.open, FALSE} :
          file' = [before |-> b, open |-> o, section |-> file.section, after |-> a]
    BY <2>1
  <2>3. PICK o \in {file.open, FALSE} : file' = [before |-> b, open |-> o, section |-> file.section, after |-> a]
    BY <2>2
  <2>4. o \in BOOLEAN
    BY <1>0 DEF IsFile
  <2> QED BY <1>0, <2>3, <2>4 DEF IsFile
<1>2. FilesTyped' /\ Answering' /\ SitesScalars'
  <2>1. glued' \in BOOLEAN /\ torn' \in BOOLEAN
    BY <1>0, Zenon DEF IsFile, SitesInv, SitesScalars
  <2>2. Blocked(file)' = Blocked(file)
    BY <1>1 DEF Blocked
  <2> QED BY <1>0, <1>1, <2>1, <2>2 DEF SitesInv, FilesTyped, Answering, AnswerOf, SitesScalars
<1>3. UserFile'
  <2> SUFFICES ASSUME ~torn', ~glued' PROVE UserFile'
    BY DEF UserFile
  <2>1. ~torn /\ ~glued /\ ~file.open /\ command.pc # "write"
    BY <1>0, Zenon
  <2>2. /\ file.before \in Seq(Seq(Nat)) /\ file.after \in Seq(Seq(Nat)) /\ file.before \o file.after = Lines
        /\ file.section = Absent => file.after = <<>>
    BY <2>1 DEF SitesInv, UserFile
  <2>3. <<written'>> \in Seq(Nat)
    BY <1>0
  <2>4. Append(Lines, <<written'>>) = Lines'
    <3>1. Lines \in Seq(Seq(Nat)) /\ Len(Lines) = written
      BY <1>0 DEF Lines
    <3>2. /\ Len(Append(Lines, <<written'>>)) = written + 1 /\ Append(Lines, <<written'>>) \in Seq(Seq(Nat))
          /\ \A i \in 1 .. written : Append(Lines, <<written'>>)[i] = <<i>>
          /\ Append(Lines, <<written'>>)[written + 1] = <<written'>>
      BY <1>0, <2>3, <3>1, AppendProperties DEF Lines
    <3>3. Append(Lines, <<written'>>) = [i \in 1 .. written + 1 |-> <<i>>]
      BY <1>0, <3>2
    <3> QED BY <1>0, <3>3 DEF Lines
  <2>5. CASE file.section = Absent /\ file' = [file EXCEPT !.before = Append(@, <<written'>>)]
    <3>1. file'.before = Append(file.before, <<written'>>) /\ file'.after = <<>>
      BY <1>0, <2>2, <2>5 DEF IsFile
    <3>2. file.before = Lines /\ file'.before \in Seq(Seq(Nat)) /\ file'.after \in Seq(Seq(Nat))
      <4>1. file.before \o <<>> = file.before /\ Append(file.before, <<written'>>) \in Seq(Seq(Nat))
        BY <2>2, <2>3
      <4> QED BY <2>2, <2>5, <3>1, <4>1
    <3>3. file'.before \o file'.after = file'.before
      BY <3>1, <3>2
    <3> QED BY <1>0, <2>1, <2>4, <3>1, <3>2, <3>3 DEF UserFile
  <2>6. CASE file.section # Absent /\ file' = [file EXCEPT !.after = Append(@, <<written'>>)]
    <3>1. /\ file'.before = file.before /\ file'.after = Append(file.after, <<written'>>)
          /\ file'.section # Absent /\ file'.open = file.open
      BY <1>0, <2>6 DEF IsFile
    <3>2. file'.before \in Seq(Seq(Nat)) /\ file'.after \in Seq(Seq(Nat))
      BY <2>2, <2>3, <3>1
    <3>3. file.before \o Append(file.after, <<written'>>) = Append(file.before \o file.after, <<written'>>)
      <4> DEFINE Line == Seq(Nat)
      <4>1. <<written'>> \in Line /\ file.before \in Seq(Line) /\ file.after \in Seq(Line)
        BY <2>2, <2>3
      <4> HIDE DEF Line
      <4>2. \A s, t \in Seq(Line) : \A e \in Line : s \o Append(t, e) = Append(s \o t, e)
        BY ConcatAppend
      <4> QED BY <4>1, <4>2
    <3>4. file'.before \o file'.after = Lines'
      BY <2>2, <2>4, <3>1, <3>3
    <3> QED BY <1>0, <2>1, <3>1, <3>2, <3>4 DEF UserFile
  <2> QED BY <2>1, <2>5, <2>6 DEF UserAppends
<1> QED BY <1>2, <1>3 DEF SitesInv

(* A command is answered at once, or begins. *)
LEMMA BlockStep == ASSUME SitesInv, NEW d \in Domain, Block(d) \/ Unblock(d) PROVE SitesInv'
<1>0. command.pc = "idle" /\ FilesTyped /\ asked = Range(Blocked(file)) /\ UNCHANGED <<file, written, torn, glued>>
  BY DEF Block, Unblock, SitesInv, Answering, AnswerOf
<1>1. asked' \subseteq Domain
  BY DEF Block, Unblock, SitesInv, SitesScalars
<1>2. CASE command' = command /\ asked' = asked
  BY <1>0, <1>2 DEF SitesInv, FilesTyped, Answering, AnswerOf, UserFile, Lines, SitesScalars
<1>3. ASSUME NEW a \in {"block", "unblock"}, command' = Begun(a, d), d \in Range(Blocked(file)) <=> a = "unblock",
             asked' = IF a = "block" THEN asked \cup {d} ELSE asked \ {d}
      PROVE  SitesInv'
  <2>1. command'.pc = "write" /\ command'.action = a /\ command'.domain = d /\ command'.read = file
    BY <1>3 DEF Begun
  <2>2. FilesTyped' /\ SitesScalars' /\ UserFile'
    BY <1>0, <1>1, <2>1 DEF SitesInv, FilesTyped, SitesScalars, UserFile, Lines
  <2>3. Blocked(file)' = Blocked(file)
    BY <1>0 DEF Blocked
  <2>4. Answering'
    BY <1>0, <1>3, <2>1, <2>3 DEF Answering, AnswerOf
  <2> QED BY <2>2, <2>4 DEF SitesInv
<1>4. \/ command' = command /\ asked' = asked
      \/ \E a \in {"block", "unblock"} :
           /\ command' = Begun(a, d) /\ (d \in Range(Blocked(file)) <=> a = "unblock")
           /\ asked' = IF a = "block" THEN asked \cup {d} ELSE asked \ {d}
  BY <1>0 DEF Block, Unblock
<1> QED BY <1>2, <1>3, <1>4

(* What the handler writes: the section as the command has changed it, after the *)
(* user's lines.                                                                 *)
LEMMA WriteStep == ASSUME SitesInv, Write PROVE SitesInv'
<1> DEFINE r == command.read
           cut == WithoutSection(r)
           blocked == Blocked(r)
<1>0. /\ command.pc = "write" /\ command' = NoCommand /\ file' = [cut EXCEPT !.section = NewSection(blocked)]
      /\ UNCHANGED <<written, asked, torn, glued>>
      /\ FilesTyped /\ IsFile(r) /\ r.section = file.section /\ command.domain \in Domain
      /\ command.action \in {"block", "unblock"}
  BY DEF Write, SitesInv, FilesTyped
<1>1. command'.pc = "idle" /\ command'.action = "block" /\ command'.domain = Absent
  BY <1>0 DEF NoCommand
<1>2. /\ cut = [before |-> cut.before, open |-> cut.open, section |-> Absent, after |-> cut.after]
      /\ cut.open \in BOOLEAN
  BY <1>0 DEF WithoutSection, IsFile
<1>3. /\ file'.before = cut.before /\ file'.open = cut.open /\ file'.section = NewSection(blocked)
      /\ file'.after = cut.after
      /\ file' = [before |-> cut.before, open |-> cut.open, section |-> NewSection(blocked), after |-> cut.after]
  <2> HIDE DEF cut
  <2> QED BY <1>0, <1>2
<1>4. blocked = Blocked(file) /\ Listing(blocked)
  <2>1. <<>> \in Seq(Domain) /\ DOMAIN <<>> = {}
    OBVIOUS
  <2>2. Listing(<<>>)
    BY <2>1 DEF Listing, Distinct
  <2> QED BY <1>0, <2>2 DEF Blocked, IsFile
<1>5. /\ file'.section = Absent \/ Listing(file'.section)
      /\ Range(Blocked(file')) = asked
  <2>1. \A s : Listing(s) => s # Absent /\ Listing(<<>>) /\ Range(<<>>) = {}
    BY SitesAssumption DEF Listing, Distinct, Range
  <2>2. CASE command.action = "block"
    <3>1. command.domain \notin Range(blocked) /\ asked = Range(blocked) \cup {command.domain}
      BY <1>0, <1>4, <2>2 DEF SitesInv, Answering, AnswerOf
    <3>2. file'.section = Append(blocked, command.domain) /\ Listing(file'.section)
      <4>1. Listing(Append(blocked, command.domain)) /\ Append(blocked, command.domain) # <<>>
        BY <1>0, <1>4, <3>1, ListingAppend
      <4> QED BY <1>3, <2>2, <4>1 DEF NewSection
    <3>3. Blocked(file') = file'.section
      BY <2>1, <3>2 DEF Blocked
    <3>4. Range(Append(blocked, command.domain)) = Range(blocked) \cup {command.domain}
      BY <1>0, <1>4, <3>1, ListingAppend
    <3> QED BY <3>1, <3>2, <3>3, <3>4
  <2>3. CASE command.action = "unblock"
    <3>1. command.domain \in Range(blocked) /\ asked = Range(blocked) \ {command.domain}
      BY <1>0, <1>4, <2>3 DEF SitesInv, Answering, AnswerOf
    <3>2. /\ Listing(RemoveFirst(blocked, command.domain))
          /\ Range(RemoveFirst(blocked, command.domain)) = asked
      BY <1>4, <3>1, ListingRemove
    <3>3. file'.section = IF RemoveFirst(blocked, command.domain) = <<>> THEN Absent
                          ELSE RemoveFirst(blocked, command.domain)
      BY <1>3, <2>3 DEF NewSection
    <3>4. CASE RemoveFirst(blocked, command.domain) = <<>>
      <4>1. file'.section = Absent /\ asked = {}
        BY <2>1, <3>2, <3>3, <3>4
      <4>2. Range(Blocked(file')) = {}
        BY <2>1, <3>2, <4>1 DEF Blocked
      <4> QED BY <4>1, <4>2
    <3>5. CASE RemoveFirst(blocked, command.domain) # <<>>
      <4>1. file'.section = RemoveFirst(blocked, command.domain)
        BY <3>3, <3>5
      <4>2. Blocked(file') = file'.section
        BY <2>1, <3>2, <4>1 DEF Blocked
      <4> QED BY <3>2, <4>1, <4>2
    <3> QED BY <3>4, <3>5
  <2> QED BY <1>0, <2>2, <2>3
<1>6. FilesTyped' /\ Answering' /\ SitesScalars'
  <2>1. IsFile(file')
    BY <1>2, <1>3, <1>5 DEF IsFile
  <2>2. Blocked(file)' = Blocked(file')
    BY DEF Blocked
  <2> QED BY <1>0, <1>1, <1>5, <2>1, <2>2 DEF SitesInv, FilesTyped, Answering, AnswerOf, SitesScalars
<1>7. UserFile'
  <2> SUFFICES ASSUME ~torn, ~glued PROVE UserFile'
    BY <1>0 DEF UserFile
  <2>1. /\ r = file /\ file.before \in Seq(Seq(Nat)) /\ file.after \in Seq(Seq(Nat))
        /\ file.before \o file.after = Lines /\ (file.section = Absent \/ file.open => file.after = <<>>)
    BY <1>0 DEF SitesInv, UserFile
  <2>2. cut.after = <<>> /\ cut.before = file.before \o file.after
    <3>1. CASE file.after = <<>>
      <4>1. cut = [file EXCEPT !.section = Absent]
        BY <2>1, <3>1 DEF WithoutSection
      <4>2. cut.after = file.after /\ cut.before = file.before
        BY <1>0, <2>1, <4>1 DEF IsFile
      <4> QED BY <2>1, <3>1, <4>2
    <3>2. CASE file.after # <<>>
      BY <2>1, <3>2 DEF WithoutSection
    <3> QED BY <3>1, <3>2
  <2>3. Lines \in Seq(Seq(Nat)) /\ <<>> \in Seq(Seq(Nat)) /\ Lines \o <<>> = Lines
    <3>1. Lines \in Seq(Seq(Nat))
      BY <2>1, ConcatProperties
    <3> QED BY <3>1
  <2>4. file'.before = Lines /\ file'.after = <<>>
    BY <1>3, <2>1, <2>2
  <2> QED BY <1>0, <1>1, <2>3, <2>4 DEF UserFile, Lines
<1> QED BY <1>6, <1>7 DEF SitesInv

(* A write is denied: the command is answered with an error. *)
LEMMA DeniedStep == ASSUME SitesInv, WriteDenied PROVE SitesInv'
<1>0. /\ command.pc = "write" /\ command' = NoCommand /\ UNCHANGED <<file, written, torn, glued>>
      /\ asked' = IF command.action = "block" THEN asked \ {command.domain} ELSE asked \cup {command.domain}
      /\ command.domain \in Domain /\ command.action \in {"block", "unblock"} /\ FilesTyped
  BY DEF WriteDenied, SitesInv, FilesTyped
<1>1. command'.pc = "idle" /\ command'.action = "block" /\ command'.domain = Absent
  BY <1>0 DEF NoCommand
<1>2. asked' = Range(Blocked(file))
  BY <1>0 DEF SitesInv, Answering, AnswerOf
<1>3. Blocked(file)' = Blocked(file)
  BY <1>0 DEF Blocked
<1> QED BY <1>0, <1>1, <1>2, <1>3 DEF SitesInv, FilesTyped, Answering, AnswerOf, UserFile, Lines, SitesScalars

(* The process is killed while it writes. *)
LEMMA KilledStep == ASSUME SitesInv, Killed PROVE SitesInv'
<1>1. /\ command' = NoCommand /\ file' = EmptyFile /\ asked' = {} /\ torn' = TRUE /\ UNCHANGED <<written, glued>>
  BY DEF Killed
<1>2. command'.pc = "idle" /\ command'.action = "block" /\ command'.domain = Absent
  BY <1>1 DEF NoCommand
<1>3. IsFile(file') /\ file'.section = Absent
  BY <1>1 DEF IsFile, EmptyFile
<1>4. Range(Blocked(file)') = {}
  BY <1>3 DEF Blocked, Range
<1> QED BY <1>1, <1>2, <1>3, <1>4 DEF SitesInv, FilesTyped, Answering, AnswerOf, UserFile, SitesScalars

(* Every step keeps the invariant. *)
LEMMA SitesInductive == SitesInv /\ [SitesNext]_sitesVars => SitesInv'
<1> SUFFICES ASSUME SitesInv, [SitesNext]_sitesVars PROVE SitesInv'
  OBVIOUS
<1>1. CASE UNCHANGED sitesVars
  <2>1. UNCHANGED <<file, command, written, asked, torn, glued>>
    BY <1>1 DEF sitesVars
  <2>2. Blocked(file)' = Blocked(file)
    BY <2>1 DEF Blocked
  <2> QED BY <2>1, <2>2 DEF SitesInv, FilesTyped, Answering, AnswerOf, UserFile, Lines, SitesScalars
<1>2. CASE SitesNext
  BY <1>2, AppendsStep, BlockStep, WriteStep, DeniedStep, KilledStep DEF SitesNext
<1> QED BY <1>1, <1>2

LEMMA SitesInvGives == SitesInv => SitesTypeOK /\ HostsFileKept
<1> SUFFICES ASSUME SitesInv PROVE SitesTypeOK /\ HostsFileKept
  OBVIOUS
<1>1. Listing(Blocked(file))
  <2>1. Listing(<<>>)
    BY DEF Listing, Distinct
  <2> QED BY <2>1 DEF SitesInv, FilesTyped, IsFile, Blocked
<1>2. SectionAsAnswered
  BY <1>1, ListingCounts DEF SitesInv, Answering, AnswerOf, SectionAsAnswered
<1>3. UserLinesKept
  BY DEF SitesInv, UserFile, UserLinesKept, Lines
<1>4. SitesTypeOK
  <2>1. file.section = Absent \/ Range(file.section) \subseteq Domain
    BY ListingCounts DEF SitesInv, FilesTyped, IsFile
  <2> QED BY <2>1 DEF SitesInv, FilesTyped, IsFile, SitesScalars, SitesTypeOK
<1> QED BY <1>2, <1>3, <1>4 DEF HostsFileKept

(* After any commands, denied writes and edits, the section is the domains that *)
(* the portal was told are blocked, each once, and the user's lines are all     *)
(* there in their order, unless a kill, a save in between or an open end came   *)
(* upon them.                                                                   *)
THEOREM HostsFileKeptHolds == SitesSpec => []HostsFileKept
BY SitesInitInv, SitesInductive, SitesInvGives, PTL DEF SitesSpec

(* The variables stay in their sets: the section names domains only. *)
THEOREM SitesTypeCorrect == SitesSpec => []SitesTypeOK
BY SitesInitInv, SitesInductive, SitesInvGives, PTL DEF SitesSpec
=============================================================================
