---------------------------- MODULE SoftwareInstall ----------------------------
(***************************************************************************)
(* INSTALL_SOFTWARE from the portal's command to its result.  Each command *)
(* is a task of its own; its download and its installer run in worker      *)
(* threads, and the file they use is named after the last part of the URL, *)
(* so that two commands may share it.  A file is the sequence of its       *)
(* chunks, each written by the command it names.                           *)
(***************************************************************************)
EXTENDS Integers, Sequences

CONSTANTS Command,   \* bound: the commands the portal sends
          FileName,  \* bound: names of the URLs' last parts
          Chunks,    \* bound: chunks of an installer
          Hole       \* a chunk that nobody wrote

ASSUME InstallAssumption == Chunks \in Nat \ {0} /\ Hole \notin Command /\ FileName # {}

VARIABLES
  job,     \* of each command: its next step, its file's name, the chunks written
  disk,    \* the files of the temporary directory; <<>> stands for an absent one too
  linked,  \* the socket is connected
  \* History, which no action reads:
  results, \* how many results the portal got for each command
  ran,     \* the content of the file when the installer started
  shares,  \* commands that met another one with the same file name
  lost     \* commands whose result met no connection, or whose agent ended

installVars == <<job, disk, linked, results, ran, shares, lost>>

Steps == {"none", "ask", "write", "ready", "running", "emit", "over"}

InstallInit ==
  /\ job = [c \in Command |-> [pc |-> "none", name |-> CHOOSE n \in FileName : TRUE, pos |-> 0]]
  /\ disk = [n \in FileName |-> <<>>] /\ linked = TRUE
  /\ results = [c \in Command |-> 0] /\ ran = [c \in Command |-> <<>>] /\ shares = {} /\ lost = {}

To(c, pc) == job' = [job EXCEPT ![c].pc = pc]
Fails(c)  == To(c, "emit")

\* Others that work on the file of command c.
Users(c, pcs) == {d \in Command \ {c} : job[d].name = job[c].name /\ job[d].pc \in pcs}

-----------------------------------------------------------------------------
(* handle_install_software *)

\* on_command and dispatch_command: a bad URL is answered at once.
Receive(c) ==
  /\ linked /\ job[c].pc = "none"
  /\ \E n \in FileName, pc \in {"ask", "emit"} :
       /\ job' = [job EXCEPT ![c] = [pc |-> pc, name |-> n, pos |-> 0]]
       /\ LET others == {d \in Command \ {c} : job[d].name = n /\ job[d].pc \notin {"none", "emit", "over"}}
          IN  shares' = IF pc = "ask" /\ others # {} THEN shares \cup {c} \cup others ELSE shares
  /\ UNCHANGED <<disk, linked, results, ran, lost>>

\* Faulty: what a failed command left is kept.
OpenFileKeeps(c) ==
  /\ job[c].pc = "ask"
  /\ job' = [job EXCEPT ![c].pc = "write", ![c].pos = IF Len(disk[job[c].name]) < Chunks THEN Len(disk[job[c].name]) ELSE Chunks]
  /\ UNCHANGED disk
  /\ UNCHANGED <<linked, results, ran, shares, lost>>

\* The answer is good and not too long: the file is emptied.  Windows may refuse
\* while an installer runs from it.
OpenFile(c) ==
  /\ job[c].pc = "ask"
  /\ \/ To(c, "write") /\ disk' = [disk EXCEPT ![job[c].name] = <<>>]
     \/ Users(c, {"running"}) # {} /\ Fails(c) /\ UNCHANGED disk
  /\ UNCHANGED <<linked, results, ran, shares, lost>>

\* At the file's own position, whatever others have made of the file.
Written(content, c, pos) ==
  [i \in 1 .. (IF Len(content) > pos THEN Len(content) ELSE pos + 1) |->
     IF i = pos + 1 THEN c ELSE IF i <= Len(content) THEN content[i] ELSE Hole]

WriteChunk(c) ==
  /\ job[c].pc = "write" /\ job[c].pos < Chunks
  /\ disk' = [disk EXCEPT ![job[c].name] = Written(@, c, job[c].pos)]
  /\ job' = [job EXCEPT ![c].pos = @ + 1]
  /\ UNCHANGED <<linked, results, ran, shares, lost>>

\* Faulty: reported to nobody.
DownloadFailsSilently(c) ==
  /\ job[c].pc \in {"ask", "write"} /\ To(c, "over")
  /\ UNCHANGED <<disk, linked, results, ran, shares, lost>>

\* Refused, too long, or the stream broke; the file stays as it is.
DownloadFails(c) ==
  /\ job[c].pc \in {"ask", "write"} /\ Fails(c)
  /\ UNCHANGED <<disk, linked, results, ran, shares, lost>>

\* Closed; the task goes on when the event loop comes to it.
Downloaded(c) ==
  /\ job[c].pc = "write" /\ job[c].pos = Chunks /\ To(c, "ready")
  /\ UNCHANGED <<disk, linked, results, ran, shares, lost>>

\* Windows starts no program from a file that is open for writing, or gone.
StartInstaller(c) ==
  /\ job[c].pc = "ready"
  /\ IF Users(c, {"write"}) = {} /\ disk[job[c].name] # <<>>
     THEN To(c, "running") /\ ran' = [ran EXCEPT ![c] = disk[job[c].name]]
     ELSE Fails(c) /\ UNCHANGED ran
  /\ UNCHANGED <<disk, linked, results, shares, lost>>

\* With any exit code: the file is unlinked, unless it is in use.
InstallerEnds(c) ==
  /\ job[c].pc = "running" /\ To(c, "emit")
  /\ disk' = IF Users(c, {"write", "running"}) = {} THEN [disk EXCEPT ![job[c].name] = <<>>] ELSE disk
  /\ UNCHANGED <<linked, results, ran, shares, lost>>

\* After 5 minutes, or refused by Windows: the file stays.
InstallerFails(c) ==
  /\ job[c].pc = "running" /\ Fails(c)
  /\ UNCHANGED <<disk, linked, results, ran, shares, lost>>

\* _emit_command_result: without a connection emit raises, which is swallowed.
EmitResult(c) ==
  /\ job[c].pc = "emit" /\ To(c, "over")
  /\ IF linked THEN results' = [results EXCEPT ![c] = @ + 1] /\ UNCHANGED lost
     ELSE lost' = lost \cup {c} /\ UNCHANGED results
  /\ UNCHANGED <<disk, linked, ran, shares>>

LinkChanges ==
  /\ linked' = ~linked
  /\ UNCHANGED <<job, disk, results, ran, shares, lost>>

\* The agent ends with all its tasks; the files stay.
AgentEnds ==
  LET busy == {c \in Command : job[c].pc \notin {"none", "over"}} IN
  /\ busy # {} /\ lost' = lost \cup busy /\ linked' = FALSE
  /\ job' = [c \in Command |-> IF c \in busy THEN [job[c] EXCEPT !.pc = "over"] ELSE job[c]]
  /\ UNCHANGED <<disk, results, ran, shares>>

CommandStep(c) ==
  \/ OpenFile(c) \/ WriteChunk(c) \/ DownloadFails(c) \/ Downloaded(c)
  \/ StartInstaller(c) \/ InstallerEnds(c) \/ InstallerFails(c) \/ EmitResult(c)

InstallNext ==
  \/ LinkChanges \/ AgentEnds
  \/ \E c \in Command : Receive(c) \/ CommandStep(c)

\* Each wait has its limit: 120 s for the next bytes, 500 MB of them, and 5
\* minutes for the installer; then the event loop runs the task.
InstallFairness == \A c \in Command : WF_installVars(CommandStep(c))

InstallSpec == InstallInit /\ [][InstallNext]_installVars /\ InstallFairness

-----------------------------------------------------------------------------
(* Properties. *)

InstallTypeOK ==
  /\ job \in [Command -> [pc : Steps, name : FileName, pos : 0 .. Chunks]]
  /\ \A n \in FileName : disk[n] \in Seq(Command \cup {Hole})
  /\ linked \in BOOLEAN /\ results \in [Command -> Nat] /\ shares \subseteq Command /\ lost \subseteq Command
  /\ \A c \in Command : ran[c] \in Seq(Command \cup {Hole})

\* An installer that is started is, from its first chunk to its last, the one
\* that its own command downloaded: never what an earlier command left under the
\* name, or part of it; unless two commands with the name were under way at a
\* time, which may start the other's installer, a mixture or a part.
RanItsOwn ==
  \A c \in Command \ shares :
    ran[c] # <<>> => ran[c] = [i \in 1 .. Chunks |-> c]

\* However it ends, a command that was taken is answered, once; unless the answer
\* found no connection or the agent ended, and then the portal waits for ever.
Answered ==
  \A c \in Command : job[c].pc = "ask" ~> results[c] = 1 \/ c \in lost
=============================================================================
