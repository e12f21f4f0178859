------------------------------ MODULE BlockedSites ------------------------------
(***************************************************************************)
(* BLOCK_WEBSITE and UNBLOCK_WEBSITE: the portal's section of the hosts    *)
(* file between two marker lines, taken out by a regular expression and    *)
(* written anew at the end of the file.  A handler has no await, but the   *)
(* file also belongs to the user, who may save it between the handler's    *)
(* reading and its writing, and the process may be killed while it writes. *)
(***************************************************************************)
EXTENDS Integers, Sequences, SequencesExt, FiniteSets, Functions

CONSTANTS Domain,    \* bound: the domains the portal names
          MaxLines,  \* bound: the user's lines are 1 .. MaxLines
          Absent     \* no section

ASSUME SitesAssumption == MaxLines \in Nat \ {0} /\ Absent \notin Seq(Domain)

VARIABLES
  file,     \* the hosts file
  command,  \* the handler that runs: its next step, its domain and what it read
  written,  \* lines the user has written
  \* History, which no action reads:
  asked,    \* domains whose BLOCK was answered last, and not an UNBLOCK
  torn,     \* a kill left the file empty, or a save came between read and write
  glued     \* the file was open-ended under a section, and the user appended to it

sitesVars == <<file, command, written, asked, torn, glued>>

\* The user's lines before and after the section.  A line is the sequence of what
\* was written into it; open: the last line before the section, or of the file
\* without one, has no newline.
NoCommand == [pc |-> "idle", action |-> "block", domain |-> Absent, read |-> <<>>]
EmptyFile == [before |-> <<>>, open |-> FALSE, section |-> Absent, after |-> <<>>]

SitesInit ==
  /\ \E o \in BOOLEAN : file = [EmptyFile EXCEPT !.before = <<<<1>>>>, !.open = o]
  /\ command = NoCommand /\ written = 1 /\ asked = {} /\ torn = FALSE /\ glued = FALSE

-----------------------------------------------------------------------------
(* The user's editor. *)

\* A line is appended at the end of the file.
UserAppends ==
  /\ written < MaxLines /\ written' = written + 1
  /\ \/ /\ file.section = Absent /\ ~file.open
        /\ file' = [file EXCEPT !.before = Append(@, <<written'>>)]
     \/ /\ file.section = Absent /\ file.open
        /\ file' = [file EXCEPT !.before = Append(Front(@), Append(Last(@), written')), !.open = FALSE]
     \/ file.section # Absent /\ file' = [file EXCEPT !.after = Append(@, <<written'>>)]
  /\ glued' = (glued \/ file.open) /\ torn' = (torn \/ command.pc = "write")
  /\ UNCHANGED <<command, asked>>

-----------------------------------------------------------------------------
(* The handlers. *)

\* _get_bosowa_blocked
Blocked(f) == IF f.section = Absent THEN <<>> ELSE f.section

\* Faulty: all that follows the first marker goes with the section.
WithoutSectionAndRest(f) == [f EXCEPT !.section = Absent, !.after = <<>>]

\* re.sub with '\n?' at both ends: what stood before and after the section meets,
\* and where the last line before it has no newline the two lines become one.
WithoutSection(f) ==
  IF f.section = Absent \/ f.after = <<>> THEN [f EXCEPT !.section = Absent]
  ELSE [before  |-> IF f.open THEN Front(f.before) \o <<Last(f.before) \o Head(f.after)>> \o Tail(f.after)
                    ELSE f.before \o f.after,
        open    |-> FALSE, section |-> Absent, after |-> <<>>]

Begun(a, d) == [pc |-> "write", action |-> a, domain |-> d, read |-> file]

\* Already blocked, or not blocked: answered without a write.
Block(d) ==
  /\ command.pc = "idle" /\ asked' = asked \cup {d}
  /\ command' = IF d \in Range(Blocked(file)) THEN command ELSE Begun("block", d)
  /\ UNCHANGED <<file, written, torn, glued>>

Unblock(d) ==
  /\ command.pc = "idle" /\ asked' = asked \ {d}
  /\ command' = IF d \in Range(Blocked(file)) THEN Begun("unblock", d) ELSE command
  /\ UNCHANGED <<file, written, torn, glued>>

\* Faulty: the section goes with any domain of it.
NewSectionNone(blocked) ==
  IF command.action = "block" THEN Append(blocked, command.domain) ELSE Absent

\* An empty section is not written.
NewSection(blocked) ==
  LET left == IF command.action = "block" THEN Append(blocked, command.domain)
              ELSE RemoveFirst(blocked, command.domain)
  IN  IF left = <<>> THEN Absent ELSE left

\* _write_hosts, and the DNS cache is flushed.
Write ==
  /\ command.pc = "write" /\ command' = NoCommand
  /\ file' = [WithoutSection(command.read) EXCEPT !.section = NewSection(Blocked(command.read))]
  /\ UNCHANGED <<written, asked, torn, glued>>

\* Without the rights the file stays, and the portal is told.
WriteDenied ==
  /\ command.pc = "write" /\ command' = NoCommand
  /\ asked' = IF command.action = "block" THEN asked \ {command.domain} ELSE asked \cup {command.domain}
  /\ UNCHANGED <<file, written, torn, glued>>

\* Killed with the file opened for writing and nothing written.
Killed ==
  /\ command.pc = "write" /\ command' = NoCommand
  /\ file' = EmptyFile /\ asked' = {} /\ torn' = TRUE
  /\ UNCHANGED <<written, glued>>

SitesNext ==
  \/ UserAppends \/ Write \/ WriteDenied \/ Killed
  \/ \E d \in Domain : Block(d) \/ Unblock(d)

SitesSpec == SitesInit /\ [][SitesNext]_sitesVars

-----------------------------------------------------------------------------
(* Properties. *)

SitesTypeOK ==
  /\ file.section = Absent \/ Range(file.section) \subseteq Domain
  /\ file.open \in BOOLEAN /\ command.pc \in {"idle", "write"}
  /\ command.action \in {"block", "unblock"} /\ command.domain \in Domain \cup {Absent}
  /\ written \in 0 .. MaxLines /\ asked \subseteq Domain
  /\ torn \in BOOLEAN /\ glued \in BOOLEAN

\* The file blocks exactly the domains whose last answered command was a BLOCK,
\* each once: no command of the portal takes another domain's entry with it.
SectionAsAnswered ==
  command.pc = "idle" =>
    Range(Blocked(file)) = asked /\ Len(Blocked(file)) = Cardinality(asked)

\* Nor does a command take a line of the user's from the file, change one or
\* change their order; unless the user saved the file between the handler's
\* reading and writing, the process was killed while it wrote, or a line was
\* appended below the section of a file whose own last line had no newline.
UserLinesKept ==
  ~torn /\ ~glued => file.before \o file.after = [i \in 1 .. written |-> <<i>>]

\* Both: after any commands and edits the file is the user's lines and the
\* section the portal asked for (website_control.py:74-77, 107-113).
HostsFileKept == SectionAsAnswered /\ UserLinesKept
=============================================================================
