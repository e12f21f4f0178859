------------------------------ MODULE TicketTable ------------------------------
(***************************************************************************)
(* The user's tickets in the tray's two windows, the desktop dialog and    *)
(* the list "Tiket Saya".  Each load is a worker thread; its result comes  *)
(* to the Qt thread through a queue that a timer drains (desktop), or by   *)
(* QTimer.singleShot from the worker (list), which may come late or never  *)
(* (tray_app.py:49-51).  The chat of a ticket is TicketChat's.             *)
(***************************************************************************)
EXTENDS Integers, Sequences, SequencesExt, FiniteSets

CONSTANTS Loader,     \* bound: loads under way, and their results
          MaxTickets  \* bound: the user's tickets are 1 .. MaxTickets

ASSUME TableAssumption == MaxTickets \in Nat

VARIABLES
  tickets,  \* each ticket's status at the portal
  window,   \* the dialog that is open
  load,     \* of each worker: its next step and the answer it got
  inbox,    \* answers under way to the Qt thread, in the order of their putting
  table,    \* what the table shows: a message, or rows
  data,     \* ticket_data_desktop, ticket_data: the tickets last received
  tab,      \* _ticket_tab
  detail,   \* a ticket's dialog is open over the window
  \* History, which no action reads:
  awaited   \* tickets created here and neither listed since nor given up with an error

tableVars == <<tickets, window, load, inbox, table, data, tab, detail, awaited>>

Tickets  == 1 .. MaxTickets
Statuses == {"none", "active", "closed"}
NoData   == [t \in Tickets |-> "none"]
Answers  == [ok : BOOLEAN, list : [Tickets -> Statuses]]
Failure  == [ok |-> FALSE, list |-> NoData]
NotBusy  == [pc |-> "idle", got |-> Failure]

Listed(list) == {t \in Tickets : list[t] # "none"}

TableInit ==
  /\ tickets = NoData
  /\ window = "none" /\ load = [w \in Loader |-> NotBusy] /\ inbox = <<>>
  /\ table = "rows" /\ data = NoData /\ tab = "active" /\ detail = FALSE /\ awaited = {}

\* The portal resolves or closes a ticket.
AdminCloses ==
  /\ \E t \in Listed(tickets) : tickets' = [tickets EXCEPT ![t] = "closed"]
  /\ UNCHANGED <<window, load, inbox, table, data, tab, detail, awaited>>

-----------------------------------------------------------------------------
(* load_tickets, load *)

Starts(w) ==
  /\ load[w].pc = "idle"
  /\ Len(inbox) + Cardinality({v \in Loader : load[v].pc # "idle"}) < Cardinality(Loader)
  /\ load' = [load EXCEPT ![w] = [pc |-> "asking", got |-> Failure]]
  /\ table' = "loading"

\* list_my_tickets: the portal's list of that moment, or what it raised.
Fetch(w) ==
  /\ load[w].pc = "asking"
  /\ \E ok \in BOOLEAN :
       load' = [load EXCEPT ![w] = [pc |-> "put", got |-> IF ok THEN [ok |-> TRUE, list |-> tickets] ELSE Failure]]
  /\ UNCHANGED <<tickets, window, inbox, table, data, tab, detail, awaited>>

\* Faulty: what was raised is logged, and that is all.
PutUnlessFailed(w) ==
  /\ load[w].pc = "put" /\ load' = [load EXCEPT ![w] = NotBusy]
  /\ inbox' = IF load[w].got.ok THEN Append(inbox, load[w].got) ELSE inbox
  /\ UNCHANGED <<tickets, window, table, data, tab, detail, awaited>>

Put(w) ==
  /\ load[w].pc = "put" /\ load' = [load EXCEPT ![w] = NotBusy]
  /\ inbox' = Append(inbox, load[w].got)
  /\ UNCHANGED <<tickets, window, table, data, tab, detail, awaited>>

\* _apply_ticket_result, _populate, _err: an error leaves the data as they are.
Show(answer) ==
  IF answer.ok
  THEN data' = answer.list /\ table' = "rows" /\ awaited' = awaited \ Listed(answer.list)
  ELSE table' = "error" /\ awaited' = {} /\ UNCHANGED data

\* The queue in its order, calls of singleShot in any.
ShowResult(i) ==
  /\ window = "desktop" => i = 1
  /\ Show(inbox[i]) /\ inbox' = RemoveAt(inbox, i)
  /\ UNCHANGED <<tickets, window, load, tab, detail>>

ResultLost(i) ==
  /\ window = "list" /\ inbox' = RemoveAt(inbox, i)
  /\ UNCHANGED <<tickets, window, load, table, data, tab, detail, awaited>>

-----------------------------------------------------------------------------
(* The windows. *)

\* A new window has its own table and data, and loads at once.
OpenWindow(w) ==
  /\ window = "none" /\ window' \in {"desktop", "list"}
  /\ Starts(w) /\ data' = NoData /\ tab' = "active"
  /\ UNCHANGED <<tickets, inbox, detail, awaited>>

\* What is under way belongs to a window that nobody sees any more.
CloseWindow ==
  /\ window # "none" /\ ~detail /\ window' = "none"
  /\ load' = [w \in Loader |-> NotBusy] /\ inbox' = <<>> /\ table' = "rows" /\ data' = NoData
  /\ tab' = "active" /\ awaited' = {}
  /\ UNCHANGED <<tickets, detail>>

Refresh(w) ==
  /\ window # "none" /\ ~detail /\ Starts(w)
  /\ UNCHANGED <<tickets, window, inbox, data, tab, detail, awaited>>

\* _switch_ticket_tab renders what there is, over any message.
SwitchTab ==
  /\ window = "desktop" /\ ~detail /\ tab' \in {"active", "closed"} /\ table' = "rows"
  /\ UNCHANGED <<tickets, window, load, inbox, data, detail, awaited>>

\* render_ticket_table
Visible == {t \in Tickets : data[t] = tab \/ (window = "list" /\ data[t] # "none")}

\* A click on a row, that of a message too, opens the ticket that was there.
OpenDetail ==
  /\ window # "none" /\ ~detail /\ Visible # {} /\ detail' = TRUE
  /\ UNCHANGED <<tickets, window, load, inbox, table, data, tab, awaited>>

CloseDetail(w) ==
  /\ detail /\ detail' = FALSE /\ Starts(w)
  /\ UNCHANGED <<tickets, window, inbox, data, tab, awaited>>

Created(t) == tickets' = [tickets EXCEPT ![t] = "active"]

\* submit, from the desktop dialog: confirmed, and the list is loaded anew.
Submit(w) ==
  /\ window = "desktop" /\ ~detail
  /\ \E t \in Tickets \ Listed(tickets) : Created(t) /\ awaited' = awaited \cup {t}
  /\ Starts(w)
  /\ UNCHANGED <<window, inbox, data, tab, detail>>

\* From the tray's menu, with no list to load; or an error is shown and the form
\* stays for another try, although the portal has created the ticket.
SubmitAlone ==
  /\ \E t \in Tickets \ Listed(tickets) : Created(t)
  /\ UNCHANGED <<window, load, inbox, table, data, tab, detail, awaited>>

LoaderStep(w) == Fetch(w) \/ Put(w)
Drains == \E i \in DOMAIN inbox : ShowResult(i)

TableNext ==
  \/ AdminCloses \/ CloseWindow \/ SwitchTab \/ OpenDetail \/ SubmitAlone \/ Drains
  \/ \E i \in DOMAIN inbox : ResultLost(i)
  \/ \E w \in Loader :
       LoaderStep(w) \/ OpenWindow(w) \/ Refresh(w) \/ CloseDetail(w) \/ Submit(w)

\* Every request ends by its time limit, and the Qt thread's timer goes on.
TableFairness ==
  /\ \A w \in Loader : WF_tableVars(LoaderStep(w))
  /\ WF_tableVars(Drains)

TableSpec == TableInit /\ [][TableNext]_tableVars /\ TableFairness

-----------------------------------------------------------------------------
(* Properties. *)

TableTypeOK ==
  /\ tickets \in [Tickets -> Statuses] /\ data \in [Tickets -> Statuses]
  /\ window \in {"none", "desktop", "list"} /\ table \in {"loading", "error", "rows"}
  /\ load \in [Loader -> [pc : {"idle", "asking", "put"}, got : Answers]]
  /\ inbox \in Seq(Answers) /\ tab \in {"active", "closed"} /\ detail \in BOOLEAN
  /\ awaited \subseteq Tickets

\* A ticket whose creation the portal has confirmed comes into the desktop
\* dialog's list, or an error is shown, however loads overlap and overtake one
\* another, tabs are switched and tickets opened meanwhile: the queue is "reliable
\* across frozen exe and Qt threads" (tray_app.py:1215).
CreatedIsListed == \A t \in Tickets : t \in awaited ~> t \notin awaited
=============================================================================
