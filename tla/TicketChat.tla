------------------------------- MODULE TicketChat -------------------------------
(***************************************************************************)
(* The chat of one ticket in the tray: the badge poll, a worker thread     *)
(* every 30 s, and the chat dialog, which runs in the Qt thread and shares *)
(* _chat_seen_counts and _unread_ticket_ids with it.  A worker hands its   *)
(* result to the Qt thread by QTimer.singleShot, which may come late or    *)
(* never (tray_app.py:49-51).  Message i is the i-th of the ticket.        *)
(***************************************************************************)
EXTENDS Integers, Sequences, SequencesExt, FiniteSets

CONSTANTS MaxMessages,  \* bound: messages of the ticket
          MaxApplies    \* bound: results under way to the Qt thread

ASSUME ChatAssumption == MaxMessages \in Nat /\ MaxApplies \in Nat \ {0}

VARIABLES
  started,   \* the portal's chatStarted
  messages,  \* how many messages the ticket has
  seen,      \* _chat_seen_counts of the ticket, -1 if it is not there
  badge,     \* the ticket is in _unread_ticket_ids
  poll,      \* the worker that holds _badge_poll_lock: its next step and locals
  applies,   \* snapshots on their way to the Qt thread
  dialog,    \* the chat dialog's closure
  \* History, which no action reads:
  shown,     \* how often the open dialog shows each message
  baseline,  \* the highest count that a poll took for seen at first sight
  viewed,    \* the most messages that a dialog has shown
  raced      \* the chat was closed while a poll or its result was under way

chatVars == <<started, messages, seen, badge, poll, applies, dialog, shown, baseline, viewed, raced>>

Messages == 1 .. MaxMessages
NoPoll   == [pc |-> "idle", unread |-> FALSE, count |-> 0]
NoDialog == [open |-> FALSE, started |-> FALSE, count |-> 0, ids |-> {}]
Nothing  == [i \in Messages |-> 0]

ChatInit ==
  /\ started \in BOOLEAN /\ messages = 0 /\ seen = -1 /\ badge = FALSE
  /\ poll = NoPoll /\ applies = <<>> /\ dialog = NoDialog
  /\ shown = Nothing /\ baseline = -1 /\ viewed = 0 /\ raced = FALSE

AdminWrites ==
  /\ started /\ messages < MaxMessages /\ messages' = messages + 1
  /\ UNCHANGED <<started, seen, badge, poll, applies, dialog, shown, baseline, viewed, raced>>

-----------------------------------------------------------------------------
(* _check, every 30 s; a tick that finds the lock taken does nothing. *)

portal == <<started, messages>>
view   == <<dialog, shown, viewed, raced>>

\* The tickets are listed and the set of unread ones is copied.
PollLists ==
  /\ poll.pc = "idle" /\ Len(applies) < MaxApplies
  /\ poll' = [NoPoll EXCEPT !.pc = IF started THEN "count" ELSE "hand", !.unread = badge]
  /\ UNCHANGED <<portal, seen, badge, applies, baseline, view>>

\* get_messages answers with an empty list when the portal refuses.
PollCounts ==
  /\ poll.pc = "count"
  /\ \E n \in {0, messages} : poll' = [poll EXCEPT !.pc = "compare", !.count = n]
  /\ UNCHANGED <<portal, seen, badge, applies, baseline, view>>

\* What raises ends the check; the lock is released.
PollFails ==
  /\ poll.pc = "count" /\ poll' = NoPoll
  /\ UNCHANGED <<portal, seen, badge, applies, baseline, view>>

PollCompares ==
  /\ poll.pc = "compare"
  /\ poll' = IF seen = -1 THEN [poll EXCEPT !.pc = "baseline"]
             ELSE [poll EXCEPT !.pc = "hand", !.unread = @ \/ poll.count > seen]
  /\ UNCHANGED <<portal, seen, badge, applies, baseline, view>>

\* First sight: what is there counts as seen.
PollBaseline ==
  /\ poll.pc = "baseline" /\ seen' = poll.count
  /\ baseline' = IF poll.count > baseline THEN poll.count ELSE baseline
  /\ poll' = [poll EXCEPT !.pc = "hand"]
  /\ UNCHANGED <<portal, badge, applies, view>>

PollHandsOver ==
  /\ poll.pc = "hand" /\ applies' = Append(applies, poll.unread) /\ poll' = NoPoll
  /\ UNCHANGED <<portal, seen, badge, baseline, view>>

\* _apply, in the Qt thread.
Apply(i) ==
  /\ badge' = applies[i] /\ applies' = RemoveAt(applies, i)
  /\ UNCHANGED <<portal, seen, poll, baseline, view>>

ApplyLost(i) ==
  /\ applies' = RemoveAt(applies, i)
  /\ UNCHANGED <<portal, seen, badge, poll, baseline, view>>

-----------------------------------------------------------------------------
(* The chat dialog; each of its slots blocks the Qt thread to its end. *)

board == <<seen, badge, poll, applies, baseline, viewed, raced>>

\* _load: d with the messages of an answer that are new to it.
Load(d, n) ==
  LET new == (1 .. n) \ d.ids IN
  IF d.started /\ new # {} THEN [d EXCEPT !.ids = @ \cup new, !.count = n] ELSE d

LoadInto(d, s) ==
  \E n \in {0, messages} :
    /\ dialog' = Load(d, n)
    /\ shown' = [i \in Messages |-> s[i] + IF i \in dialog'.ids \ d.ids THEN 1 ELSE 0]

\* The ticket comes from a list that may be older than the chat's start.
Open ==
  /\ ~dialog.open
  /\ \E s \in {FALSE, started} : LoadInto([NoDialog EXCEPT !.open = TRUE, !.started = s], Nothing)
  /\ UNCHANGED <<portal, board>>

\* poll_timer, every 5 s.
Reload == dialog.open /\ LoadInto(dialog, shown) /\ UNCHANGED <<portal, board>>

\* _on_start; the answer may be an error although the portal took the request.
StartChat ==
  /\ dialog.open /\ ~dialog.started
  /\ \/ started' = TRUE /\ LoadInto([dialog EXCEPT !.started = TRUE], shown)
     \/ started' \in {started, TRUE} /\ UNCHANGED <<dialog, shown>>
  /\ UNCHANGED <<messages, board>>

\* Faulty: the id of the answer is not kept.
SendForgetsId ==
  /\ dialog.open /\ dialog.started /\ messages < MaxMessages /\ messages' = messages + 1
  /\ \/ /\ dialog' = [dialog EXCEPT !.count = @ + 1]
        /\ shown' = [shown EXCEPT ![messages'] = @ + 1]
     \/ UNCHANGED <<dialog, shown>>
  /\ UNCHANGED <<started, board>>

\* Faulty: counted whatever the portal answers.
SendCountsAnyway ==
  /\ dialog.open /\ dialog.started /\ messages < MaxMessages
  /\ dialog' = [dialog EXCEPT !.count = @ + 1]
  /\ UNCHANGED <<started, messages, shown, board>>

\* _on_send: the answer's message is shown and counted; without an answer it
\* comes with the next load.
Send ==
  /\ dialog.open /\ dialog.started /\ messages < MaxMessages /\ messages' = messages + 1
  /\ \/ /\ dialog' = [dialog EXCEPT !.count = @ + 1, !.ids = @ \cup {messages'}]
        /\ shown' = [shown EXCEPT ![messages'] = @ + 1]
     \/ UNCHANGED <<dialog, shown>>
  /\ UNCHANGED <<started, board>>

\* Faulty: the ticket stays among the unread ones.
ChatViewedUnread ==
  seen' = dialog.count /\ UNCHANGED badge

\* notify_chat_viewed
ChatViewed ==
  seen' = dialog.count /\ badge' = FALSE

\* _on_close
Close ==
  /\ dialog.open
  /\ IF dialog.started THEN ChatViewed ELSE UNCHANGED <<seen, badge>>
  /\ dialog' = NoDialog /\ shown' = Nothing
  /\ LET all == Cardinality({i \in Messages : shown[i] > 0})
     IN  viewed' = IF all > viewed THEN all ELSE viewed
  /\ raced' = (raced \/ poll.pc # "idle" \/ applies # <<>>)
  /\ UNCHANGED <<portal, poll, applies, baseline>>

\* An exception of get_messages leaves the slot, which ends the process; the
\* watchdog starts it anew.
AgentRestarts ==
  /\ seen' = -1 /\ badge' = FALSE /\ poll' = NoPoll /\ applies' = <<>>
  /\ dialog' = NoDialog /\ shown' = Nothing /\ baseline' = -1 /\ viewed' = 0 /\ raced' = FALSE
  /\ UNCHANGED portal

ChatNext ==
  \/ AdminWrites
  \/ PollLists \/ PollCounts \/ PollFails \/ PollCompares \/ PollBaseline \/ PollHandsOver
  \/ \E i \in DOMAIN applies : Apply(i) \/ ApplyLost(i)
  \/ Open \/ Reload \/ StartChat \/ Send \/ Close \/ AgentRestarts

ChatSpec == ChatInit /\ [][ChatNext]_chatVars

-----------------------------------------------------------------------------
(* Properties. *)

\* With it, "dedup by message ID" (tray_app.py:1685): shown at most once.
ChatTypeOK ==
  /\ started \in BOOLEAN /\ badge \in BOOLEAN /\ raced \in BOOLEAN
  /\ messages \in 0 .. MaxMessages /\ viewed \in 0 .. MaxMessages
  /\ seen \in -1 .. 2 * MaxMessages /\ baseline \in -1 .. MaxMessages
  /\ poll \in [pc : {"idle", "count", "compare", "baseline", "hand"}, unread : BOOLEAN,
               count : 0 .. MaxMessages]
  /\ applies \in Seq(BOOLEAN) /\ Len(applies) <= MaxApplies
  /\ dialog \in [open : BOOLEAN, started : BOOLEAN, count : 0 .. 2 * MaxMessages, ids : SUBSET Messages]
  /\ shown \in [Messages -> {0, 1}]

\* No message passes for seen that no dialog has shown, however sends, failed
\* loads and polls mix: only a poll's first sight counts what nobody opened.
SeenWasShown == seen <= baseline \/ seen <= viewed

\* The badge stands only while the ticket has messages that are not counted as
\* seen: closing the chat takes it down, and it comes back only with a new
\* message, or because a poll that had begun before the chat was closed, or its
\* result, was still under way.
BadgeHonest == badge /\ ~raced => messages > seen
=============================================================================
