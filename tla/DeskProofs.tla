------------------------------ MODULE DeskProofs ------------------------------
(***************************************************************************)
(* Proofs about the windows of the tray and about the parts of a logged-in *)
(* agent together.  TicketChat, for any number of messages: no message is  *)
(* shown twice or taken for seen unseen, and the badge is honest.          *)
(* TicketTable and ServiceLife: types, and that a process posts at most    *)
(* one power-off.  MCDesk: all of its invariants, for all constants.       *)
(***************************************************************************)
EXTENDS MCDesk, HeartbeatProofs, CommandProofs, FiniteSetTheorems, SequenceTheorems, TLAPS

(* TicketChat. *)

DialogRecords == [open : BOOLEAN, started : BOOLEAN, count : 0 .. MaxMessages, ids : SUBSET Messages]
PollSteps == {"idle", "count", "compare", "baseline", "hand"}
PollRecords == [pc : PollSteps, unread : BOOLEAN, count : 0 .. MaxMessages]

\* A dialog d and what it shows, s: messages of the ticket, each once, and no
\* more are counted than are shown.
Fits(d, s) ==
  /\ d \in DialogRecords /\ d.ids \subseteq 1 .. messages /\ d.count <= Cardinality(d.ids)
  /\ s = [i \in Messages |-> IF i \in d.ids THEN 1 ELSE 0]

ChatTyped ==
  /\ started \in BOOLEAN /\ badge \in BOOLEAN /\ raced \in BOOLEAN
  /\ messages \in 0 .. MaxMessages /\ viewed \in 0 .. MaxMessages
  /\ seen \in -1 .. MaxMessages /\ baseline \in -1 .. MaxMessages
  /\ poll \in PollRecords /\ poll.count <= messages
  /\ applies \in Seq(BOOLEAN) /\ Len(applies) <= MaxApplies
  /\ poll.pc # "idle" => Len(applies) < MaxApplies
  /\ poll.pc = "idle" => ~poll.unread

\* A mark of unread, wherever it is: the ticket has been counted, and has more.
Due(mark) == mark => seen >= 0 /\ messages > seen

\* Undisturbed, every mark is due: the badge, the poll's own and those that are
\* on their way; and a poll that is to count the ticket for the first time is the
\* only one to do so.
Marks ==
  ~raced =>
    /\ Due(badge) /\ Due(poll.unread) /\ \A i \in DOMAIN applies : Due(applies[i])
    /\ poll.pc = "baseline" => seen = -1

ChatInv == ChatTyped /\ Fits(dialog, shown) /\ SeenWasShown /\ Marks

(* The messages that a dialog has, m of the ticket's at most. *)
LEMMA CardinalityBound ==
  ASSUME NEW m \in 0 .. MaxMessages, NEW S, S \subseteq 1 .. m
  PROVE  IsFiniteSet(S) /\ Cardinality(S) \in Nat /\ Cardinality(S) <= MaxMessages /\ S \subseteq Messages
<1>1. m \in Nat /\ m <= MaxMessages /\ MaxMessages \in Nat
  BY ChatAssumption
<1>2. IsFiniteSet(1 .. m) /\ Cardinality(1 .. m) = m
  BY <1>1, FS_Interval
<1>3. S \in SUBSET (1 .. m)
  OBVIOUS
<1>4. IsFiniteSet(S) /\ Cardinality(S) <= m
  BY <1>2, <1>3, FS_Subset
<1>5. Cardinality(S) \in Nat
  BY <1>4, FS_CardinalityType
<1>6. S \subseteq Messages
  BY <1>1 DEF Messages
<1> QED BY <1>1, <1>4, <1>5, <1>6

LEMMA IdsFacts ==
  ASSUME NEW S, S \subseteq 1 .. messages, messages \in 0 .. MaxMessages
  PROVE  IsFiniteSet(S) /\ Cardinality(S) \in Nat /\ Cardinality(S) <= MaxMessages /\ S \subseteq Messages
BY CardinalityBound

(* A load shows the messages of its answer, each once. *)
LEMMA LoadFits ==
  ASSUME messages \in 0 .. MaxMessages, NEW d, NEW s, Fits(d, s), LoadInto(d, s), UNCHANGED messages
  PROVE  Fits(dialog, shown)'
<1>1. PICK n \in {0, messages} :
        /\ dialog' = Load(d, n)
        /\ shown' = [i \in Messages |-> s[i] + IF i \in dialog'.ids \ d.ids THEN 1 ELSE 0]
  BY DEF LoadInto
<1>2. n \in 0 .. messages /\ messages \in Nat /\ messages <= MaxMessages /\ MaxMessages \in Nat
  BY <1>1, ChatAssumption
<1> DEFINE new == (1 .. n) \ d.ids
<1>3. /\ d \in DialogRecords /\ d.ids \subseteq 1 .. messages /\ d.count <= Cardinality(d.ids)
      /\ s = [i \in Messages |-> IF i \in d.ids THEN 1 ELSE 0]
  BY DEF Fits
<1>4. /\ dialog' \in DialogRecords /\ d.ids \subseteq dialog'.ids /\ dialog'.ids \subseteq 1 .. messages
      /\ dialog'.count <= Cardinality(dialog'.ids)
  <2>1. CASE dialog' = d
    BY <1>3, <2>1
  <2>2. CASE dialog' = [d EXCEPT !.ids = @ \cup new, !.count = n]
    <3> DEFINE ids == d.ids \cup new
    <3>1. ids \subseteq 1 .. messages /\ 1 .. n \subseteq ids
      BY <1>2, <1>3
    <3>2. /\ IsFiniteSet(ids) /\ ids \in SUBSET Messages
      BY <3>1, IdsFacts
    <3>3. Cardinality(1 .. n) = n /\ Cardinality(1 .. n) <= Cardinality(ids)
      <4>1. n \in Int /\ 1 \in Int /\ (1 > n => n = 0) /\ n - 1 + 1 = n
        BY <1>2
      <4>2. Cardinality(1 .. n) = n
        BY <4>1, FS_Interval
      <4>3. 1 .. n \in SUBSET ids
        BY <3>1
      <4>4. Cardinality(1 .. n) <= Cardinality(ids)
        BY <3>2, <4>3, FS_Subset
      <4> QED BY <4>2, <4>4
    <3>4. n \in 0 .. MaxMessages
      BY <1>2
    <3> HIDE DEF ids, new
    <3>5. dialog' = [d EXCEPT !.ids = ids, !.count = n]
      BY <2>2 DEF ids
    <3>6. dialog' \in DialogRecords /\ dialog'.ids = ids /\ dialog'.count = n
      BY <1>3, <3>2, <3>4, <3>5 DEF DialogRecords
    <3>7. d.ids \subseteq ids
      BY DEF ids
    <3> QED BY <3>1, <3>3, <3>6, <3>7
  <2> QED BY <1>1, <2>1, <2>2 DEF Load
<1>5. shown' = [i \in Messages |-> IF i \in dialog'.ids THEN 1 ELSE 0]
  BY <1>1, <1>3, <1>4
<1> QED BY <1>4, <1>5 DEF Fits

(* A closed dialog, as at the start and after a restart. *)
LEMMA FreshFits == Fits(NoDialog, Nothing)
<1>1. NoDialog.ids = {} /\ NoDialog.count = 0 /\ NoDialog \in DialogRecords
  BY ChatAssumption DEF NoDialog, DialogRecords
<1>2. Cardinality({}) = 0
  BY FS_EmptySet
<1> QED BY <1>1, <1>2 DEF Fits, Nothing

LEMMA ChatInitInv == ChatInit => ChatInv
<1> SUFFICES ASSUME ChatInit PROVE ChatInv
  OBVIOUS
<1>1. /\ started \in BOOLEAN /\ messages = 0 /\ seen = -1 /\ badge = FALSE /\ poll = NoPoll /\ applies = <<>>
      /\ dialog = NoDialog /\ shown = Nothing /\ baseline = -1 /\ viewed = 0 /\ raced = FALSE
  BY DEF ChatInit
<1>2. /\ poll \in PollRecords /\ poll.pc = "idle" /\ poll.unread = FALSE /\ poll.count = 0
      /\ MaxMessages \in Nat /\ MaxApplies \in Nat
  BY <1>1, ChatAssumption DEF NoPoll, PollRecords, PollSteps
<1>3. ChatTyped
  <2>1. badge \in BOOLEAN /\ raced \in BOOLEAN
    BY <1>1, Zenon
  <2>2. applies \in Seq(BOOLEAN) /\ Len(applies) = 0
    BY <1>1
  <2> QED BY <1>1, <1>2, <2>1, <2>2 DEF ChatTyped
<1>4. SeenWasShown /\ Marks
  <2>1. DOMAIN applies = {}
    BY <1>1
  <2> QED BY <1>1, <1>2, <2>1 DEF SeenWasShown, Marks, Due
<1> QED BY <1>1, <1>3, <1>4, FreshFits DEF ChatInv

(* What a poll does before it hands its result over. *)
LEMMA PollStep ==
  ASSUME ChatInv, PollLists \/ PollCounts \/ PollFails \/ PollCompares \/ PollBaseline
  PROVE  ChatInv'
<1>0. /\ ChatTyped /\ SeenWasShown /\ messages \in Nat /\ seen \in Int /\ MaxMessages \in Nat
      /\ poll \in PollRecords /\ poll.count \in Nat /\ poll.count <= messages /\ poll.unread \in BOOLEAN
  BY ChatAssumption DEF ChatInv, ChatTyped, PollRecords
<1>1. UNCHANGED <<started, messages, badge, applies, dialog, shown, viewed, raced>>
  BY DEF PollLists, PollCounts, PollFails, PollCompares, PollBaseline, portal, view
<1>2. Fits(dialog, shown)'
  BY <1>1 DEF ChatInv, Fits
<1>3. CASE PollLists \/ PollCounts \/ PollFails
  <2>1. /\ poll' \in PollRecords /\ poll'.count \in {0, messages, poll.count} /\ UNCHANGED <<seen, baseline>>
        /\ poll'.pc # "baseline" /\ poll'.unread \in {FALSE, badge, poll.unread}
        /\ poll'.pc # "idle" => poll.pc # "idle" \/ Len(applies) < MaxApplies
        /\ poll'.pc = "idle" => ~poll'.unread
    <3>1. CASE PollLists
      <4>1. badge \in BOOLEAN /\ {"count", "hand"} \subseteq PollSteps /\ 0 \in 0 .. MaxMessages
        BY <1>0 DEF ChatTyped, PollSteps
      <4> QED BY <3>1, <4>1 DEF PollLists, NoPoll, PollRecords
    <3>2. CASE PollCounts
      <4>1. 0 \in 0 .. MaxMessages /\ messages \in 0 .. MaxMessages /\ "compare" \in PollSteps
        BY <1>0 DEF ChatTyped, PollSteps
      <4>2. PICK n \in {0, messages} : poll' = [poll EXCEPT !.pc = "compare", !.count = n]
        BY <3>2 DEF PollCounts
      <4>3. n \in 0 .. MaxMessages
        BY <4>1
      <4>4. poll' \in PollRecords /\ poll'.pc = "compare" /\ poll'.unread = poll.unread /\ poll'.count = n
        BY <1>0, <4>1, <4>2, <4>3 DEF PollRecords
      <4>5. UNCHANGED <<seen, baseline>> /\ poll.pc # "idle"
        BY <3>2 DEF PollCounts
      <4> QED BY <4>4, <4>5
    <3>3. CASE PollFails
      BY <1>0, <3>3 DEF PollFails, NoPoll, PollRecords, PollSteps
    <3> QED BY <1>3, <3>1, <3>2, <3>3
  <2>2. ChatTyped' /\ SeenWasShown'
    BY <1>0, <1>1, <2>1 DEF ChatTyped, SeenWasShown
  <2>3. Marks'
    BY <1>1, <2>1 DEF ChatInv, Marks, Due
  <2> QED BY <1>2, <2>2, <2>3 DEF ChatInv
<1>4. CASE PollCompares
  <2>0. poll.pc = "compare" /\ UNCHANGED <<seen, baseline>>
    BY <1>4 DEF PollCompares
  <2>1. CASE seen = -1
    <3>1. poll' = [poll EXCEPT !.pc = "baseline"]
      BY <1>4, <2>1 DEF PollCompares
    <3>2. /\ poll' \in PollRecords /\ poll'.pc = "baseline" /\ poll'.unread = poll.unread
          /\ poll'.count = poll.count
      BY <1>0, <3>1 DEF PollRecords, PollSteps
    <3> QED BY <1>0, <1>1, <1>2, <2>0, <2>1, <3>2 DEF ChatInv, ChatTyped, SeenWasShown, Marks, Due
  <2>2. CASE seen # -1
    <3>1. poll' = [poll EXCEPT !.pc = "hand", !.unread = @ \/ poll.count > seen]
      BY <1>4, <2>2 DEF PollCompares
    <3>2. (poll.unread \/ poll.count > seen) \in BOOLEAN
      BY Zenon
    <3>3. /\ poll' \in PollRecords /\ poll'.pc = "hand" /\ poll'.unread = (poll.unread \/ poll.count > seen)
          /\ poll'.count = poll.count
      <4>1. "hand" \in PollSteps
        BY DEF PollSteps
      <4> QED BY <1>0, <3>1, <3>2, <4>1 DEF PollRecords
    <3>4. Due(poll.unread) => Due(poll'.unread)
      <4>1. poll'.unread => poll.unread \/ poll.count > seen
        BY <3>3, Zenon
      <4>2. seen >= 0
        BY <1>0, <2>2 DEF ChatTyped
      <4> QED BY <1>0, <4>1, <4>2 DEF Due
    <3>5. Marks'
      BY <1>1, <2>0, <3>3, <3>4 DEF ChatInv, Marks, Due
    <3> QED BY <1>0, <1>1, <1>2, <2>0, <3>3, <3>5 DEF ChatInv, ChatTyped, SeenWasShown
  <2> QED BY <2>1, <2>2
<1>5. CASE PollBaseline
  <2>1. /\ poll.pc = "baseline" /\ seen' = poll.count
        /\ baseline' = IF poll.count > baseline THEN poll.count ELSE baseline
        /\ poll' = [poll EXCEPT !.pc = "hand"]
    BY <1>5 DEF PollBaseline
  <2>2. poll' \in PollRecords /\ poll'.pc = "hand" /\ poll'.unread = poll.unread /\ poll'.count = poll.count
    BY <1>0, <2>1 DEF PollRecords, PollSteps
  <2>3. baseline \in -1 .. MaxMessages /\ poll.count \in 0 .. MaxMessages
    BY <1>0 DEF ChatTyped, PollRecords
  <2>4. ChatTyped' /\ SeenWasShown'
    BY <1>0, <1>1, <2>1, <2>2, <2>3 DEF ChatTyped, SeenWasShown
  <2>5. Marks'
    BY <1>1, <2>1, <2>2 DEF ChatInv, Marks, Due
  <2> QED BY <1>2, <2>4, <2>5 DEF ChatInv
<1> QED BY <1>3, <1>4, <1>5

(* A result is on its way to the Qt thread, arrives there, or is lost. *)
LEMMA HandOverStep ==
  ASSUME ChatInv, PollHandsOver \/ \E i \in DOMAIN applies : Apply(i) \/ ApplyLost(i)
  PROVE  ChatInv'
<1>0. /\ ChatTyped /\ applies \in Seq(BOOLEAN) /\ Len(applies) \in Nat /\ DOMAIN applies = 1 .. Len(applies)
      /\ MaxApplies \in Nat
  BY ChatAssumption DEF ChatInv, ChatTyped
<1>1. UNCHANGED <<started, messages, seen, baseline, dialog, shown, viewed, raced>>
  BY DEF PollHandsOver, Apply, ApplyLost, portal, view
<1>2. Fits(dialog, shown)' /\ SeenWasShown'
  BY <1>1 DEF ChatInv, Fits, SeenWasShown
<1>3. CASE PollHandsOver
  <2>1. /\ poll.pc = "hand" /\ applies' = Append(applies, poll.unread) /\ poll' = NoPoll /\ UNCHANGED badge
    BY <1>3 DEF PollHandsOver
  <2>2. poll.unread \in BOOLEAN /\ Len(applies) < MaxApplies
    BY <1>0, <2>1 DEF ChatTyped, PollRecords
  <2>3. /\ applies' \in Seq(BOOLEAN) /\ Len(applies') = Len(applies) + 1 /\ DOMAIN applies' = 1 .. Len(applies) + 1
        /\ \A i \in 1 .. Len(applies) + 1 :
             applies'[i] = poll.unread \/ (i \in 1 .. Len(applies) /\ applies'[i] = applies[i])
    <3>1. /\ applies' \in Seq(BOOLEAN) /\ Len(applies') = Len(applies) + 1
          /\ applies'[Len(applies) + 1] = poll.unread /\ \A i \in 1 .. Len(applies) : applies'[i] = applies[i]
      BY <1>0, <2>1, <2>2, AppendProperties
    <3>2. DOMAIN applies' = 1 .. Len(applies) + 1
      BY <3>1
    <3>3. \A i \in 1 .. Len(applies) + 1 : i = Len(applies) + 1 \/ i \in 1 .. Len(applies)
      BY <1>0
    <3>4. ASSUME NEW i \in 1 .. Len(applies) + 1
          PROVE  (applies'[i] = poll.unread) \/ (i \in 1 .. Len(applies) /\ applies'[i] = applies[i])
      BY <3>1, <3>3
    <3> QED BY <3>1, <3>2, <3>4
  <2>4. poll' \in PollRecords /\ poll'.pc = "idle" /\ poll'.unread = FALSE /\ poll'.count = 0
    BY <2>1, ChatAssumption DEF NoPoll, PollRecords, PollSteps
  <2>5. ChatTyped'
    BY <1>0, <1>1, <2>1, <2>2, <2>3, <2>4 DEF ChatTyped
  <2>6. Marks'
    BY <1>0, <1>1, <2>1, <2>3, <2>4 DEF ChatInv, Marks, Due
  <2> QED BY <1>2, <2>5, <2>6 DEF ChatInv
<1>4. ASSUME NEW i \in DOMAIN applies, Apply(i) \/ ApplyLost(i) PROVE ChatInv'
  <2>1. badge' \in {badge, applies[i]} /\ applies' = RemoveAt(applies, i) /\ UNCHANGED poll
    BY <1>4 DEF Apply, ApplyLost
  <2>2. /\ applies' \in Seq(BOOLEAN) /\ Len(applies') = Len(applies) - 1
        /\ \A j \in 1 .. Len(applies) - 1 : applies'[j] = IF j < i THEN applies[j] ELSE applies[j + 1]
    BY <1>0, <2>1, RemoveAtFacts
  <2>3. DOMAIN applies' = 1 .. Len(applies) - 1
    BY <1>0, <2>2
  <2>4. \A j \in DOMAIN applies' : \E k \in DOMAIN applies : applies'[j] = applies[k]
    BY <1>0, <2>2, <2>3
  <2>5. badge' \in BOOLEAN
    BY <1>0, <2>1 DEF ChatTyped
  <2>6. ChatTyped'
    BY <1>0, <1>1, <2>1, <2>2, <2>5 DEF ChatTyped
  <2>7. Marks'
    BY <1>1, <2>1, <2>4 DEF ChatInv, Marks, Due
  <2> QED BY <1>2, <2>6, <2>7 DEF ChatInv
<1> QED BY <1>3, <1>4

(* The ticket gets a message from the portal. *)
LEMMA AdminStep == ASSUME ChatInv, AdminWrites PROVE ChatInv'
<1>1. /\ messages \in 0 .. MaxMessages /\ messages' = messages + 1 /\ messages < MaxMessages /\ seen \in Int
      /\ MaxMessages \in Nat /\ poll.count \in Nat
      /\ UNCHANGED <<started, seen, badge, poll, applies, dialog, shown, baseline, viewed, raced>>
  BY ChatAssumption DEF AdminWrites, ChatInv, ChatTyped, PollRecords
<1>2. ChatTyped' /\ SeenWasShown' /\ Marks'
  BY <1>1 DEF ChatInv, ChatTyped, SeenWasShown, Marks, Due
<1>3. 1 .. messages \subseteq 1 .. messages'
  BY <1>1
<1>4. Fits(dialog, shown)'
  BY <1>1, <1>3 DEF ChatInv, Fits
<1> QED BY <1>2, <1>4 DEF ChatInv

(* The dialog opens, loads, and starts the chat. *)
LEMMA LoadStep == ASSUME ChatInv, Open \/ Reload \/ StartChat PROVE ChatInv'
<1>1. UNCHANGED <<messages, seen, badge, poll, applies, baseline, viewed, raced>> /\ started' \in BOOLEAN
  BY DEF Open, Reload, StartChat, board, portal, ChatInv, ChatTyped
<1>2. ChatTyped' /\ SeenWasShown' /\ Marks'
  BY <1>1 DEF ChatInv, ChatTyped, SeenWasShown, Marks, Due
<1>3. messages \in 0 .. MaxMessages /\ Fits(dialog, shown)
  BY DEF ChatInv, ChatTyped
<1>4. CASE Open
  <2>1. PICK s \in {FALSE, started} : LoadInto([NoDialog EXCEPT !.open = TRUE, !.started = s], Nothing)
    BY <1>4 DEF Open
  <2> DEFINE d == [NoDialog EXCEPT !.open = TRUE, !.started = s]
  <2>2. s \in BOOLEAN
    BY <2>1 DEF ChatInv, ChatTyped
  <2>3. d \in DialogRecords /\ d.ids = {} /\ d.count = 0
    <3>1. NoDialog \in DialogRecords /\ NoDialog.ids = {} /\ NoDialog.count = 0
      BY ChatAssumption DEF NoDialog, DialogRecords
    <3> QED BY <2>2, <3>1 DEF DialogRecords
  <2> HIDE DEF d
  <2>4. Fits(d, Nothing)
    BY <2>3, FS_EmptySet DEF Fits, Nothing
  <2>5. LoadInto(d, Nothing)
    BY <2>1 DEF d
  <2> QED BY <1>1, <1>2, <1>3, <2>4, <2>5, LoadFits DEF ChatInv
<1>5. CASE Reload
  BY <1>1, <1>2, <1>3, <1>5, LoadFits DEF Reload, ChatInv
<1>6. CASE StartChat
  <2>1. CASE UNCHANGED <<dialog, shown>>
    BY <1>1, <1>2, <1>3, <2>1 DEF ChatInv, Fits
  <2>2. CASE LoadInto([dialog EXCEPT !.started = TRUE], shown)
    <3> DEFINE d == [dialog EXCEPT !.started = TRUE]
    <3>1. d \in DialogRecords /\ d.ids = dialog.ids /\ d.count = dialog.count
      BY <1>3 DEF Fits, DialogRecords
    <3> HIDE DEF d
    <3>2. Fits(d, shown)
      BY <1>3, <3>1 DEF Fits
    <3>3. LoadInto(d, shown)
      BY <2>2 DEF d
    <3> QED BY <1>1, <1>2, <1>3, <3>2, <3>3, LoadFits DEF ChatInv
  <2> QED BY <1>6, <2>1, <2>2 DEF StartChat
<1> QED BY <1>4, <1>5, <1>6

(* The user sends a message. *)
LEMMA SendMessageStep == ASSUME ChatInv, Send PROVE ChatInv'
<1>1. /\ messages \in 0 .. MaxMessages /\ messages' = messages + 1 /\ messages < MaxMessages /\ seen \in Int
      /\ MaxMessages \in Nat /\ poll.count \in Nat
      /\ UNCHANGED <<started, seen, badge, poll, applies, baseline, viewed, raced>>
  BY ChatAssumption DEF Send, board, ChatInv, ChatTyped, PollRecords
<1>2. ChatTyped' /\ SeenWasShown' /\ Marks'
  BY <1>1 DEF ChatInv, ChatTyped, SeenWasShown, Marks, Due
<1>3. /\ 1 .. messages \subseteq 1 .. messages' /\ messages' \in Messages /\ messages' \in 1 .. messages'
      /\ messages' \notin 1 .. messages /\ messages' \in 0 .. MaxMessages
  BY <1>1 DEF Messages
<1>4. /\ dialog \in DialogRecords /\ dialog.ids \subseteq 1 .. messages /\ dialog.count <= Cardinality(dialog.ids)
      /\ shown = [i \in Messages |-> IF i \in dialog.ids THEN 1 ELSE 0]
  BY DEF ChatInv, Fits
<1>5. CASE UNCHANGED <<dialog, shown>>
  BY <1>2, <1>3, <1>4, <1>5 DEF ChatInv, Fits
<1>6. CASE /\ dialog' = [dialog EXCEPT !.count = @ + 1, !.ids = @ \cup {messages'}]
           /\ shown' = [shown EXCEPT ![messages'] = @ + 1]
  <2> DEFINE ids == dialog.ids \cup {messages'}
             count == dialog.count + 1
  <2>1. ids \subseteq 1 .. messages' /\ ids \subseteq Messages /\ messages' \notin dialog.ids
    BY <1>1, <1>3, <1>4 DEF Messages
  <2>2. Cardinality(ids) = Cardinality(dialog.ids) + 1 /\ Cardinality(ids) <= MaxMessages /\ Cardinality(ids) \in Nat
    <3>1. IsFiniteSet(dialog.ids)
      BY <1>1, <1>4, IdsFacts
    <3>2. Cardinality(ids) = Cardinality(dialog.ids) + 1
      BY <2>1, <3>1, FS_AddElement
    <3>3. Cardinality(ids) \in Nat /\ Cardinality(ids) <= MaxMessages
      BY <1>3, <2>1, CardinalityBound
    <3> QED BY <3>2, <3>3
  <2>3. count \in 0 .. MaxMessages /\ count <= Cardinality(ids)
    <3>1. dialog.count \in 0 .. MaxMessages /\ Cardinality(dialog.ids) \in Nat
      BY <1>1, <1>4, IdsFacts DEF DialogRecords
    <3> QED BY <1>1, <1>4, <2>2, <3>1
  <2> HIDE DEF ids, count
  <2>4. dialog' = [dialog EXCEPT !.count = count, !.ids = ids]
    BY <1>6 DEF ids, count
  <2>5. dialog' \in DialogRecords /\ dialog'.ids = ids /\ dialog'.count = count
    BY <1>4, <2>1, <2>3, <2>4 DEF DialogRecords
  <2>6. shown' = [i \in Messages |-> IF i \in ids THEN 1 ELSE 0]
    BY <1>3, <1>4, <1>6, <2>1 DEF ids
  <2>7. Fits(dialog, shown)'
    BY <2>1, <2>3, <2>5, <2>6 DEF Fits
  <2> QED BY <1>2, <2>7 DEF ChatInv
<1> QED BY <1>5, <1>6 DEF Send

(* The dialog is closed: what it has shown is seen, if the chat had begun. *)
LEMMA CloseStep == ASSUME ChatInv, Close PROVE ChatInv'
<1> DEFINE all == Cardinality({i \in Messages : shown[i] > 0})
<1>1. /\ dialog' = NoDialog /\ shown' = Nothing /\ viewed' = IF all > viewed THEN all ELSE viewed
      /\ raced' = (raced \/ poll.pc # "idle" \/ applies # <<>>)
      /\ UNCHANGED <<started, messages, poll, applies, baseline>>
      /\ \/ seen' = dialog.count /\ badge' = FALSE
         \/ UNCHANGED <<seen, badge>>
  BY DEF Close, ChatViewed, portal
<1>2. ChatTyped /\ Fits(dialog, shown) /\ SeenWasShown /\ messages \in 0 .. MaxMessages /\ MaxMessages \in Nat
  BY ChatAssumption DEF ChatInv, ChatTyped
<1>3. {i \in Messages : shown[i] > 0} = dialog.ids
  <2>1. dialog.ids \subseteq Messages
    BY <1>2, IdsFacts DEF Fits
  <2>2. \A i \in Messages : shown[i] = IF i \in dialog.ids THEN 1 ELSE 0
    BY <1>2 DEF Fits
  <2> QED BY <2>1, <2>2
<1>4. all \in 0 .. MaxMessages /\ dialog.count \in 0 .. MaxMessages /\ dialog.count <= all
  <2>1. all = Cardinality(dialog.ids)
    BY <1>3
  <2>2. Cardinality(dialog.ids) \in Nat /\ Cardinality(dialog.ids) <= MaxMessages
    BY <1>2, IdsFacts DEF Fits
  <2>3. dialog.count \in 0 .. MaxMessages
    BY <1>2 DEF Fits, DialogRecords
  <2> QED BY <1>2, <2>1, <2>2, <2>3 DEF Fits
<1> HIDE DEF all
<1>5. ChatTyped'
  <2>1. raced' \in BOOLEAN /\ badge' \in BOOLEAN
    BY <1>1, <1>2, Zenon DEF ChatTyped
  <2>2. viewed' \in 0 .. MaxMessages /\ seen' \in -1 .. MaxMessages
    BY <1>1, <1>2, <1>4 DEF ChatTyped
  <2> QED BY <1>1, <1>2, <2>1, <2>2 DEF ChatTyped
<1>6. SeenWasShown'
  <2>1. seen \in Int /\ baseline \in Int /\ viewed \in Int
    BY <1>2 DEF ChatTyped
  <2> QED BY <1>1, <1>2, <1>4, <2>1 DEF SeenWasShown
<1>7. Marks'
  <2>1. ~raced' => ~raced /\ poll.pc = "idle" /\ applies = <<>>
    BY <1>1, Zenon
  <2>2. CASE UNCHANGED <<seen, badge>>
    BY <1>1, <2>1, <2>2 DEF ChatInv, Marks, Due
  <2>3. CASE seen' = dialog.count /\ badge' = FALSE
    <3>1. poll.pc = "idle" => ~poll.unread
      BY DEF ChatInv, ChatTyped
    <3> QED BY <1>1, <2>1, <2>3, <3>1 DEF Marks, Due
  <2> QED BY <1>1, <2>2, <2>3
<1>8. Fits(dialog, shown)'
  BY <1>1, FreshFits DEF Fits
<1> QED BY <1>5, <1>6, <1>7, <1>8 DEF ChatInv

(* The agent starts anew; the portal keeps what it has. *)
LEMMA RestartStep == ASSUME ChatInv, AgentRestarts PROVE ChatInv'
<1>1. /\ seen' = -1 /\ badge' = FALSE /\ poll' = NoPoll /\ applies' = <<>> /\ dialog' = NoDialog
      /\ shown' = Nothing /\ baseline' = -1 /\ viewed' = 0 /\ raced' = FALSE /\ UNCHANGED <<started, messages>>
  BY DEF AgentRestarts, portal
<1>2. /\ poll' \in PollRecords /\ poll'.pc = "idle" /\ poll'.unread = FALSE /\ poll'.count = 0
      /\ MaxMessages \in Nat /\ MaxApplies \in Nat
  BY <1>1, ChatAssumption DEF NoPoll, PollRecords, PollSteps
<1>3. ChatTyped'
  <2>1. badge' \in BOOLEAN /\ raced' \in BOOLEAN
    BY <1>1, Zenon
  <2>2. applies' \in Seq(BOOLEAN) /\ Len(applies') = 0
    BY <1>1
  <2> QED BY <1>1, <1>2, <2>1, <2>2 DEF ChatInv, ChatTyped
<1>4. SeenWasShown' /\ Marks'
  <2>1. DOMAIN applies' = {}
    BY <1>1
  <2> QED BY <1>1, <1>2, <2>1 DEF SeenWasShown, Marks, Due
<1>5. Fits(dialog, shown)'
  BY <1>1, FreshFits DEF Fits
<1> QED BY <1>3, <1>4, <1>5 DEF ChatInv

LEMMA ChatInductive == ChatInv /\ [ChatNext]_chatVars => ChatInv'
<1> SUFFICES ASSUME ChatInv, [ChatNext]_chatVars PROVE ChatInv'
  OBVIOUS
<1>1. CASE UNCHANGED chatVars
  BY <1>1 DEF chatVars, ChatInv, ChatTyped, Fits, SeenWasShown, Marks, Due
<1>2. CASE PollLists \/ PollCounts \/ PollFails \/ PollCompares \/ PollBaseline
  BY <1>2, PollStep
<1>3. CASE PollHandsOver \/ \E i \in DOMAIN applies : Apply(i) \/ ApplyLost(i)
  BY <1>3, HandOverStep
<1>4. CASE Open \/ Reload \/ StartChat
  BY <1>4, LoadStep
<1> QED BY <1>1, <1>2, <1>3, <1>4, AdminStep, SendMessageStep, CloseStep, RestartStep DEF ChatNext

(* The invariant gives the types of the module, and what the properties say. *)
LEMMA ChatInvGives == ChatInv => ChatTypeOK /\ SeenWasShown /\ BadgeHonest
<1> SUFFICES ASSUME ChatInv PROVE ChatTypeOK /\ SeenWasShown /\ BadgeHonest
  OBVIOUS
<1>1. ChatTyped /\ Fits(dialog, shown) /\ MaxMessages \in Nat
  BY ChatAssumption DEF ChatInv
<1>2. 0 .. MaxMessages \subseteq 0 .. 2 * MaxMessages /\ -1 .. MaxMessages \subseteq -1 .. 2 * MaxMessages
  BY <1>1
<1>3. /\ dialog \in [open : BOOLEAN, started : BOOLEAN, count : 0 .. 2 * MaxMessages, ids : SUBSET Messages]
      /\ shown \in [Messages -> {0, 1}]
  BY <1>1, <1>2 DEF Fits, DialogRecords
<1>4. ChatTypeOK
  BY <1>1, <1>2, <1>3 DEF ChatTyped, ChatTypeOK, PollRecords, PollSteps
<1>5. BadgeHonest
  BY DEF ChatInv, Marks, Due, BadgeHonest
<1> QED BY <1>4, <1>5 DEF ChatInv

LEMMA ChatInvariant == ChatSpec => []ChatInv
BY ChatInitInv, ChatInductive, PTL DEF ChatSpec

(* Whatever the polls, the loads, the sends and the restarts do, and with any  *)
(* number of messages: every message of the chat is shown at most once.        *)
THEOREM ChatTypeCorrect == ChatSpec => []ChatTypeOK
BY ChatInvariant, ChatInvGives, PTL

(* No message is taken for seen that no dialog has shown, but for those that   *)
(* the first poll found.                                                       *)
THEOREM SeenWasShownHolds == ChatSpec => []SeenWasShown
BY ChatInvariant, ChatInvGives, PTL

(* The badge stands only while the ticket has messages that are not counted as *)
(* seen, but for a poll that was under way when the chat was closed.           *)
THEOREM BadgeHonestHolds == ChatSpec => []BadgeHonest
BY ChatInvariant, ChatInvGives, PTL
-----------------------------------------------------------------------------
(* TicketTable. *)

LoadRecords == [pc : {"idle", "asking", "put"}, got : Answers]

LEMMA AnswerFacts ==
  /\ NoData \in [Tickets -> Statuses] /\ Failure \in Answers /\ NotBusy \in LoadRecords
  /\ \A a \in Answers : a.list \in [Tickets -> Statuses]
  /\ \A list \in [Tickets -> Statuses] : [ok |-> TRUE, list |-> list] \in Answers
<1>1. NoData \in [Tickets -> Statuses]
  BY DEF NoData, Statuses
<1>2. Failure \in Answers
  BY <1>1 DEF Failure, Answers
<1>3. NotBusy \in LoadRecords
  BY <1>2 DEF NotBusy, LoadRecords
<1> QED BY <1>1, <1>2, <1>3 DEF Answers

LEMMA TableInitInv == TableInit => TableTypeOK
<1> SUFFICES ASSUME TableInit PROVE TableTypeOK
  OBVIOUS
<1>1. load \in [Loader -> LoadRecords] /\ tickets \in [Tickets -> Statuses] /\ data \in [Tickets -> Statuses]
  BY AnswerFacts DEF TableInit
<1>2. detail \in BOOLEAN
  BY Zenon DEF TableInit
<1>3. inbox \in Seq(Answers)
  <2>1. <<>> \in Seq(Answers)
    OBVIOUS
  <2> QED BY <2>1 DEF TableInit
<1> QED BY <1>1, <1>2, <1>3 DEF TableInit, TableTypeOK, LoadRecords

(* A load begins: the message is shown. *)
LEMMA StartsFacts ==
  ASSUME TableTypeOK, NEW w \in Loader, Starts(w)
  PROVE  load' \in [Loader -> [pc : {"idle", "asking", "put"}, got : Answers]] /\ table' = "loading"
<1>1. [pc |-> "asking", got |-> Failure] \in [pc : {"idle", "asking", "put"}, got : Answers]
  BY AnswerFacts
<1> DEFINE Loads == [pc : {"idle", "asking", "put"}, got : Answers]
<1>2. load \in [Loader -> Loads] /\ [pc |-> "asking", got |-> Failure] \in Loads
  BY <1>1 DEF TableTypeOK
<1>3. load' = [load EXCEPT ![w] = [pc |-> "asking", got |-> Failure]] /\ table' = "loading"
  BY DEF Starts
<1>4. load' \in [Loader -> Loads]
  <2> HIDE DEF Loads
  <2> QED BY <1>2, <1>3
<1> QED BY <1>3, <1>4

(* The worker of a load: the list is asked for, and its answer handed over. *)
LEMMA LoaderTypes ==
  ASSUME TableTypeOK, NEW w \in Loader, LoaderStep(w)
  PROVE  TableTypeOK'
<1>0. load \in [Loader -> LoadRecords] /\ inbox \in Seq(Answers) /\ tickets \in [Tickets -> Statuses]
  BY DEF TableTypeOK, LoadRecords
<1>1. UNCHANGED <<tickets, window, table, data, tab, detail, awaited>>
  BY DEF LoaderStep, Fetch, Put
<1>2. CASE Fetch(w)
  <2>1. PICK ok \in BOOLEAN :
          load' = [load EXCEPT ![w] = [pc |-> "put", got |-> IF ok THEN [ok |-> TRUE, list |-> tickets] ELSE Failure]]
    BY <1>2 DEF Fetch
  <2> DEFINE got == IF ok THEN [ok |-> TRUE, list |-> tickets] ELSE Failure
  <2>2. got \in Answers
    BY <1>0, AnswerFacts
  <2> HIDE DEF got
  <2>3. load' = [load EXCEPT ![w] = [pc |-> "put", got |-> got]]
    BY <2>1 DEF got
  <2>4. [pc |-> "put", got |-> got] \in LoadRecords
    BY <2>2 DEF LoadRecords
  <2>5. load' \in [Loader -> LoadRecords]
    BY <1>0, <2>3, <2>4
  <2>6. UNCHANGED inbox
    BY <1>2 DEF Fetch
  <2> QED BY <1>0, <1>1, <2>5, <2>6 DEF TableTypeOK, LoadRecords
<1>3. CASE Put(w)
  <2>1. load' = [load EXCEPT ![w] = NotBusy] /\ inbox' = Append(inbox, load[w].got)
    BY <1>3 DEF Put
  <2>2. load' \in [Loader -> LoadRecords]
    BY <1>0, <2>1, AnswerFacts
  <2>3. load[w].got \in Answers
    BY <1>0 DEF LoadRecords
  <2>4. inbox' \in Seq(Answers)
    BY <1>0, <2>1, <2>3
  <2> QED BY <1>1, <2>2, <2>4 DEF TableTypeOK, LoadRecords
<1> QED BY <1>2, <1>3 DEF LoaderStep

(* An answer comes to the Qt thread, or is lost on the way. *)
LEMMA ResultTypes ==
  ASSUME TableTypeOK, NEW i \in DOMAIN inbox, ShowResult(i) \/ ResultLost(i)
  PROVE  TableTypeOK'
<1>0. inbox \in Seq(Answers) /\ i \in 1 .. Len(inbox) /\ inbox[i] \in Answers
  BY DEF TableTypeOK
<1>1. inbox' = RemoveAt(inbox, i) /\ UNCHANGED <<tickets, window, load, tab, detail>>
  BY DEF ShowResult, ResultLost
<1>2. inbox' \in Seq(Answers)
  BY <1>0, <1>1, RemoveAtFacts
<1>3. data' \in [Tickets -> Statuses] /\ table' \in {"loading", "error", "rows"} /\ awaited' \subseteq Tickets
  <2>1. CASE ShowResult(i)
    BY <1>0, <2>1, AnswerFacts DEF ShowResult, Show, TableTypeOK
  <2>2. CASE ResultLost(i)
    BY <2>2 DEF ResultLost, TableTypeOK
  <2> QED BY <2>1, <2>2
<1> QED BY <1>1, <1>2, <1>3 DEF TableTypeOK

(* What opens, changes or closes a window. *)
LEMMA WindowTypes ==
  ASSUME TableTypeOK, CloseWindow \/ SwitchTab \/ OpenDetail
  PROVE  TableTypeOK'
<1>1. CASE CloseWindow
  <2>1. load' = [v \in Loader |-> NotBusy] /\ inbox' = <<>> /\ data' = NoData
    BY <1>1 DEF CloseWindow
  <2>2. load' \in [Loader -> [pc : {"idle", "asking", "put"}, got : Answers]]
    BY <2>1, AnswerFacts DEF LoadRecords
  <2>3. inbox' \in Seq(Answers)
    <3>1. <<>> \in Seq(Answers)
      OBVIOUS
    <3> QED BY <2>1, <3>1
  <2> QED BY <1>1, <2>1, <2>2, <2>3, AnswerFacts DEF CloseWindow, TableTypeOK
<1>2. CASE SwitchTab
  BY <1>2 DEF SwitchTab, TableTypeOK
<1>3. CASE OpenDetail
  <2>1. detail' \in BOOLEAN
    BY <1>3, Zenon DEF OpenDetail
  <2> QED BY <1>3, <2>1 DEF OpenDetail, TableTypeOK
<1> QED BY <1>1, <1>2, <1>3

LEMMA LoadingTypes ==
  ASSUME TableTypeOK, NEW w \in Loader, OpenWindow(w) \/ Refresh(w) \/ CloseDetail(w)
  PROVE  TableTypeOK'
<1>1. CASE OpenWindow(w)
  <2>1. Starts(w)
    BY <1>1 DEF OpenWindow
  <2> QED BY <1>1, <2>1, StartsFacts, AnswerFacts DEF OpenWindow, TableTypeOK
<1>2. CASE Refresh(w)
  <2>1. Starts(w)
    BY <1>2 DEF Refresh
  <2> QED BY <1>2, <2>1, StartsFacts DEF Refresh, TableTypeOK
<1>3. CASE CloseDetail(w)
  <2>1. Starts(w)
    BY <1>3 DEF CloseDetail
  <2>2. detail' \in BOOLEAN
    BY <1>3, Zenon DEF CloseDetail
  <2> QED BY <1>3, <2>1, <2>2, StartsFacts DEF CloseDetail, TableTypeOK
<1> QED BY <1>1, <1>2, <1>3

(* A ticket is created, or closed by the portal. *)
LEMMA TicketTypes ==
  ASSUME TableTypeOK, AdminCloses \/ SubmitAlone \/ \E w \in Loader : Submit(w)
  PROVE  TableTypeOK'
<1>0. {"active", "closed"} \subseteq Statuses
  BY DEF Statuses
<1>1. CASE AdminCloses
  BY <1>0, <1>1 DEF AdminCloses, Listed, TableTypeOK
<1>2. CASE SubmitAlone
  BY <1>0, <1>2 DEF SubmitAlone, Created, TableTypeOK
<1>3. ASSUME NEW w \in Loader, Submit(w) PROVE TableTypeOK'
  <2>1. Starts(w) /\ UNCHANGED <<window, inbox, data, tab, detail>>
    BY <1>3 DEF Submit
  <2>2. PICK t \in Tickets : Created(t) /\ awaited' = awaited \cup {t}
    BY <1>3 DEF Submit
  <2>3. tickets' \in [Tickets -> Statuses]
    BY <1>0, <2>2 DEF Created, TableTypeOK
  <2> QED BY <2>1, <2>2, <2>3, StartsFacts DEF TableTypeOK
<1> QED BY <1>1, <1>2, <1>3

LEMMA TableInductive == TableTypeOK /\ [TableNext]_tableVars => TableTypeOK'
<1> SUFFICES ASSUME TableTypeOK, [TableNext]_tableVars PROVE TableTypeOK'
  OBVIOUS
<1>1. CASE UNCHANGED tableVars
  BY <1>1 DEF tableVars, TableTypeOK
<1>2. CASE CloseWindow \/ SwitchTab \/ OpenDetail
  BY <1>2, WindowTypes
<1>3. CASE AdminCloses \/ SubmitAlone \/ \E w \in Loader : Submit(w)
  BY <1>3, TicketTypes
<1>4. CASE Drains \/ \E i \in DOMAIN inbox : ResultLost(i)
  BY <1>4, ResultTypes DEF Drains
<1>5. ASSUME NEW w \in Loader, OpenWindow(w) \/ Refresh(w) \/ CloseDetail(w) PROVE TableTypeOK'
  BY <1>5, LoadingTypes
<1> QED BY <1>1, <1>2, <1>3, <1>4, <1>5, LoaderTypes DEF TableNext
-----------------------------------------------------------------------------
(* ServiceLife. *)

LifeSteps == {"tray", "loop", "starting", "serving", "stopping", "draining", "gone"}

\* What the types need: the hook is there from the service's start to the
\* process's end, and a power-off has been posted only once it is at work or the
\* process is gone.
LifeInv ==
  /\ main \in LifeSteps
  /\ tray \in {"none", "up", "armed"} /\ hook \in {"none", "ready", "posting"}
  /\ running \in BOOLEAN /\ stopRequested \in BOOLEAN /\ worker \in BOOLEAN /\ exitAsked \in BOOLEAN
  /\ running <=> main \in {"starting", "serving"}
  /\ powerOffs \in 0 .. 1
  /\ main \in {"tray", "loop", "gone"} => hook = "none"
  /\ hook # "posting" /\ main # "gone" => powerOffs = 0

LEMMA LifeInitInv == LifeInit => LifeInv
<1> SUFFICES ASSUME LifeInit PROVE LifeInv
  OBVIOUS
<1>1. running \in BOOLEAN /\ stopRequested \in BOOLEAN /\ worker \in BOOLEAN /\ exitAsked \in BOOLEAN
  BY Zenon DEF LifeInit
<1> QED BY <1>1 DEF LifeInit, LifeInv, LifeSteps

(* The process ends. *)
LEMMA GoneStep == ASSUME LifeInv, Gone, powerOffs' \in 0 .. 1 PROVE LifeInv'
<1>1. running' \in BOOLEAN /\ stopRequested' \in BOOLEAN /\ worker' \in BOOLEAN /\ exitAsked' \in BOOLEAN
  BY Zenon DEF Gone, LifeInv
<1> QED BY <1>1 DEF Gone, LifeInv, LifeSteps

(* The main thread goes on to the next of its steps. *)
LEMMA MainStep == ASSUME LifeInv, MainGoesOn PROVE LifeInv'
<1>1. CASE StartTray
  BY <1>1 DEF StartTray, LifeInv, LifeSteps
<1>2. CASE StartLoop
  <2>1. running' \in BOOLEAN
    BY <1>2, Zenon DEF StartLoop
  <2> QED BY <1>2, <2>1 DEF StartLoop, LifeInv, LifeSteps
<1>3. CASE Started
  <2>1. running' \in BOOLEAN /\ (running' <=> main' = "serving")
    BY <1>3, Zenon DEF Started
  <2> QED BY <1>3, <2>1 DEF Started, LifeInv, LifeSteps
<1>4. CASE StopBegins
  <2>1. running' \in BOOLEAN
    BY <1>4, Zenon DEF StopBegins
  <2> QED BY <1>4, <2>1 DEF StopBegins, LifeInv, LifeSteps
<1>5. CASE StopEnds
  BY <1>5 DEF StopEnds, StopTray, LifeInv, LifeSteps
<1>6. CASE InterpreterEnds
  <2>1. ~running
    BY <1>6 DEF InterpreterEnds, LifeInv
  <2>2. Gone /\ powerOffs' \in 0 .. 1
    BY <1>6, <2>1 DEF InterpreterEnds, SafePowerOff, LifeInv
  <2> QED BY <2>2, GoneStep
<1> QED BY <1>1, <1>2, <1>3, <1>4, <1>5, <1>6 DEF MainGoesOn

(* The worker threads, the user's exit, Windows, and the next process. *)
LEMMA OtherStep ==
  ASSUME LifeInv, \/ WorkerStarts \/ WorkerEnds \/ ExitAgent \/ TimerExits
                  \/ ShutdownEvent \/ WindowsEnds \/ EndsAtOnce \/ NextProcess
  PROVE  LifeInv'
<1>1. CASE WorkerStarts \/ WorkerEnds
  <2>1. worker' \in BOOLEAN
    BY <1>1, Zenon DEF WorkerStarts, WorkerEnds
  <2> QED BY <1>1, <2>1 DEF WorkerStarts, WorkerEnds, LifeInv
<1>2. CASE ExitAgent
  <2>1. stopRequested' \in BOOLEAN /\ exitAsked' \in BOOLEAN
    BY <1>2, Zenon DEF ExitAgent, RequestStop
  <2> QED BY <1>2, <2>1 DEF ExitAgent, LifeInv
<1>3. CASE TimerExits \/ WindowsEnds \/ EndsAtOnce
  BY <1>3, GoneStep DEF TimerExits, WindowsEnds, EndsAtOnce, LifeInv
<1>4. CASE ShutdownEvent
  <2>1. powerOffs = 0 /\ main \notin {"tray", "loop", "gone"}
    BY <1>4 DEF ShutdownEvent, LifeInv, LifeSteps
  <2>2. powerOffs' \in 0 .. 1
    BY <1>4, <2>1 DEF ShutdownEvent, SafePowerOff, SendPowerOff
  <2> QED BY <1>4, <2>1, <2>2 DEF ShutdownEvent, LifeInv, LifeSteps
<1>5. CASE NextProcess
  <2>1. exitAsked' \in BOOLEAN
    BY <1>5, Zenon DEF NextProcess
  <2> QED BY <1>5, <2>1 DEF NextProcess, LifeInv, LifeSteps
<1> QED BY <1>1, <1>2, <1>3, <1>4, <1>5

LEMMA LifeInductive == LifeInv /\ [LifeNext]_lifeVars => LifeInv'
<1> SUFFICES ASSUME LifeInv, [LifeNext]_lifeVars PROVE LifeInv'
  OBVIOUS
<1>1. CASE UNCHANGED lifeVars
  BY <1>1 DEF lifeVars, LifeInv
<1>2. CASE LifeNext
  BY <1>2, MainStep, OtherStep DEF LifeNext
<1> QED BY <1>1, <1>2

LEMMA LifeInvGives == LifeInv => LifeTypeOK
<1> SUFFICES ASSUME LifeInv PROVE LifeTypeOK
  OBVIOUS
<1>1. running \in BOOLEAN /\ (running <=> main \in {"starting", "serving"})
  BY DEF LifeInv
<1>2. running = (main \in {"starting", "serving"})
  <2> DEFINE up == main \in {"starting", "serving"}
  <2>1. running = TRUE \/ running = FALSE
    BY <1>1
  <2>2. up = TRUE \/ up = FALSE
    OBVIOUS
  <2>3. running <=> up
    BY <1>1
  <2> HIDE DEF up
  <2>4. running = up
    BY <2>1, <2>2, <2>3
  <2> QED BY <2>4 DEF up
<1> QED BY <1>2 DEF LifeInv, LifeSteps, LifeTypeOK

(* A process posts at most one power-off, however the user's exit, the end of  *)
(* the service and the end of Windows come together.                           *)
THEOREM LifeTypeCorrect == LifeSpec => []LifeTypeOK
BY LifeInitInv, LifeInductive, LifeInvGives, PTL DEF LifeSpec
-----------------------------------------------------------------------------
(* The desk: the parts side by side. *)

DeskInv ==
  /\ ChannelInv /\ ChannelBounds /\ PinInv /\ LocationInv /\ ChatInv
  /\ SitesInv /\ InstallInv /\ InstallRest /\ TableTypeOK /\ LifeInv

(* The focus chooses among the initial states of the parts. *)
LEMMA DeskStarts == DeskInit => DeskInv
<1> SUFFICES ASSUME DeskInit PROVE DeskInv
  OBVIOUS
<1>1. ChannelInit /\ PinInit /\ LocationInit /\ ChatInit /\ SitesInit /\ InstallInit /\ TableInit /\ LifeInit
  BY DEF DeskInit
<1> QED BY <1>1, ChannelInitInv, BoundsInit, PinInitInv, LocationInitInv, ChatInitInv, SitesInitInv,
           InstallInitInv, RestInit, TableInitInv, LifeInitInv DEF DeskInv

(* A step of the desk is a step of one part, and the others stay as they are: *)
(* each part alone is a behaviour of its own specification's next-state       *)
(* relation.                                                                  *)
LEMMA DeskSteps ==
  ASSUME [DeskNext]_deskVars
  PROVE  /\ [ChannelNext]_channelVars /\ [PinNext]_pinVars /\ [LocationNext]_locationVars
         /\ [ChatNext]_chatVars /\ [SitesNext]_sitesVars /\ [InstallNext]_installVars
         /\ [TableNext]_tableVars /\ [LifeNext]_lifeVars
BY DEF DeskNext, deskVars

LEMMA DeskInductive == DeskInv /\ [DeskNext]_deskVars => DeskInv'
<1> SUFFICES ASSUME DeskInv, [DeskNext]_deskVars PROVE DeskInv'
  OBVIOUS
<1>1. /\ [ChannelNext]_channelVars /\ [PinNext]_pinVars /\ [LocationNext]_locationVars
      /\ [ChatNext]_chatVars /\ [SitesNext]_sitesVars /\ [InstallNext]_installVars
      /\ [TableNext]_tableVars /\ [LifeNext]_lifeVars
  BY DeskSteps
<1>2. /\ ChannelInv /\ ChannelBounds /\ PinInv /\ LocationInv /\ ChatInv
      /\ SitesInv /\ InstallInv /\ InstallRest /\ TableTypeOK /\ LifeInv
  BY DEF DeskInv
<1> QED BY <1>1, <1>2, ChannelInductive, BoundsKept, PinInductive, LocationInductive, ChatInductive,
           SitesInductive, InstallInductive, RestKept, TableInductive, LifeInductive DEF DeskInv

LEMMA DeskInvGives ==
  DeskInv =>
    /\ TypeOK /\ HeartbeatsKept /\ PinCurrent /\ PayloadFresh /\ SeenWasShown /\ BadgeHonest
    /\ HostsFileKept /\ RanItsOwn
BY ChannelInvGives, PinInvGives, LocationInvGives, ChatInvGives, SitesInvGives, InstallInvGives, LifeInvGives
   DEF DeskInv, TypeOK

LEMMA DeskInvariant == DeskSpec => []DeskInv
BY DeskStarts, DeskInductive, PTL DEF DeskSpec

(* The variables of all parts stay in their sets: no message is shown twice,   *)
(* no queue is over its limit, no process posts two power-offs.                *)
THEOREM DeskTypeCorrect == DeskSpec => []TypeOK
BY DeskInvariant, DeskInvGives, PTL

(* Whichever part moves, each keeps what it promises, for all constants.       *)
THEOREM DeskKeeps ==
  DeskSpec =>
    [](/\ HeartbeatsKept /\ PinCurrent /\ PayloadFresh /\ SeenWasShown /\ BadgeHonest
       /\ HostsFileKept /\ RanItsOwn)
BY DeskInvariant, DeskInvGives, PTL
===============================================================================
