---------------------------- MODULE HeartbeatProofs ----------------------------
(***************************************************************************)
(* Proofs about what heartbeats carry and how they are kept.               *)
(* SocketChannel, for any number of connect handlers and of heartbeats and *)
(* any limit of the queue: a flush that nothing disturbs loses no          *)
(* heartbeat, and none that runs alone repeats one.                        *)
(* Location, for any number of fetches, any limit and any duration of a    *)
(* fetch: what a heartbeat reports is no older than its limits allow.      *)
(***************************************************************************)
EXTENDS SocketChannel, Location, TLAPS

Beats == 1 .. MaxBeats
HandlerSteps == {"idle", "locate", "register", "flush"}

\* What the argument needs of the types.
ChannelTyped ==
  /\ made \in 0 .. MaxBeats /\ queue \in Seq(Beats) /\ sent \in [Beats -> Nat]
  /\ handler \in [Handler -> [pc : HandlerSteps, pos : Nat]]
  /\ troubled \in BOOLEAN /\ overlapped \in BOOLEAN

\* The queue holds heartbeats that were collected, each at one place.
EachOnce ==
  /\ \A i \in 1 .. Len(queue) : queue[i] <= made
  /\ \A i, j \in 1 .. Len(queue) : queue[i] = queue[j] => i = j

\* None is emitted before it is collected.
NotYet == \A b \in Beats : b > made => sent[b] = 0

\* A flush is alone as long as no two are said to have overlapped.
Alone ==
  ~overlapped => \A g, h \in Handler : handler[g].pc = "flush" /\ handler[h].pc = "flush" => g = h

\* What is queued and was emitted lies behind a flush's position.
Behind ==
  ~overlapped =>
    \A i \in 1 .. Len(queue) :
      sent[queue[i]] = 0 \/ \E h \in Handler : handler[h].pc = "flush" /\ i <= handler[h].pos

\* All that lies behind an undisturbed flush was emitted.
Emitted ==
  ~troubled /\ ~overlapped =>
    \A h \in Handler : handler[h].pc = "flush" =>
      \A i \in 1 .. Len(queue) : i <= handler[h].pos => sent[queue[i]] > 0

BeatsKept == NothingLostInPeace /\ SentOnce

ChannelInv == ChannelTyped /\ EachOnce /\ NotYet /\ Alone /\ Behind /\ Emitted /\ BeatsKept

(* The initial states satisfy the invariant. *)
LEMMA ChannelInitInv == ChannelInit => ChannelInv
<1> SUFFICES ASSUME ChannelInit PROVE ChannelInv
  OBVIOUS
<1>1. /\ made = 0 /\ queue = <<>> /\ sent = [b \in Beats |-> 0] /\ troubled = FALSE /\ overlapped = FALSE
      /\ handler = [h \in Handler |-> [pc |-> "idle", pos |-> 0]]
  BY DEF ChannelInit, Rest, Beats
<1>2. Len(queue) = 0 /\ queue \in Seq(Beats) /\ MaxBeats \in Nat
  BY <1>1, ChannelAssumption
<1>3. ChannelTyped
  <2>1. troubled \in BOOLEAN /\ overlapped \in BOOLEAN
    BY <1>1, Zenon
  <2>2. handler \in [Handler -> [pc : HandlerSteps, pos : Nat]]
    BY <1>1 DEF HandlerSteps
  <2>3. made \in 0 .. MaxBeats /\ sent \in [Beats -> Nat]
    BY <1>1, <1>2
  <2> QED BY <1>2, <2>1, <2>2, <2>3 DEF ChannelTyped
<1>4. EachOnce /\ NotYet /\ Alone /\ Behind /\ Emitted
  BY <1>1, <1>2 DEF EachOnce, NotYet, Alone, Behind, Emitted
<1>5. BeatsKept
  BY <1>1 DEF BeatsKept, NothingLostInPeace, SentOnce
<1> QED BY <1>3, <1>4, <1>5 DEF ChannelInv

(* A step that leaves the heartbeats and the flushes as they are. *)
LEMMA QuietStep ==
  ASSUME ChannelInv, handler' \in [Handler -> [pc : HandlerSteps, pos : Nat]], troubled' \in BOOLEAN,
         UNCHANGED <<queue, made, sent, dropped, overlapped>>, troubled => troubled',
         \A h \in Handler : handler'[h].pc = "flush" <=> handler[h].pc = "flush",
         \A h \in Handler : handler[h].pc = "flush" => handler'[h] = handler[h]
  PROVE  ChannelInv'
<1>1. ChannelTyped' /\ EachOnce' /\ NotYet' /\ Alone'
  BY DEF ChannelInv, ChannelTyped, EachOnce, NotYet, Alone
<1>2. Behind' /\ Emitted'
  BY DEF ChannelInv, Behind, Emitted
<1>3. BeatsKept'
  BY DEF ChannelInv, BeatsKept, NothingLostInPeace, SentOnce, Queued
<1> QED BY <1>1, <1>2, <1>3 DEF ChannelInv

(* A connection comes, breaks or fails; a handler looks for a location. *)
LEMMA ConnectionStep ==
  ASSUME ChannelInv, \/ NetworkChanges \/ Disconnects \/ ConnectFails \/ WakesUp
               \/ \E h \in Handler : Connects(h) \/ Located(h)
  PROVE  ChannelInv'
<1>1. CASE NetworkChanges \/ ConnectFails \/ WakesUp
  BY <1>1, QuietStep DEF NetworkChanges, ConnectFails, WakesUp, ghosts, ChannelInv, ChannelTyped
<1>2. CASE Disconnects
  <2>1. troubled' \in BOOLEAN /\ (troubled => troubled')
    BY <1>2, Zenon DEF Disconnects, ChannelInv, ChannelTyped
  <2> QED BY <1>2, <2>1, QuietStep DEF Disconnects, ChannelInv, ChannelTyped
<1>3. ASSUME NEW h \in Handler, Connects(h) \/ Located(h) PROVE ChannelInv'
  <2>1. /\ handler[h].pc \in {"idle", "locate"}
        /\ \E pc \in {"locate", "register"} : handler' = [handler EXCEPT ![h].pc = pc]
        /\ UNCHANGED <<queue, made, sent, dropped, troubled, overlapped>>
    BY <1>3 DEF Connects, Located, ghosts
  <2>2. /\ handler' \in [Handler -> [pc : HandlerSteps, pos : Nat]]
        /\ handler'[h].pc \in {"locate", "register"} /\ \A g \in Handler \ {h} : handler'[g] = handler[g]
    BY <2>1 DEF ChannelInv, ChannelTyped, HandlerSteps
  <2> QED BY <2>1, <2>2, QuietStep DEF ChannelInv, ChannelTyped
<1> QED BY <1>1, <1>2, <1>3

(* The handler ends without a flush, or begins one at the first heartbeat. *)
LEMMA RegisterStep == ASSUME ChannelInv, NEW h \in Handler, Register(h) PROVE ChannelInv'
<1>1. /\ UNCHANGED <<queue, made, sent, dropped, troubled>> /\ handler[h].pc = "register"
      /\ \/ /\ handler' = [handler EXCEPT ![h] = [pc |-> "flush", pos |-> 0]]
            /\ overlapped' = (overlapped \/ Flushing)
         \/ handler' = [handler EXCEPT ![h] = Rest] /\ UNCHANGED overlapped
  BY DEF Register
<1>2. CASE handler' = [handler EXCEPT ![h] = Rest] /\ UNCHANGED overlapped
  BY <1>1, <1>2, QuietStep DEF Rest, ChannelInv, ChannelTyped, HandlerSteps
<1>3. CASE handler' = [handler EXCEPT ![h] = [pc |-> "flush", pos |-> 0]] /\ overlapped' = (overlapped \/ Flushing)
  <2>1. overlapped' \in BOOLEAN
    BY <1>3, Zenon DEF ChannelInv, ChannelTyped
  <2>2. ~overlapped' => ~overlapped /\ \A g \in Handler : handler[g].pc # "flush"
    BY <1>3, Zenon DEF Flushing
  <2>3. /\ handler' \in [Handler -> [pc : HandlerSteps, pos : Nat]] /\ handler'[h] = [pc |-> "flush", pos |-> 0]
        /\ \A g \in Handler \ {h} : handler'[g] = handler[g]
    BY <1>3 DEF ChannelInv, ChannelTyped, HandlerSteps
  <2>4. ChannelTyped' /\ EachOnce' /\ NotYet'
    BY <1>1, <2>1, <2>3 DEF ChannelInv, ChannelTyped, EachOnce, NotYet
  <2>5. Alone'
    BY <2>2, <2>3 DEF Alone
  <2>6. Behind'
    BY <1>1, <2>2, <2>3 DEF ChannelInv, Behind
  <2>7. Emitted'
    BY <1>1, <2>2, <2>3 DEF Emitted
  <2>8. BeatsKept'
    BY <1>1, <2>2 DEF ChannelInv, BeatsKept, NothingLostInPeace, SentOnce, Queued
  <2> QED BY <2>4, <2>5, <2>6, <2>7, <2>8 DEF ChannelInv
<1> QED BY <1>1, <1>2, <1>3

(* A flush emits the heartbeat at its position, or passes it over. *)
LEMMA FlushOneStep == ASSUME ChannelInv, NEW h \in Handler, FlushOne(h) PROVE ChannelInv'
<1> DEFINE p == handler[h].pos
           b == queue[p + 1]
<1>0. ChannelTyped /\ p \in Nat /\ p + 1 \in 1 .. Len(queue) /\ b \in Beats /\ b <= made /\ made \in Nat
  <2>1. ChannelTyped /\ EachOnce /\ p < Len(queue)
    BY DEF FlushOne, ChannelInv
  <2>2. p \in Nat /\ Len(queue) \in Nat /\ made \in Nat
    BY <2>1 DEF ChannelTyped
  <2>3. p + 1 \in 1 .. Len(queue)
    BY <2>1, <2>2
  <2> QED BY <2>1, <2>2, <2>3 DEF ChannelTyped, EachOnce
<1>1. /\ handler[h].pc = "flush" /\ handler' = [handler EXCEPT ![h].pos = @ + 1]
      /\ UNCHANGED <<queue, made, dropped, overlapped>>
      /\ \/ sent' = [sent EXCEPT ![b] = @ + 1] /\ UNCHANGED troubled
         \/ troubled' = TRUE /\ UNCHANGED sent
  BY DEF FlushOne
<1>2. /\ handler' \in [Handler -> [pc : HandlerSteps, pos : Nat]]
      /\ handler'[h].pc = "flush" /\ handler'[h].pos = p + 1
      /\ \A g \in Handler \ {h} : handler'[g] = handler[g]
  <2>1. handler \in [Handler -> [pc : HandlerSteps, pos : Nat]] /\ p + 1 \in Nat
    BY <1>0 DEF ChannelTyped
  <2>2. [handler[h] EXCEPT !.pos = p + 1] \in [pc : HandlerSteps, pos : Nat]
    BY <2>1
  <2>3. handler' = [handler EXCEPT ![h] = [handler[h] EXCEPT !.pos = p + 1]]
    BY <1>1
  <2>4. /\ handler' \in [Handler -> [pc : HandlerSteps, pos : Nat]]
        /\ handler'[h] = [handler[h] EXCEPT !.pos = p + 1]
        /\ \A g \in Handler \ {h} : handler'[g] = handler[g]
    BY <2>1, <2>2, <2>3
  <2> QED BY <1>1, <2>1, <2>4
<1>3. /\ sent' \in [Beats -> Nat] /\ \A c \in Beats \ {b} : sent'[c] = sent[c]
      /\ \/ sent'[b] = sent[b] + 1 /\ UNCHANGED troubled
         \/ sent'[b] = sent[b] /\ troubled' = TRUE
  BY <1>0, <1>1 DEF ChannelTyped
<1>4. ChannelTyped' /\ EachOnce' /\ Alone'
  <2>1. troubled' \in BOOLEAN
    BY <1>0, <1>3, Zenon DEF ChannelTyped
  <2>2. ChannelTyped'
    BY <1>0, <1>1, <1>2, <1>3, <2>1 DEF ChannelTyped
  <2>3. EachOnce'
    BY <1>1 DEF ChannelInv, EachOnce
  <2>4. \A g \in Handler : handler'[g].pc = "flush" => handler[g].pc = "flush"
    BY <1>1, <1>2
  <2>5. Alone'
    BY <1>1, <2>4 DEF ChannelInv, Alone
  <2> QED BY <2>2, <2>3, <2>5
<1>5. NotYet'
  BY <1>0, <1>1, <1>3 DEF ChannelInv, NotYet, Beats
<1>6. \A i \in 1 .. Len(queue) : queue[i] \in Beats /\ (i # p + 1 => queue[i] # b)
  BY <1>0 DEF ChannelInv, EachOnce, ChannelTyped
<1>7. Behind'
  <2> SUFFICES ASSUME ~overlapped, NEW i \in 1 .. Len(queue), sent'[queue[i]] # 0
               PROVE  \E g \in Handler : handler'[g].pc = "flush" /\ i <= handler'[g].pos
    BY <1>1 DEF Behind
  <2>1. CASE i = p + 1
    BY <1>2, <2>1
  <2>2. CASE i # p + 1
    <3>1. PICK g \in Handler : handler[g].pc = "flush" /\ i <= handler[g].pos
      BY <1>3, <1>6, <2>2 DEF ChannelInv, Behind
    <3>2. handler'[g].pc = "flush" /\ i <= handler'[g].pos
      BY <1>0, <1>2, <3>1
    <3> QED BY <3>2
  <2> QED BY <2>1, <2>2
<1>8. Emitted'
  <2> SUFFICES ASSUME ~overlapped, ~troubled', NEW g \in Handler, handler'[g].pc = "flush",
                      NEW i \in 1 .. Len(queue), i <= handler'[g].pos
               PROVE  sent'[queue[i]] > 0
    BY <1>1 DEF Emitted
  <2>1. g = h /\ ~troubled
    BY <1>1, <1>2, <1>3 DEF ChannelInv, Alone
  <2>2. sent[b] \in Nat /\ sent'[b] = sent[b] + 1
    BY <1>0, <1>3 DEF ChannelTyped
  <2>3. CASE i = p + 1
    BY <2>2, <2>3
  <2>4. CASE i # p + 1
    <3>1. i <= p
      BY <1>0, <1>2, <2>1, <2>4
    <3>2. sent[queue[i]] > 0
      BY <1>1, <2>1, <3>1 DEF ChannelInv, Emitted
    <3> QED BY <1>3, <1>6, <2>4, <3>2
  <2> QED BY <2>3, <2>4
<1>9. BeatsKept'
  <2>1. SentOnce'
    <3> SUFFICES ASSUME ~overlapped, NEW c \in 1 .. made PROVE sent'[c] <= 1
      BY <1>1 DEF SentOnce
    <3>1. c \in Beats /\ sent[c] <= 1
      <4>1. c \in Beats
        BY <1>0, ChannelAssumption DEF ChannelTyped, Beats
      <4> QED BY <4>1 DEF ChannelInv, BeatsKept, SentOnce
    <3>2. sent[b] = 0
      <4>1. \A g \in Handler : handler[g].pc = "flush" => g = h
        BY <1>1 DEF ChannelInv, Alone
      <4> QED BY <1>0, <4>1 DEF ChannelInv, Behind
    <3> QED BY <1>3, <3>1, <3>2
  <2>2. ASSUME NEW c \in Beats, sent[c] > 0 PROVE sent'[c] > 0
    <3>1. sent[b] \in Nat
      BY <1>0 DEF ChannelTyped
    <3> QED BY <1>3, <2>2, <3>1
  <2>3. \A c \in 1 .. made : c \in Beats
    BY <1>0, ChannelAssumption DEF ChannelTyped, Beats
  <2>4. Queued' = Queued /\ (~troubled' => ~troubled)
    BY <1>1 DEF Queued
  <2>5. NothingLostInPeace'
    BY <1>1, <2>2, <2>3, <2>4 DEF ChannelInv, BeatsKept, NothingLostInPeace
  <2> QED BY <2>1, <2>5 DEF BeatsKept
<1> QED BY <1>4, <1>5, <1>7, <1>8, <1>9 DEF ChannelInv

(* A flush has come to the end: the queue is cleared. *)
LEMMA FlushDoneStep == ASSUME ChannelInv, NEW h \in Handler, FlushDone(h) PROVE ChannelInv'
<1>1. /\ handler[h].pc = "flush" /\ handler[h].pos >= Len(queue)
      /\ handler' = [handler EXCEPT ![h] = Rest] /\ queue' = <<>>
      /\ UNCHANGED <<made, sent, dropped, troubled, overlapped>>
  BY DEF FlushDone, ghosts
<1>2. Len(queue') = 0 /\ queue' \in Seq(Beats)
  BY <1>1
<1>3. ChannelTyped' /\ EachOnce' /\ NotYet' /\ Alone'
  BY <1>1, <1>2 DEF ChannelInv, ChannelTyped, EachOnce, NotYet, Alone, Rest, HandlerSteps
<1>4. Behind' /\ Emitted'
  BY <1>2 DEF Behind, Emitted
<1>5. ~troubled /\ ~overlapped => \A b \in Queued : sent[b] > 0
  <2>1. handler[h].pos \in Nat /\ Len(queue) \in Nat /\ DOMAIN queue = 1 .. Len(queue)
    BY DEF ChannelInv, ChannelTyped
  <2> QED BY <1>1, <2>1 DEF ChannelInv, Emitted, Queued
<1>6. BeatsKept'
  BY <1>1, <1>5 DEF ChannelInv, BeatsKept, NothingLostInPeace, SentOnce
<1> QED BY <1>3, <1>4, <1>6 DEF ChannelInv

(* A heartbeat is queued: the oldest goes if there is no place. *)
LEMMA EnqueueFacts ==
  ASSUME ChannelInv, NEW b \in Beats, b > made, Enqueue(b)
  PROVE  \E k \in {0, 1} :
           /\ queue' \in Seq(Beats) /\ Len(queue') = Len(queue) + 1 - k
           /\ \A i \in 1 .. Len(queue') :
                IF i = Len(queue') THEN queue'[i] = b ELSE i + k \in 1 .. Len(queue) /\ queue'[i] = queue[i + k]
           /\ k = 0 => UNCHANGED dropped
           /\ k = 1 => dropped' = dropped \cup {IF queue = <<>> THEN b ELSE queue[1]}
<1> DEFINE full == Append(queue, b)
<1>1. /\ queue \in Seq(Beats) /\ Len(queue) \in Nat /\ full \in Seq(Beats) /\ Len(full) = Len(queue) + 1
      /\ \A i \in 1 .. Len(full) : full[i] = IF i = Len(full) THEN b ELSE queue[i]
  <2>1. queue \in Seq(Beats)
    BY DEF ChannelInv, ChannelTyped
  <2> QED BY <2>1
<1>2. CASE Len(full) <= QueueLimit
  BY <1>1, <1>2 DEF Enqueue
<1>3. CASE ~(Len(full) <= QueueLimit)
  <2>1. queue' = Tail(full) /\ dropped' = dropped \cup {Head(full)} /\ full # <<>>
    BY <1>1, <1>3 DEF Enqueue
  <2>2. Head(full) = IF queue = <<>> THEN b ELSE queue[1]
    BY <1>1, <2>1
  <2>3. queue' \in Seq(Beats) /\ Len(queue') = Len(full) - 1 /\ \A i \in 1 .. Len(queue') : queue'[i] = full[i + 1]
    BY <1>1, <2>1
  <2>4. /\ Len(queue') = Len(queue)
        /\ \A i \in 1 .. Len(queue') :
             IF i = Len(queue') THEN queue'[i] = b ELSE i + 1 \in 1 .. Len(queue) /\ queue'[i] = queue[i + 1]
    BY <1>1, <2>3
  <2> QED BY <1>1, <2>1, <2>2, <2>3, <2>4
<1> QED BY <1>2, <1>3

(* The next heartbeat, emitted or queued. *)
LEMMA BeatStep == ASSUME ChannelInv, Beat PROVE ChannelInv'
<1> DEFINE b == made + 1
<1>0. /\ ChannelTyped /\ made \in Nat /\ b \in Beats /\ b > made /\ made' = b /\ made' \in 0 .. MaxBeats /\ sent[b] = 0
      /\ UNCHANGED <<handler, overlapped>>
  BY ChannelAssumption DEF ChannelInv, ChannelTyped, NotYet, Beat, Beats
<1>1. CASE sent' = [sent EXCEPT ![b] = @ + 1] /\ UNCHANGED <<queue, dropped, troubled>>
  <2>1. sent' \in [Beats -> Nat] /\ sent'[b] = 1 /\ \A c \in Beats \ {b} : sent'[c] = sent[c]
    BY <1>0, <1>1 DEF ChannelTyped
  <2>2. \A i \in 1 .. Len(queue) : queue[i] \in Beats /\ queue[i] <= made /\ queue[i] # b
    <3>1. \A i \in 1 .. Len(queue) : queue[i] \in Beats /\ queue[i] <= made
      BY <1>0 DEF ChannelInv, EachOnce, ChannelTyped
    <3> QED BY <1>0, <3>1 DEF Beats
  <2>3. ChannelTyped' /\ Alone'
    BY <1>0, <1>1, <2>1 DEF ChannelInv, ChannelTyped, Alone
  <2>7. EachOnce'
    <3>1. \A i \in 1 .. Len(queue) : queue[i] <= made'
      BY <1>0, <2>2 DEF Beats
    <3> QED BY <1>1, <3>1 DEF ChannelInv, EachOnce
  <2>4. NotYet'
    BY <1>0, <2>1 DEF ChannelInv, NotYet, Beats
  <2>5. Behind' /\ Emitted'
    BY <1>0, <1>1, <2>1, <2>2 DEF ChannelInv, Behind, Emitted
  <2>6. BeatsKept'
    BY <1>0, <1>1, <2>1 DEF ChannelInv, BeatsKept, NothingLostInPeace, SentOnce, Queued, Beats
  <2> QED BY <2>3, <2>4, <2>5, <2>6, <2>7 DEF ChannelInv
<1>2. CASE Enqueue(b) /\ troubled' = (troubled \/ Flushing) /\ UNCHANGED sent
  <2>0. troubled' \in BOOLEAN /\ (~troubled' => ~troubled /\ \A h \in Handler : handler[h].pc # "flush")
    BY <1>2, Zenon DEF Flushing
  <2>1. PICK k \in {0, 1} :
           /\ queue' \in Seq(Beats) /\ Len(queue') = Len(queue) + 1 - k
           /\ \A i \in 1 .. Len(queue') :
                IF i = Len(queue') THEN queue'[i] = b ELSE i + k \in 1 .. Len(queue) /\ queue'[i] = queue[i + k]
           /\ k = 0 => UNCHANGED dropped
           /\ k = 1 => dropped' = dropped \cup {IF queue = <<>> THEN b ELSE queue[1]}
    BY <1>0, <1>2, EnqueueFacts
  <2>2. \A i \in 1 .. Len(queue) : queue[i] \in Beats /\ queue[i] <= made
    BY <1>0 DEF ChannelInv, EachOnce, ChannelTyped
  <2>3. ChannelTyped'
    BY <1>0, <1>2, <2>0, <2>1 DEF ChannelTyped
  <2>4. EachOnce'
    <3>1. ASSUME NEW i \in 1 .. Len(queue') PROVE queue'[i] <= made'
      <4>1. CASE i = Len(queue')
        BY <1>0, <2>1, <4>1
      <4>2. CASE i # Len(queue')
        <5>1. i + k \in 1 .. Len(queue) /\ queue'[i] = queue[i + k]
          BY <2>1, <4>2
        <5>2. queue[i + k] <= made /\ queue[i + k] \in Nat
          BY <2>2, <5>1 DEF Beats
        <5> QED BY <1>0, <5>1, <5>2
      <4> QED BY <4>1, <4>2
    <3>2. ASSUME NEW i \in 1 .. Len(queue'), NEW j \in 1 .. Len(queue'), queue'[i] = queue'[j] PROVE i = j
      <4>1. Len(queue) \in Nat /\ Len(queue') \in Nat /\ \A m \in 1 .. Len(queue) : queue[m] # b
        BY <1>0, <2>1, <2>2 DEF ChannelTyped, Beats
      <4>2. CASE i = Len(queue') \/ j = Len(queue')
        BY <2>1, <3>2, <4>1, <4>2
      <4>3. CASE i # Len(queue') /\ j # Len(queue')
        <5>1. i + k \in 1 .. Len(queue) /\ j + k \in 1 .. Len(queue) /\ queue[i + k] = queue[j + k]
          BY <2>1, <3>2, <4>3
        <5>2. i + k = j + k
          BY <5>1 DEF ChannelInv, EachOnce
        <5> QED BY <4>1, <5>2
      <4> QED BY <4>2, <4>3
    <3> QED BY <3>1, <3>2 DEF EachOnce
  <2>5. NotYet' /\ Alone'
    BY <1>0, <1>2 DEF ChannelInv, NotYet, Alone, Beats
  <2>6. Behind'
    <3> SUFFICES ASSUME ~overlapped, NEW i \in 1 .. Len(queue'), sent[queue'[i]] # 0
                 PROVE  \E h \in Handler : handler[h].pc = "flush" /\ i <= handler[h].pos
      BY <1>0, <1>2 DEF Behind
    <3>1. i # Len(queue') /\ i + k \in 1 .. Len(queue) /\ queue'[i] = queue[i + k]
      BY <1>0, <2>1
    <3>2. PICK h \in Handler : handler[h].pc = "flush" /\ i + k <= handler[h].pos
      BY <3>1 DEF ChannelInv, Behind
    <3>3. i <= handler[h].pos
      BY <1>0, <3>2 DEF ChannelTyped
    <3> QED BY <3>2, <3>3
  <2>7. Emitted'
    BY <1>0, <2>0 DEF Emitted
  <2>8. NothingLostInPeace'
    <3> SUFFICES ASSUME ~troubled, ~overlapped, NEW c \in 1 .. b
                 PROVE  sent[c] > 0 \/ c \in Queued' \/ c \in dropped'
      BY <1>0, <1>2, <2>0 DEF NothingLostInPeace
    <3>1. Len(queue) \in Nat /\ Len(queue') \in Nat /\ DOMAIN queue' = 1 .. Len(queue') /\ DOMAIN queue = 1 .. Len(queue)
      BY <1>0, <2>1 DEF ChannelTyped
    <3>2. dropped \subseteq dropped'
      BY <2>1
    <3>3. CASE c = b /\ Len(queue') > 0
      BY <2>1, <3>1, <3>3 DEF Queued
    <3>4. CASE c = b /\ Len(queue') = 0
      <4>1. k = 1 /\ Len(queue) = 0
        BY <2>1, <3>1, <3>4
      <4>2. queue = <<>>
        BY <1>0, <4>1 DEF ChannelTyped
      <4> QED BY <2>1, <3>4, <4>1, <4>2
    <3>5. ASSUME c # b, NEW i \in 1 .. Len(queue), c = queue[i] PROVE c \in Queued' \/ c \in dropped'
      <4>1. CASE i > k
        <5>1. i - k \in 1 .. Len(queue') /\ i - k # Len(queue')
          BY <2>1, <3>1, <4>1
        <5>2. queue'[i - k] = queue[(i - k) + k]
          BY <2>1, <5>1
        <5>3. (i - k) + k = i
          OBVIOUS
        <5> QED BY <3>1, <3>5, <5>1, <5>2, <5>3 DEF Queued
      <4>2. CASE i <= k
        <5>1. k = 1 /\ i = 1 /\ queue # <<>>
          BY <3>1, <4>2
        <5> QED BY <2>1, <3>5, <5>1
      <4> QED BY <4>1, <4>2
    <3>6. c # b => c \in 1 .. made
      BY <1>0
    <3> QED BY <3>1, <3>2, <3>3, <3>4, <3>5, <3>6 DEF ChannelInv, BeatsKept, NothingLostInPeace, Queued
  <2>9. SentOnce'
    BY <1>0, <1>2 DEF ChannelInv, BeatsKept, SentOnce
  <2> QED BY <2>3, <2>4, <2>5, <2>6, <2>7, <2>8, <2>9 DEF ChannelInv, BeatsKept
<1> QED BY <1>1, <1>2 DEF Beat

(* Every step keeps the invariant. *)
LEMMA ChannelInductive == ChannelInv /\ [ChannelNext]_channelVars => ChannelInv'
<1> SUFFICES ASSUME ChannelInv, [ChannelNext]_channelVars PROVE ChannelInv'
  OBVIOUS
<1>1. CASE UNCHANGED channelVars
  BY <1>1, QuietStep DEF channelVars, ghosts, ChannelInv, ChannelTyped
<1>2. CASE ChannelNext
  BY <1>2, ConnectionStep, RegisterStep, FlushOneStep, FlushDoneStep, BeatStep
  DEF ChannelNext, SocketStep, HandlerStep
<1> QED BY <1>1, <1>2

(* Through disconnections and reconnections the queue loses no heartbeat and *)
(* emits none twice, but for the flushes that were disturbed or overlapped.  *)
THEOREM HeartbeatsKeptHolds == ChannelSpec => []HeartbeatsKept
<1>1. ChannelInv => HeartbeatsKept
  BY DEF ChannelInv, BeatsKept, HeartbeatsKept
<1> QED BY <1>1, ChannelInitInv, ChannelInductive, PTL DEF ChannelSpec

(* What is left of the types: the queue is never over its limit, nor longer    *)
(* than there are heartbeats, and a flush does not run beyond its end.         *)
ChannelBounds ==
  /\ reachable \in BOOLEAN /\ connected \in BOOLEAN /\ online \in BOOLEAN
  /\ waiter \in {"connecting", "asleep"}
  /\ Len(queue) <= QueueLimit /\ Len(queue) <= made /\ dropped \subseteq 1 .. made
  /\ \A h \in Handler : handler[h].pos <= MaxBeats

LEMMA BoundsInit == ChannelInit => ChannelBounds
<1> SUFFICES ASSUME ChannelInit PROVE ChannelBounds
  OBVIOUS
<1>1. connected \in BOOLEAN /\ online \in BOOLEAN /\ reachable \in BOOLEAN
  BY Zenon DEF ChannelInit
<1>2. MaxBeats \in Nat /\ QueueLimit \in Nat
  BY ChannelAssumption
<1>3. Len(queue) = 0 /\ made = 0 /\ dropped = {} /\ waiter = "connecting"
  BY DEF ChannelInit
<1>4. \A h \in Handler : handler[h].pos = 0
  BY DEF ChannelInit, Rest
<1> QED BY <1>1, <1>2, <1>3, <1>4 DEF ChannelBounds

LEMMA BoundsKept == ChannelInv /\ ChannelBounds /\ [ChannelNext]_channelVars => ChannelBounds'
<1> SUFFICES ASSUME ChannelInv, ChannelBounds, [ChannelNext]_channelVars PROVE ChannelBounds'
  OBVIOUS
<1>0. /\ made \in Nat /\ made <= MaxBeats /\ queue \in Seq(Beats) /\ Len(queue) \in Nat
      /\ handler \in [Handler -> [pc : HandlerSteps, pos : Nat]] /\ MaxBeats \in Nat /\ QueueLimit \in Nat \ {0}
  BY ChannelAssumption DEF ChannelInv, ChannelTyped
<1>1. CASE UNCHANGED channelVars
  BY <1>1 DEF channelVars, conns, ghosts, ChannelBounds
<1>2. CASE NetworkChanges \/ Disconnects \/ ConnectFails \/ WakesUp
  <2>1. UNCHANGED <<queue, handler, made, dropped>> /\ waiter' \in {waiter, "connecting", "asleep"}
    BY <1>2 DEF NetworkChanges, Disconnects, ConnectFails, WakesUp, ghosts
  <2>2. reachable' \in BOOLEAN /\ connected' \in BOOLEAN /\ online' \in BOOLEAN
    <3>1. CASE NetworkChanges
      BY <3>1, Zenon DEF NetworkChanges, ChannelBounds
    <3>2. CASE Disconnects
      BY <3>2, Zenon DEF Disconnects, ChannelBounds
    <3>3. CASE ConnectFails
      BY <3>3, Zenon DEF ConnectFails, ChannelBounds
    <3>4. CASE WakesUp
      BY <3>4, Zenon DEF WakesUp, ChannelBounds
    <3> QED BY <1>2, <3>1, <3>2, <3>3, <3>4
  <2> QED BY <2>1, <2>2 DEF ChannelBounds
<1>3. ASSUME NEW h \in Handler, Connects(h) \/ Located(h) PROVE ChannelBounds'
  <2>1. UNCHANGED <<reachable, waiter, queue, made, dropped>>
    BY <1>3 DEF Connects, Located, conns, ghosts
  <2>2. connected' \in BOOLEAN /\ online' \in BOOLEAN
    <3>1. CASE Connects(h)
      BY <3>1, Zenon DEF Connects
    <3>2. CASE Located(h)
      BY <3>2, Zenon DEF Located, conns, ChannelBounds
    <3> QED BY <1>3, <3>1, <3>2
  <2>3. PICK pc \in {"locate", "register"} : handler' = [handler EXCEPT ![h].pc = pc]
    BY <1>3 DEF Connects, Located
  <2>4. \A g \in Handler : handler'[g].pos = handler[g].pos
    BY <1>0, <2>3
  <2> QED BY <2>1, <2>2, <2>4 DEF ChannelBounds
<1>4. ASSUME NEW h \in Handler, Register(h) \/ FlushDone(h) PROVE ChannelBounds'
  <2>1. UNCHANGED <<reachable, connected, online, waiter, made, dropped>> /\ queue' \in {queue, <<>>}
    BY <1>4 DEF Register, FlushDone, conns, ghosts
  <2>2. PICK r \in {Rest, [pc |-> "flush", pos |-> 0]} : handler' = [handler EXCEPT ![h] = r]
    BY <1>4 DEF Register, FlushDone
  <2>3. \A g \in Handler : handler'[g].pos \in {0, handler[g].pos}
    BY <1>0, <2>2 DEF Rest
  <2>4. \A g \in Handler : handler'[g].pos <= MaxBeats
    BY <1>0, <2>3 DEF ChannelBounds
  <2>5. Len(queue') <= QueueLimit /\ Len(queue') <= made'
    BY <1>0, <2>1 DEF ChannelBounds
  <2> QED BY <2>1, <2>4, <2>5 DEF ChannelBounds
<1>5. ASSUME NEW h \in Handler, FlushOne(h) PROVE ChannelBounds'
  <2>1. /\ UNCHANGED <<reachable, connected, online, waiter, queue, made, dropped>>
        /\ handler[h].pos < Len(queue) /\ handler' = [handler EXCEPT ![h].pos = @ + 1]
    BY <1>5 DEF FlushOne, conns
  <2>2. \A g \in Handler : handler'[g].pos = IF g = h THEN handler[h].pos + 1 ELSE handler[g].pos
    BY <1>0, <2>1
  <2>3. handler[h].pos \in Nat /\ Len(queue) <= made
    BY <1>0 DEF ChannelBounds
  <2>4. \A g \in Handler : handler'[g].pos <= MaxBeats
    BY <1>0, <2>1, <2>2, <2>3 DEF ChannelBounds
  <2> QED BY <2>1, <2>4 DEF ChannelBounds
<1>6. CASE Beat
  <2>1. /\ UNCHANGED <<reachable, connected, online, waiter, handler>> /\ made' = made + 1 /\ made < MaxBeats
        /\ UNCHANGED <<queue, dropped>> \/ Enqueue(made')
    BY <1>6 DEF Beat, conns
  <2>2. Len(queue') <= QueueLimit /\ Len(queue') <= made' /\ dropped' \subseteq 1 .. made'
    <3>1. CASE UNCHANGED <<queue, dropped>>
      BY <1>0, <2>1, <3>1 DEF ChannelBounds
    <3>2. CASE Enqueue(made')
      <4> DEFINE full == Append(queue, made')
      <4>1. /\ Len(full) = Len(queue) + 1 /\ full \in Seq(Beats)
            /\ \A i \in 1 .. Len(full) : full[i] \in 1 .. made'
        <5>1. made' \in Beats /\ \A i \in 1 .. Len(queue) : queue[i] \in 1 .. made'
          BY <1>0, <2>1 DEF ChannelInv, EachOnce, Beats
        <5>2. /\ Len(full) = Len(queue) + 1 /\ full \in Seq(Beats)
              /\ \A i \in 1 .. Len(full) : full[i] = IF i = Len(full) THEN made' ELSE queue[i]
          BY <1>0, <5>1
        <5>3. made' \in 1 .. made'
          BY <1>0, <2>1
        <5> QED BY <1>0, <5>1, <5>2, <5>3
      <4>2. dropped \subseteq 1 .. made'
        BY <1>0, <2>1 DEF ChannelBounds
      <4>0. Len(queue) <= made /\ Len(queue) <= QueueLimit
        BY DEF ChannelBounds
      <4>3. CASE Len(full) <= QueueLimit
        <5>1. queue' = full /\ UNCHANGED dropped
          BY <3>2, <4>3 DEF Enqueue
        <5>2. Len(queue) + 1 <= made'
          BY <1>0, <2>1, <4>0
        <5> HIDE DEF full
        <5> QED BY <4>1, <4>2, <4>3, <5>1, <5>2
      <4>4. CASE ~(Len(full) <= QueueLimit)
        <5>1. queue' = Tail(full) /\ dropped' = dropped \cup {Head(full)}
          BY <3>2, <4>4 DEF Enqueue
        <5>2. full # <<>> /\ Head(full) = full[1] /\ 1 \in 1 .. Len(full)
          <6>1. full \in Seq(Beats) /\ Len(full) \in Nat /\ Len(full) >= 1
            BY <1>0, <4>1
          <6> HIDE DEF full
          <6>2. full # <<>>
            BY <6>1
          <6> QED BY <6>1, <6>2
        <5>3. Len(queue') = Len(queue)
          BY <1>0, <4>1, <5>1, <5>2
        <5>4. Head(full) \in 1 .. made' /\ Len(queue) <= made'
          BY <1>0, <2>1, <4>0, <4>1, <5>2
        <5> HIDE DEF full
        <5> QED BY <4>0, <4>2, <5>1, <5>3, <5>4
      <4> QED BY <4>3, <4>4
    <3> QED BY <2>1, <3>1, <3>2
  <2> QED BY <2>1, <2>2 DEF ChannelBounds
<1> QED BY <1>1, <1>2, <1>3, <1>4, <1>5, <1>6 DEF ChannelNext, SocketStep, HandlerStep

LEMMA ChannelInvGives == ChannelInv /\ ChannelBounds => ChannelTypeOK /\ HeartbeatsKept
<1> SUFFICES ASSUME ChannelInv, ChannelBounds PROVE ChannelTypeOK /\ HeartbeatsKept
  OBVIOUS
<1>1. /\ made \in 0 .. MaxBeats /\ queue \in Seq(Beats) /\ sent \in [Beats -> Nat]
      /\ handler \in [Handler -> [pc : HandlerSteps, pos : Nat]] /\ MaxBeats \in Nat
      /\ troubled \in BOOLEAN /\ overlapped \in BOOLEAN
  BY ChannelAssumption DEF ChannelInv, ChannelTyped
<1>2. Queued \subseteq 1 .. made
  <2>1. \A i \in 1 .. Len(queue) : queue[i] \in Beats /\ queue[i] <= made
    BY <1>1 DEF ChannelInv, EachOnce
  <2>2. \A i \in 1 .. Len(queue) : queue[i] \in 1 .. made
    BY <1>1, <2>1 DEF Beats
  <2>3. DOMAIN queue = 1 .. Len(queue)
    BY <1>1
  <2> QED BY <2>2, <2>3 DEF Queued
<1>3. handler \in [Handler -> [pc : {"idle", "locate", "register", "flush"}, pos : 0 .. MaxBeats]]
  <2> DEFINE Flush == [pc : {"idle", "locate", "register", "flush"}, pos : 0 .. MaxBeats]
  <2>1. ASSUME NEW h \in Handler PROVE handler[h] \in Flush
    <3>1. handler[h] \in [pc : HandlerSteps, pos : Nat] /\ handler[h].pos <= MaxBeats
      BY <1>1 DEF ChannelBounds
    <3> QED BY <1>1, <3>1 DEF HandlerSteps
  <2> HIDE DEF Flush
  <2>2. handler \in [Handler -> Flush]
    BY <1>1, <2>1
  <2> QED BY <2>2 DEF Flush
<1>4. ChannelTypeOK
  BY <1>1, <1>2, <1>3 DEF ChannelTypeOK, ChannelBounds, Beats
<1> QED BY <1>4 DEF ChannelInv, BeatsKept, HeartbeatsKept

(* The variables of the channel stay in their sets, and the queue under its    *)
(* limit, whatever the handlers, the heartbeats and the connection do.         *)
THEOREM ChannelTypeCorrect == ChannelSpec => []ChannelTypeOK
BY ChannelInitInv, ChannelInductive, BoundsInit, BoundsKept, ChannelInvGives, PTL DEF ChannelSpec

-----------------------------------------------------------------------------
(* Location. *)

LoopSteps == {"asleep", "list", "place", "fetch", "send"}
Turns  == 0 .. now
Wakes  == 0 .. now + 1
Limits == {-TTL} \cup 0 .. now
Lists  == -1 .. now
Places == {NoPlace} \cup 0 .. now
BeatRecords ==
  [pc : LoopSteps, turn : Turns, wake : Wakes, geo : Limits, listed : Limits, list : Lists, place : Places]
FetchRecords == [pc : Sources \cup Over \cup {"idle"}, began : 0 .. now]

\* The loop waits for its own fetch, and for nothing else.
WaitsForFetch == beat.pc = "fetch" <=> fetch["heartbeat"].pc # "idle"

\* A fetch keeps to its time limits.
FetchInTime == \A f \in Fetchers : fetch[f].pc \in Sources => now - fetch[f].began <= Slowest

\* The place was taken after its fetch began.
CacheOrder == cache.taken # NoPlace => cache.at <= cache.taken

\* A fetch of the loop that has just ended leaves a place of now, or an outage.
FreshNow ==
  fetch["heartbeat"].pc \in Over /\ ~outage /\ cache.taken # NoPlace => cache.taken = now

\* What a turn has waited for since it began, or since it listed the programs.
TurnInTime ==
  /\ beat.pc = "list" => now - beat.turn <= Slowest
  /\ beat.pc = "place" => now - beat.turn <= Slowest /\ now \in {beat.turn, beat.list}
  /\ fetch["heartbeat"].pc \in Sources => fetch["heartbeat"].began \in {beat.turn, beat.list}
  /\ beat.pc = "send" \/ fetch["heartbeat"].pc \in Over =>
       now - beat.turn <= Slowest \/ (beat.list # -1 /\ now - beat.list <= Slowest)

\* The limit of the programs, when the turn has come to it.
ListLimit ==
  /\ beat.list # -1 => beat.listed <= beat.list
  /\ beat.pc \in {"place", "fetch", "send"} =>
       IF beat.list = -1 THEN booted + beat.turn < TTL ELSE beat.turn - beat.listed < TTL

\* A turn that may go on with the cached place finds one that was not old when
\* the limit began.
PlaceLimit == ~outage /\ cache.taken # NoPlace => beat.geo - cache.taken < TTL

\* The place that is to be sent.
PlaceAge == beat.pc = "send" /\ beat.place # NoPlace => now - beat.place <= 2 * (TTL - 1) + Slowest

Reported == PlaceNotTooOld /\ sentList < TTL + Slowest

LocationInv ==
  /\ LocationTypeOK /\ WaitsForFetch /\ FetchInTime /\ CacheOrder /\ FreshNow
  /\ TurnInTime /\ ListLimit /\ PlaceLimit /\ PlaceAge /\ Reported

(* The type invariant, field by field. *)
LEMMA LocationFields ==
  ASSUME LocationTypeOK
  PROVE  /\ TTL \in Nat /\ TTL > 0 /\ Slowest \in Nat /\ MaxTime \in Nat
         /\ now \in Nat /\ now <= MaxTime /\ booted \in Nat /\ "heartbeat" \in Fetchers
         /\ cache.at \in Nat /\ cache.at <= now
         /\ cache.taken # NoPlace => cache.taken \in Nat /\ cache.taken <= now
         /\ beat \in BeatRecords /\ fetch \in [Fetchers -> FetchRecords]
         /\ beat.pc \in LoopSteps /\ beat.turn \in Nat /\ beat.turn <= now
         /\ beat.geo \in Int /\ beat.geo <= now /\ beat.listed \in Int /\ beat.listed <= now
         /\ beat.list \in Int /\ beat.list >= -1 /\ beat.list <= now
         /\ beat.place # NoPlace => beat.place \in Nat /\ beat.place <= now
<1>1. /\ TTL \in Nat /\ TTL > 0 /\ Slowest \in Nat /\ MaxTime \in Nat /\ now \in Nat /\ now <= MaxTime
      /\ booted \in Nat /\ "heartbeat" \in Fetchers
  BY LocationAssumption DEF LocationTypeOK, Fetchers
<1>2. /\ cache.at \in Nat /\ cache.at <= now
      /\ cache.taken # NoPlace => cache.taken \in Nat /\ cache.taken <= now
  BY <1>1 DEF LocationTypeOK
<1>3. beat \in BeatRecords /\ fetch \in [Fetchers -> FetchRecords]
  BY DEF LocationTypeOK, BeatRecords, FetchRecords, LoopSteps, Turns, Wakes, Limits, Lists, Places
<1>4. /\ beat.pc \in LoopSteps /\ beat.turn \in 0 .. now /\ beat.geo \in {-TTL} \cup 0 .. now
      /\ beat.listed \in {-TTL} \cup 0 .. now /\ beat.list \in -1 .. now /\ beat.place \in {NoPlace} \cup 0 .. now
  BY <1>3 DEF BeatRecords, Turns, Wakes, Limits, Lists, Places
<1>5. /\ beat.turn \in Nat /\ beat.turn <= now
      /\ beat.geo \in Int /\ beat.geo <= now /\ beat.listed \in Int /\ beat.listed <= now
      /\ beat.list \in Int /\ beat.list >= -1 /\ beat.list <= now
      /\ beat.place # NoPlace => beat.place \in Nat /\ beat.place <= now
  BY <1>1, <1>4
<1> QED BY <1>1, <1>2, <1>3, <1>4, <1>5

(* The initial states satisfy the invariant. *)
LEMMA LocationInitInv == LocationInit => LocationInv
<1> SUFFICES ASSUME LocationInit PROVE LocationInv
  OBVIOUS
<1>1. /\ now = 0 /\ enabledOnce = FALSE /\ outage = FALSE /\ sentPlace = 0 /\ sentList = 0
      /\ booted \in {0, TTL} /\ googleKey \in BOOLEAN
      /\ cache.taken = NoPlace /\ cache.at = 0
      /\ fetch = [f \in Fetchers |-> [pc |-> "idle", began |-> 0]]
      /\ beat = [pc |-> "asleep", turn |-> 0, wake |-> 0, geo |-> -TTL, listed |-> -TTL, list |-> -1,
                 place |-> NoPlace]
  BY DEF LocationInit, Off
<1>2. TTL \in Nat /\ TTL > 0 /\ Slowest \in Nat /\ MaxTime \in Nat /\ "heartbeat" \in Fetchers
  BY LocationAssumption DEF Fetchers
<1>3. LocationTypeOK
  <2>1. enabledOnce \in BOOLEAN /\ outage \in BOOLEAN
    BY <1>1, Zenon
  <2>2. fetch \in [Fetchers -> FetchRecords]
    BY <1>1 DEF FetchRecords
  <2>3. beat \in BeatRecords
    BY <1>1, <1>2 DEF BeatRecords, LoopSteps, Turns, Wakes, Limits, Lists, Places
  <2>4. /\ now \in 0 .. MaxTime /\ cache.taken \in {NoPlace} \cup 0 .. now /\ cache.at \in 0 .. now
        /\ sentPlace \in 0 .. MaxTime /\ sentList \in -1 .. MaxTime
    BY <1>1, <1>2
  <2> QED BY <1>1, <2>1, <2>2, <2>3, <2>4
  DEF LocationTypeOK, FetchRecords, BeatRecords, LoopSteps, Turns, Wakes, Limits, Lists, Places
<1>4. beat.pc = "asleep" /\ beat.list = -1 /\ \A f \in Fetchers : fetch[f].pc = "idle"
  BY <1>1
<1>5. WaitsForFetch /\ FetchInTime /\ CacheOrder /\ FreshNow /\ PlaceLimit /\ PlaceAge
  BY <1>1, <1>2, <1>4 DEF WaitsForFetch, FetchInTime, CacheOrder, FreshNow, PlaceLimit, PlaceAge, Sources, Over
<1>6. TurnInTime /\ ListLimit /\ Reported
  BY <1>1, <1>2, <1>4 DEF TurnInTime, ListLimit, Reported, PlaceNotTooOld, Sources, Over
<1> QED BY <1>3, <1>5, <1>6 DEF LocationInv

(* A source answers a fetch, the fetch goes on to the next, or the last has failed. *)
LEMMA SourceStep ==
  ASSUME LocationInv, NEW f \in Fetchers, fetch[f].pc \in Sources,
         UNCHANGED <<now, booted, googleKey, beat, sentPlace, sentList>>, enabledOnce' \in BOOLEAN,
         \/ Found(f)
         \/ \E pc \in Sources : Goto(f, pc)
         \/ /\ fetch' = [fetch EXCEPT ![f] = [pc |-> "failed", began |-> 0]]
            /\ outage' = TRUE /\ UNCHANGED cache
  PROVE  LocationInv'
<1>0. LocationTypeOK
  BY DEF LocationInv
<1>1. /\ fetch[f] \in FetchRecords /\ fetch[f].began \in Nat /\ fetch[f].began <= now
      /\ now - fetch[f].began <= Slowest
  BY <1>0, LocationFields DEF FetchRecords, LocationInv, FetchInTime
<1>2. /\ fetch' \in [Fetchers -> FetchRecords] /\ \A g \in Fetchers \ {f} : fetch'[g] = fetch[g]
      /\ \/ fetch'[f].pc = "found" /\ cache' = [taken |-> now, at |-> fetch[f].began] /\ outage' = FALSE
         \/ fetch'[f].pc \in Sources /\ fetch'[f].began = fetch[f].began /\ UNCHANGED <<cache, outage>>
         \/ fetch'[f].pc = "failed" /\ outage' = TRUE /\ UNCHANGED cache
  <2>1. CASE Found(f)
    BY <1>0, <1>1, <2>1, LocationFields DEF Found, FetchRecords, Over
  <2>2. ASSUME NEW pc \in Sources, Goto(f, pc)
        PROVE  /\ fetch' \in [Fetchers -> FetchRecords] /\ \A g \in Fetchers \ {f} : fetch'[g] = fetch[g]
               /\ fetch'[f].pc \in Sources /\ fetch'[f].began = fetch[f].began /\ UNCHANGED <<cache, outage>>
    BY <1>0, <1>1, <2>2, LocationFields DEF Goto, FetchRecords
  <2>3. CASE fetch' = [fetch EXCEPT ![f] = [pc |-> "failed", began |-> 0]] /\ outage' = TRUE /\ UNCHANGED cache
    BY <1>0, <1>1, <2>3, LocationFields DEF FetchRecords, Over
  <2> QED BY <2>1, <2>2, <2>3
<1>3. LocationTypeOK'
  <2>1. outage' \in BOOLEAN
    BY <1>0, <1>2, Zenon DEF LocationTypeOK
  <2>2. cache'.taken \in {NoPlace} \cup 0 .. now /\ cache'.at \in 0 .. now
    BY <1>0, <1>1, <1>2, LocationFields DEF LocationTypeOK
  <2> QED BY <1>0, <1>2, <2>1, <2>2 DEF LocationTypeOK, FetchRecords
<1>4. f = "heartbeat" \/ fetch'["heartbeat"] = fetch["heartbeat"]
  BY <1>0, <1>2, LocationFields
<1>5. WaitsForFetch' /\ FetchInTime' /\ CacheOrder'
  BY <1>1, <1>2, <1>4 DEF LocationInv, WaitsForFetch, FetchInTime, CacheOrder, Sources
<1>6. FreshNow'
  BY <1>2, <1>4 DEF LocationInv, FreshNow, Sources, Over
<1>7. TurnInTime'
  <2>1. f = "heartbeat" => fetch[f].began \in {beat.turn, beat.list}
    BY DEF LocationInv, TurnInTime
  <2>2. f = "heartbeat" => now - beat.turn <= Slowest \/ (beat.list # -1 /\ now - beat.list <= Slowest)
    BY <1>1, <2>1
  <2>3. fetch'["heartbeat"].pc \in Sources =>
          fetch["heartbeat"].pc \in Sources /\ fetch'["heartbeat"].began = fetch["heartbeat"].began
    BY <1>2, <1>4 DEF Sources
  <2> QED BY <1>4, <2>2, <2>3 DEF LocationInv, TurnInTime
<1>8. PlaceLimit' /\ PlaceAge' /\ ListLimit' /\ Reported'
  <2>1. beat.geo - now < TTL
    BY <1>0, LocationFields
  <2> QED BY <1>2, <2>1 DEF LocationInv, PlaceLimit, PlaceAge, ListLimit, Reported, PlaceNotTooOld
<1> QED BY <1>3, <1>5, <1>6, <1>7, <1>8 DEF LocationInv

(* A connect handler begins a fetch, or is done with one. *)
LEMMA ConnectStep == ASSUME LocationInv, NEW f \in Fetchers, ConnectFetches(f) \/ ConnectRegisters(f) PROVE LocationInv'
<1>0. LocationTypeOK
  BY DEF LocationInv
<1>1. /\ UNCHANGED <<now, booted, googleKey, beat, sentPlace, sentList, enabledOnce, cache, outage>>
      /\ f # "heartbeat"
      /\ \E r \in {[pc |-> "windows", began |-> now], [pc |-> "idle", began |-> 0]} : fetch' = [fetch EXCEPT ![f] = r]
  BY DEF ConnectFetches, ConnectRegisters, clocks, StartFetch, Off
<1>2. /\ fetch' \in [Fetchers -> FetchRecords] /\ \A g \in Fetchers \ {f} : fetch'[g] = fetch[g]
      /\ fetch'[f].pc \in Sources => fetch'[f].began = now
  BY <1>0, <1>1, LocationFields DEF FetchRecords, Sources
<1>3. LocationTypeOK'
  BY <1>0, <1>1, <1>2 DEF LocationTypeOK, FetchRecords
<1>4. fetch'["heartbeat"] = fetch["heartbeat"]
  BY <1>0, <1>1, <1>2, LocationFields
<1>5. WaitsForFetch' /\ CacheOrder' /\ FreshNow' /\ TurnInTime' /\ ListLimit' /\ PlaceLimit' /\ PlaceAge' /\ Reported'
  BY <1>1, <1>4
  DEF LocationInv, WaitsForFetch, CacheOrder, FreshNow, TurnInTime, ListLimit, PlaceLimit, PlaceAge,
      Reported, PlaceNotTooOld
<1>6. FetchInTime'
  BY <1>0, <1>1, <1>2, LocationFields DEF LocationInv, FetchInTime
<1> QED BY <1>3, <1>5, <1>6 DEF LocationInv


(* What the loop's own steps, which have no fetch begin or end, leave as it is. *)
LEMMA LoopStep ==
  ASSUME LocationInv, UNCHANGED <<now, booted, googleKey, enabledOnce, cache, outage, fetch>>, beat' \in BeatRecords,
         sentPlace' \in 0 .. MaxTime, sentList' \in -1 .. MaxTime
  PROVE  LocationTypeOK' /\ FetchInTime' /\ CacheOrder' /\ FreshNow'
<1>1. BeatRecords' = BeatRecords
  BY DEF BeatRecords, Turns, Wakes, Limits, Lists, Places
<1>2. LocationTypeOK'
  BY DEF LocationInv, LocationTypeOK, BeatRecords, LoopSteps, Turns, Wakes, Limits, Lists, Places
<1> QED BY <1>2 DEF LocationInv, FetchInTime, CacheOrder, FreshNow

(* The next turn begins. *)
LEMMA TurnStep == ASSUME LocationInv, Turn PROVE LocationInv'
<1>0. LocationTypeOK
  BY DEF LocationInv
<1>1. /\ UNCHANGED <<now, booted, googleKey, enabledOnce, cache, outage, fetch, sentPlace, sentList>>
      /\ beat.pc = "asleep" /\ beat' = [beat EXCEPT !.turn = now, !.pc = IF ListDue THEN "list" ELSE "place"]
  BY DEF Turn, still
<1>2. /\ beat' \in BeatRecords /\ beat'.pc = IF ListDue THEN "list" ELSE "place"
      /\ beat'.turn = now /\ beat'.geo = beat.geo /\ beat'.list = beat.list /\ beat'.listed = beat.listed
  <2>1. now \in Turns /\ {"list", "place"} \subseteq LoopSteps /\ beat \in BeatRecords
    BY <1>0, LocationFields DEF LoopSteps, Turns, Wakes, Limits, Lists, Places
  <2> QED BY <1>1, <2>1 DEF BeatRecords
<1>3. LocationTypeOK' /\ FetchInTime' /\ CacheOrder' /\ FreshNow'
  BY <1>0, <1>1, <1>2, LoopStep DEF LocationTypeOK
<1>4. fetch["heartbeat"].pc = "idle"
  BY <1>1 DEF LocationInv, WaitsForFetch
<1>5. WaitsForFetch' /\ PlaceLimit' /\ PlaceAge' /\ Reported'
  BY <1>1, <1>2, <1>4 DEF LocationInv, WaitsForFetch, PlaceLimit, PlaceAge, Reported, PlaceNotTooOld
<1>6. TurnInTime'
  BY <1>0, <1>1, <1>2, <1>4, LocationFields DEF TurnInTime, Sources, Over
<1>7. ListLimit'
  BY <1>0, <1>1, <1>2, LocationFields DEF LocationInv, ListLimit, ListDue
<1> QED BY <1>3, <1>5, <1>6, <1>7 DEF LocationInv

(* The programs are listed, or the listing fails and the turn ends. *)
LEMMA ListStep == ASSUME LocationInv, ListPrograms PROVE LocationInv'
<1>0. LocationTypeOK
  BY DEF LocationInv
<1>1. /\ UNCHANGED <<now, booted, googleKey, enabledOnce, cache, outage, fetch, sentPlace, sentList>>
      /\ beat.pc = "list"
  BY DEF ListPrograms, still
<1>2. /\ beat' \in BeatRecords /\ beat'.turn = beat.turn /\ beat'.geo = beat.geo
      /\ \/ beat'.pc = "place" /\ beat'.list = now /\ beat'.listed = beat.turn
         \/ beat'.pc = "asleep" /\ beat'.list = beat.list /\ beat'.listed = beat.listed
  <2>1. \/ beat' = [beat EXCEPT !.pc = "place", !.list = now, !.listed = beat.turn]
        \/ beat' = [beat EXCEPT !.pc = "asleep", !.wake = now + 1]
    BY DEF ListPrograms
  <2>2. CASE beat' = [beat EXCEPT !.pc = "place", !.list = now, !.listed = beat.turn]
    <3>1. now \in Lists /\ beat.turn \in Limits /\ "place" \in LoopSteps /\ beat \in BeatRecords
      BY <1>0, LocationFields DEF LoopSteps, Turns, Wakes, Limits, Lists, Places
    <3> QED BY <2>2, <3>1 DEF BeatRecords
  <2>3. CASE beat' = [beat EXCEPT !.pc = "asleep", !.wake = now + 1]
    <3>1. now + 1 \in Wakes /\ "asleep" \in LoopSteps /\ beat \in BeatRecords
      BY <1>0, LocationFields DEF LoopSteps, Turns, Wakes, Limits, Lists, Places
    <3> QED BY <2>3, <3>1 DEF BeatRecords
  <2> QED BY <2>1, <2>2, <2>3
<1>3. LocationTypeOK' /\ FetchInTime' /\ CacheOrder' /\ FreshNow'
  BY <1>0, <1>1, <1>2, LoopStep DEF LocationTypeOK
<1>4. fetch["heartbeat"].pc = "idle"
  BY <1>1 DEF LocationInv, WaitsForFetch
<1>5. WaitsForFetch' /\ PlaceLimit' /\ PlaceAge' /\ Reported'
  BY <1>1, <1>2, <1>4 DEF LocationInv, WaitsForFetch, PlaceLimit, PlaceAge, Reported, PlaceNotTooOld
<1>6. TurnInTime'
  BY <1>0, <1>1, <1>2, <1>4, LocationFields DEF LocationInv, TurnInTime, Sources, Over
<1>7. ListLimit'
  BY <1>0, <1>1, <1>2, LocationFields DEF LocationInv, ListLimit
<1> QED BY <1>3, <1>5, <1>6, <1>7 DEF LocationInv

(* The turn goes on with the cached place, or begins a fetch. *)
LEMMA PlaceStep == ASSUME LocationInv, Place PROVE LocationInv'
<1>0. LocationTypeOK
  BY DEF LocationInv
<1>1. /\ UNCHANGED <<now, booted, googleKey, enabledOnce, cache, outage, sentPlace, sentList>> /\ beat.pc = "place"
  BY DEF Place, still
<1>2. fetch["heartbeat"].pc = "idle" /\ now - beat.turn <= Slowest /\ now \in {beat.turn, beat.list}
  BY <1>1 DEF LocationInv, WaitsForFetch, TurnInTime
<1>3. Cached = NoPlace \/ (~outage /\ cache.taken # NoPlace /\ Cached = cache.taken)
  BY DEF Cached
<1>4. CASE /\ cache.taken # NoPlace /\ beat.turn - beat.geo < TTL /\ UNCHANGED fetch
           /\ beat' = [beat EXCEPT !.pc = "send", !.place = Cached]
  <2>1. /\ beat' \in BeatRecords /\ beat'.pc = "send" /\ beat'.place = Cached /\ beat'.turn = beat.turn
        /\ beat'.geo = beat.geo /\ beat'.list = beat.list /\ beat'.listed = beat.listed
    <3>1. Cached \in Places /\ "send" \in LoopSteps /\ beat \in BeatRecords
      BY <1>0, <1>3, LocationFields DEF LoopSteps, Turns, Wakes, Limits, Lists, Places
    <3> QED BY <1>4, <3>1 DEF BeatRecords
  <2>2. LocationTypeOK' /\ FetchInTime' /\ CacheOrder' /\ FreshNow'
    BY <1>0, <1>1, <1>4, <2>1, LoopStep DEF LocationTypeOK
  <2>3. WaitsForFetch' /\ PlaceLimit' /\ Reported' /\ TurnInTime' /\ ListLimit'
    BY <1>1, <1>2, <1>4, <2>1
    DEF LocationInv, WaitsForFetch, PlaceLimit, Reported, PlaceNotTooOld, TurnInTime, ListLimit, Sources, Over
  <2>4. PlaceAge'
    BY <1>0, <1>1, <1>2, <1>3, <1>4, <2>1, LocationFields DEF LocationInv, PlaceAge, PlaceLimit
  <2> QED BY <2>2, <2>3, <2>4 DEF LocationInv
<1>5. CASE /\ CacheGood /\ UNCHANGED fetch
           /\ beat' = [beat EXCEPT !.pc = "send", !.geo = beat.turn, !.place = Cached]
  <2>1. /\ beat' \in BeatRecords /\ beat'.pc = "send" /\ beat'.place = Cached /\ beat'.turn = beat.turn
        /\ beat'.geo = beat.turn /\ beat'.list = beat.list /\ beat'.listed = beat.listed
    <3>1. /\ Cached \in Places /\ beat.turn \in Limits
          /\ "send" \in LoopSteps /\ beat \in BeatRecords
      BY <1>0, <1>3, LocationFields DEF LoopSteps, Turns, Wakes, Limits, Lists, Places
    <3> QED BY <1>5, <3>1 DEF BeatRecords
  <2>2. LocationTypeOK' /\ FetchInTime' /\ CacheOrder' /\ FreshNow'
    BY <1>0, <1>1, <1>5, <2>1, LoopStep DEF LocationTypeOK
  <2>3. WaitsForFetch' /\ Reported' /\ TurnInTime' /\ ListLimit'
    BY <1>1, <1>2, <1>5, <2>1
    DEF LocationInv, WaitsForFetch, Reported, PlaceNotTooOld, TurnInTime, ListLimit, Sources, Over
  <2>4. now - cache.taken < TTL
    BY <1>0, <1>5, LocationFields DEF LocationInv, CacheOrder, CacheGood
  <2>5. PlaceAge' /\ PlaceLimit'
    BY <1>0, <1>1, <1>3, <1>5, <2>1, <2>4, LocationFields DEF PlaceAge, PlaceLimit, CacheGood
  <2> QED BY <2>2, <2>3, <2>5 DEF LocationInv
<1>6. CASE beat' = [beat EXCEPT !.pc = "fetch"] /\ fetch' = StartFetch("heartbeat")
  <2>1. /\ beat' \in BeatRecords /\ beat'.pc = "fetch" /\ beat'.turn = beat.turn
        /\ beat'.geo = beat.geo /\ beat'.list = beat.list /\ beat'.listed = beat.listed
    BY <1>0, <1>6, LocationFields DEF BeatRecords, LoopSteps
  <2>2. /\ fetch' \in [Fetchers -> FetchRecords] /\ fetch'["heartbeat"] = [pc |-> "windows", began |-> now]
        /\ \A g \in Fetchers \ {"heartbeat"} : fetch'[g] = fetch[g]
    BY <1>0, <1>6, LocationFields DEF StartFetch, FetchRecords, Sources
  <2>3. LocationTypeOK'
    BY <1>0, <1>1, <2>1, <2>2
    DEF LocationTypeOK, BeatRecords, FetchRecords, LoopSteps, Turns, Wakes, Limits, Lists, Places
  <2>4. FetchInTime'
    BY <1>0, <1>1, <2>2, LocationFields DEF LocationInv, FetchInTime
  <2>5. WaitsForFetch' /\ CacheOrder' /\ FreshNow' /\ PlaceLimit' /\ PlaceAge' /\ Reported' /\ ListLimit'
    BY <1>1, <2>1, <2>2
    DEF LocationInv, WaitsForFetch, CacheOrder, FreshNow, PlaceLimit, PlaceAge, Reported, PlaceNotTooOld,
        ListLimit, Over
  <2>6. TurnInTime'
    BY <1>1, <1>2, <2>1, <2>2 DEF TurnInTime, Over
  <2> QED BY <2>3, <2>4, <2>5, <2>6 DEF LocationInv
<1> QED BY <1>4, <1>5, <1>6 DEF Place

(* The loop takes over what its fetch returned. *)
LEMMA FetchedStep == ASSUME LocationInv, Fetched PROVE LocationInv'
<1>0. LocationTypeOK
  BY DEF LocationInv
<1>1. /\ UNCHANGED <<now, booted, googleKey, enabledOnce, cache, outage, sentPlace, sentList>> /\ beat.pc = "fetch"
      /\ fetch["heartbeat"].pc \in Over /\ fetch' = [fetch EXCEPT !["heartbeat"] = Off]
      /\ \E place \in {now, NoPlace} : beat' = [beat EXCEPT !.pc = "send", !.geo = beat.turn, !.place = place]
  BY DEF Fetched, still
<1>2. /\ beat' \in BeatRecords /\ beat'.pc = "send" /\ beat'.place \in {now, NoPlace} /\ beat'.turn = beat.turn
      /\ beat'.geo = beat.turn /\ beat'.list = beat.list /\ beat'.listed = beat.listed
  <2>1. PICK place \in {now, NoPlace} : beat' = [beat EXCEPT !.pc = "send", !.geo = beat.turn, !.place = place]
    BY <1>1
  <2>2. /\ place \in Places /\ beat.turn \in Limits
        /\ "send" \in LoopSteps /\ beat \in BeatRecords
    BY <1>0, <2>1, LocationFields DEF LoopSteps, Turns, Wakes, Limits, Lists, Places
  <2> QED BY <2>1, <2>2 DEF BeatRecords
<1>3. /\ fetch' \in [Fetchers -> FetchRecords] /\ fetch'["heartbeat"].pc = "idle"
      /\ \A g \in Fetchers \ {"heartbeat"} : fetch'[g] = fetch[g]
  BY <1>0, <1>1, LocationFields DEF FetchRecords, Off
<1>4. LocationTypeOK'
  BY <1>0, <1>1, <1>2, <1>3
  DEF LocationTypeOK, BeatRecords, FetchRecords, LoopSteps, Turns, Wakes, Limits, Lists, Places
<1>5. FetchInTime'
  BY <1>1, <1>3 DEF LocationInv, FetchInTime, Sources
<1>6. WaitsForFetch' /\ CacheOrder' /\ FreshNow' /\ Reported' /\ ListLimit' /\ TurnInTime'
  BY <1>1, <1>2, <1>3
  DEF LocationInv, WaitsForFetch, CacheOrder, FreshNow, Reported, PlaceNotTooOld, ListLimit, TurnInTime, Sources, Over
<1>7. PlaceLimit' /\ PlaceAge'
  BY <1>0, <1>1, <1>2, LocationFields DEF LocationInv, FreshNow, PlaceLimit, PlaceAge
<1> QED BY <1>4, <1>5, <1>6, <1>7 DEF LocationInv

(* The heartbeat goes out. *)
LEMMA SendStep == ASSUME LocationInv, SendBeat PROVE LocationInv'
<1>0. LocationTypeOK
  BY DEF LocationInv
<1>1. /\ UNCHANGED <<now, booted, googleKey, enabledOnce, cache, outage, fetch>> /\ beat.pc = "send"
      /\ beat' = [beat EXCEPT !.pc = "asleep", !.wake = now + 1, !.place = NoPlace]
      /\ sentPlace' = IF beat.place = NoPlace THEN 0 ELSE now - beat.place
      /\ sentList' = IF beat.list = -1 THEN -1 ELSE now - beat.list
  BY DEF SendBeat, still
<1>2. /\ beat' \in BeatRecords /\ beat'.pc = "asleep" /\ beat'.geo = beat.geo
      /\ beat'.list = beat.list /\ beat'.listed = beat.listed
  <2>1. now + 1 \in Wakes /\ NoPlace \in Places /\ "asleep" \in LoopSteps /\ beat \in BeatRecords
    BY <1>0, LocationFields DEF LoopSteps, Turns, Wakes, Limits, Lists, Places
  <2> QED BY <1>1, <2>1 DEF BeatRecords
<1>3. sentPlace' \in 0 .. MaxTime /\ sentList' \in -1 .. MaxTime
  BY <1>0, <1>1, LocationFields
<1>4. LocationTypeOK' /\ FetchInTime' /\ CacheOrder' /\ FreshNow'
  BY <1>0, <1>1, <1>2, <1>3, LoopStep
<1>5. fetch["heartbeat"].pc = "idle"
  BY <1>1 DEF LocationInv, WaitsForFetch
<1>6. WaitsForFetch' /\ PlaceLimit' /\ PlaceAge' /\ TurnInTime' /\ ListLimit'
  BY <1>1, <1>2, <1>5
  DEF LocationInv, WaitsForFetch, PlaceLimit, PlaceAge, TurnInTime, ListLimit, Sources, Over
<1>7. sentPlace' <= 2 * (TTL - 1) + Slowest
  BY <1>0, <1>1, LocationFields DEF LocationInv, PlaceAge
<1>8. sentList' < TTL + Slowest
  <2>1. beat.list # -1 => beat.turn - beat.listed < TTL /\ beat.listed <= beat.list
    BY <1>1 DEF LocationInv, ListLimit
  <2>2. now - beat.turn <= Slowest \/ now - beat.list <= Slowest
    BY <1>1 DEF LocationInv, TurnInTime
  <2> QED BY <1>0, <1>1, <2>1, <2>2, LocationFields
<1> QED BY <1>4, <1>6, <1>7, <1>8 DEF LocationInv, Reported, PlaceNotTooOld

(* Time passes. *)
LEMMA TickStep == ASSUME LocationInv, Tick PROVE LocationInv'
<1>0. LocationTypeOK
  BY DEF LocationInv
<1>1. /\ UNCHANGED <<booted, googleKey, enabledOnce, cache, fetch, beat, sentPlace, sentList, outage>>
      /\ now' = now + 1 /\ now < MaxTime
      /\ \/ beat.pc = "asleep"
         \/ beat.pc = "list" /\ now - beat.turn < Slowest
         \/ beat.pc = "fetch" /\ fetch["heartbeat"].pc \in Sources
      /\ \A f \in Fetchers : fetch[f].pc \in Sources => now - fetch[f].began < Slowest
  BY DEF Tick
<1>2. LocationTypeOK'
  <2>1. 0 .. now \subseteq 0 .. now' /\ 0 .. now + 1 \subseteq 0 .. now' + 1 /\ -1 .. now \subseteq -1 .. now'
        /\ now' \in 0 .. MaxTime
    BY <1>0, <1>1, LocationFields
  <2>2. beat \in BeatRecords' /\ fetch \in [Fetchers -> FetchRecords']
    BY <1>0, <2>1, LocationFields DEF BeatRecords, FetchRecords, Turns, Wakes, Limits, Lists, Places
  <2> QED BY <1>0, <1>1, <2>1, <2>2
  DEF LocationTypeOK, BeatRecords, FetchRecords, LoopSteps, Turns, Wakes, Limits, Lists, Places
<1>3. beat.pc # "send" /\ beat.pc # "place" /\ fetch["heartbeat"].pc \notin Over
  BY <1>1 DEF LocationInv, WaitsForFetch, Over, Sources
<1>4. FetchInTime'
  BY <1>0, <1>1, LocationFields DEF LocationInv, FetchInTime, FetchRecords
<1>5. TurnInTime'
  BY <1>0, <1>1, <1>3, LocationFields DEF LocationInv, TurnInTime
<1>6. WaitsForFetch' /\ CacheOrder' /\ FreshNow' /\ PlaceLimit' /\ PlaceAge' /\ Reported' /\ ListLimit'
  BY <1>1, <1>3
  DEF LocationInv, WaitsForFetch, CacheOrder, FreshNow, PlaceLimit, PlaceAge, Reported, PlaceNotTooOld, ListLimit
<1> QED BY <1>2, <1>4, <1>5, <1>6 DEF LocationInv

(* Every step keeps the invariant. *)
LEMMA LocationInductive == LocationInv /\ [LocationNext]_locationVars => LocationInv'
<1> SUFFICES ASSUME LocationInv, [LocationNext]_locationVars PROVE LocationInv'
  OBVIOUS
<1>1. CASE UNCHANGED locationVars
  BY <1>1
  DEF locationVars, LocationInv, LocationTypeOK, WaitsForFetch, FetchInTime, CacheOrder, FreshNow, TurnInTime,
      ListLimit, PlaceLimit, PlaceAge, Reported, PlaceNotTooOld
<1>2. ASSUME NEW f \in Fetchers, TryWindows(f) \/ ScanWifi(f) \/ TryGoogle(f) \/ TryMylnikov(f) \/ TryIp(f)
      PROVE  LocationInv'
  <2>1. enabledOnce' \in BOOLEAN
    BY <1>2, Zenon
    DEF TryWindows, ScanWifi, TryGoogle, TryMylnikov, TryIp, clocks, LocationInv, LocationTypeOK
  <2>2. fetch[f].pc \in Sources /\ UNCHANGED clocks
    BY <1>2 DEF TryWindows, ScanWifi, TryGoogle, TryMylnikov, TryIp, Sources
  <2>3. \/ Found(f)
        \/ \E pc \in Sources : Goto(f, pc)
        \/ /\ fetch' = [fetch EXCEPT ![f] = [pc |-> "failed", began |-> 0]]
           /\ outage' = TRUE /\ UNCHANGED cache
    BY <1>2 DEF TryWindows, ScanWifi, TryGoogle, TryMylnikov, TryIp, Sources
  <2> QED BY <2>1, <2>2, <2>3, SourceStep DEF clocks
<1> QED BY <1>1, <1>2, ConnectStep, TurnStep, ListStep, PlaceStep, FetchedStep, SendStep, TickStep
  DEF LocationNext

LEMMA LocationInvGives == LocationInv => LocationTypeOK /\ PayloadFresh
BY DEF LocationInv, Reported, ListLimit, PayloadFresh, ListInTime

(* The variables stay in their sets, whatever the limits and the durations. *)
THEOREM LocationTypeCorrect == LocationSpec => []LocationTypeOK
BY LocationInitInv, LocationInductive, LocationInvGives, PTL DEF LocationSpec

(* Every heartbeat reports a place and programs as recent as the two limits  *)
(* and the slowest fetch allow, however the fetches overlap and fail, and    *)
(* goes out without the programs in the machine's first minutes only.        *)
THEOREM PayloadFreshHolds == LocationSpec => []PayloadFresh
BY LocationInitInv, LocationInductive, LocationInvGives, PTL DEF LocationSpec
=============================================================================
