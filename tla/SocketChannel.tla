---------------------------- MODULE SocketChannel ----------------------------
(***************************************************************************)
(* AgentSocketClient's connection and its heartbeat queue.  Everything     *)
(* runs on one event loop: a handler is interrupted at its awaits only,    *)
(* and there the loop of heartbeats, a disconnection and the handler of    *)
(* the next connection may come in between.  Socket.IO itself is external: *)
(* once connected it reconnects by itself or gives up and lets wait()      *)
(* return.                                                                 *)
(***************************************************************************)
EXTENDS Integers, Sequences

CONSTANTS Handler,     \* bound: connect handlers that overlap
          QueueLimit,  \* heartbeats kept, 100 in the code
          MaxBeats     \* bound: heartbeats 1 .. MaxBeats

ASSUME ChannelAssumption == QueueLimit \in Nat \ {0} /\ MaxBeats \in Nat

VARIABLES
  reachable,  \* the portal can be reached
  connected,  \* _connected, which the library's events keep
  online,     \* agent_state's flag, shown by the tray
  waiter,     \* _wait_socket: in connect() or asleep
  queue,      \* _heartbeat_queue
  handler,    \* of each connect handler: its next step and the flush's position
  made,       \* heartbeats collected
  \* History, which no action reads:
  sent,       \* how often each heartbeat was emitted
  dropped,    \* heartbeats the full queue gave up
  troubled,   \* a flush was disturbed
  overlapped  \* two flushes at a time

conns  == <<reachable, connected, online, waiter>>
ghosts == <<sent, dropped, troubled, overlapped>>
channelVars == <<conns, queue, handler, made, ghosts>>

Rest == [pc |-> "idle", pos |-> 0]
Flushing == \E h \in Handler : handler[h].pc = "flush"

ChannelInit ==
  /\ reachable \in BOOLEAN /\ connected = FALSE /\ online = FALSE /\ waiter = "connecting"
  /\ queue = <<>> /\ handler = [h \in Handler |-> Rest] /\ made = 0
  /\ sent = [b \in 1 .. MaxBeats |-> 0] /\ dropped = {} /\ troubled = FALSE /\ overlapped = FALSE

-----------------------------------------------------------------------------
(* The connection. *)

NetworkChanges ==
  /\ reachable' = ~reachable
  /\ UNCHANGED <<connected, online, waiter, queue, handler, made, ghosts>>

\* The connect event, in the first connection and after each reconnection: the
\* flags are set at once, then the handler looks for a location.
Connects(h) ==
  /\ reachable /\ ~connected /\ waiter = "connecting" /\ handler[h].pc = "idle"
  /\ connected' = TRUE /\ online' = TRUE
  /\ handler' = [handler EXCEPT ![h].pc = "locate"]
  /\ UNCHANGED <<reachable, waiter, queue, made, ghosts>>

\* The disconnect event.
Disconnects ==
  /\ connected /\ connected' = FALSE /\ online' = FALSE
  /\ troubled' = (troubled \/ Flushing)
  /\ UNCHANGED <<reachable, waiter, queue, handler, made, sent, dropped, overlapped>>

\* connect_error, and connect() raises: _wait_socket sleeps 15 s.
ConnectFails ==
  /\ ~reachable /\ ~connected /\ waiter = "connecting" /\ waiter' = "asleep" /\ online' = FALSE
  /\ UNCHANGED <<reachable, connected, queue, handler, made, ghosts>>

\* Faulty: it sleeps on until the agent is online.
WakesUpOnline ==
  /\ waiter = "asleep" /\ online /\ waiter' = "connecting"
  /\ UNCHANGED <<reachable, connected, online, queue, handler, made, ghosts>>

WakesUp ==
  /\ waiter = "asleep" /\ waiter' = "connecting"
  /\ UNCHANGED <<reachable, connected, online, queue, handler, made, ghosts>>

-----------------------------------------------------------------------------
(* The connect handler, from one await to the next. *)

\* get_cached_location or fetch_location; whatever they raise is caught.
Located(h) ==
  /\ handler[h].pc = "locate" /\ handler' = [handler EXCEPT ![h].pc = "register"]
  /\ UNCHANGED <<conns, queue, made, ghosts>>

\* emit('register_device'): an error ends the handler and leaves the queue; an
\* empty queue is not flushed.
Register(h) ==
  /\ handler[h].pc = "register"
  /\ \/ /\ connected /\ queue # <<>>
        /\ handler' = [handler EXCEPT ![h] = [pc |-> "flush", pos |-> 0]]
        /\ overlapped' = (overlapped \/ Flushing)
     \/ handler' = [handler EXCEPT ![h] = Rest] /\ UNCHANGED overlapped
  /\ UNCHANGED <<conns, queue, made, sent, dropped, troubled>>

\* One turn of _flush_queue's loop over a list that others may change: the next
\* heartbeat is emitted, or the error is swallowed.
FlushOne(h) ==
  /\ handler[h].pc = "flush" /\ handler[h].pos < Len(queue)
  /\ handler' = [handler EXCEPT ![h].pos = @ + 1]
  /\ \/ connected /\ sent' = [sent EXCEPT ![queue[handler[h].pos + 1]] = @ + 1] /\ UNCHANGED troubled
     \/ troubled' = TRUE /\ UNCHANGED sent
  /\ UNCHANGED <<conns, queue, made, dropped, overlapped>>

\* Faulty: the queue is kept.
FlushKeepsQueue(h) ==
  /\ handler[h].pc = "flush" /\ handler[h].pos >= Len(queue)
  /\ handler' = [handler EXCEPT ![h] = Rest]
  /\ UNCHANGED <<conns, queue, made, ghosts>>

\* Then the list is cleared; the PIN's synchronisation follows (DevicePin).
FlushDone(h) ==
  /\ handler[h].pc = "flush" /\ handler[h].pos >= Len(queue)
  /\ handler' = [handler EXCEPT ![h] = Rest] /\ queue' = <<>>
  /\ UNCHANGED <<conns, made, ghosts>>

-----------------------------------------------------------------------------
(* emit_heartbeat, every 30 s. *)

Enqueue(b) ==
  LET full == Append(queue, b) IN
  IF Len(full) <= QueueLimit THEN queue' = full /\ UNCHANGED dropped
  ELSE queue' = Tail(full) /\ dropped' = dropped \cup {Head(full)}

\* Emitted if connected and nothing is raised, queued otherwise.
Beat ==
  /\ made < MaxBeats /\ made' = made + 1
  /\ \/ connected /\ sent' = [sent EXCEPT ![made'] = @ + 1] /\ UNCHANGED <<queue, dropped, troubled>>
     \/ Enqueue(made') /\ troubled' = (troubled \/ Flushing) /\ UNCHANGED sent
  /\ UNCHANGED <<conns, handler, overlapped>>

HandlerStep(h) == Located(h) \/ Register(h) \/ FlushOne(h) \/ FlushDone(h)
SocketStep == ConnectFails \/ WakesUp \/ \E h \in Handler : Connects(h)

ChannelNext ==
  \/ NetworkChanges \/ Disconnects \/ SocketStep \/ Beat
  \/ \E h \in Handler : HandlerStep(h)

\* The event loop runs every task that is ready, and the library goes on trying.
ChannelFairness ==
  /\ WF_channelVars(SocketStep)
  /\ \A h \in Handler : WF_channelVars(HandlerStep(h))

ChannelSpec == ChannelInit /\ [][ChannelNext]_channelVars /\ ChannelFairness

-----------------------------------------------------------------------------
(* Properties. *)

Queued == {queue[i] : i \in DOMAIN queue}

ChannelTypeOK ==
  /\ reachable \in BOOLEAN /\ connected \in BOOLEAN /\ online \in BOOLEAN
  /\ waiter \in {"connecting", "asleep"} /\ made \in 0 .. MaxBeats
  /\ Len(queue) <= QueueLimit /\ Queued \subseteq 1 .. made
  /\ handler \in [Handler -> [pc : {"idle", "locate", "register", "flush"}, pos : 0 .. MaxBeats]]
  /\ sent \in [1 .. MaxBeats -> Nat] /\ dropped \subseteq 1 .. made
  /\ troubled \in BOOLEAN /\ overlapped \in BOOLEAN

\* "Emit heartbeat, queuing locally if disconnected" (socket_client.py:280): a
\* heartbeat is emitted, queued, or was the oldest when the queue was full.  One
\* that is none of these was lost by a flush that a disconnection, an error or
\* a new heartbeat disturbed, or that another flush ran into.
NothingLostInPeace ==
  ~troubled /\ ~overlapped =>
    \A b \in 1 .. made : sent[b] > 0 \/ b \in Queued \/ b \in dropped

\* Nor does it reach the portal twice, unless two flushes overlapped: what a flush
\* emitted does not stay queued for the next one.
SentOnce == ~overlapped => \A b \in 1 .. made : sent[b] <= 1

\* Both: through disconnections and reconnections the queue neither loses nor
\* repeats a heartbeat, but for the disturbed flushes named above.
HeartbeatsKept == NothingLostInPeace /\ SentOnce

\* However often the connection breaks, the client is connected again and again
\* once the portal stays reachable (agent_service.py:75-81).
Reconnects == <>[]reachable => []<>connected
=============================================================================
