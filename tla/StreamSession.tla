--------------------------- MODULE StreamSession ---------------------------
(* One streaming session of obs-rs-output (stream/session.rs): a bounded
   packet queue in front of a reconnectable transport.  The session is driven
   through &mut self, so every method is one step; the transport, the network
   and the passage of time answer nondeterministically.

   A session is created with a drop policy and one of two transports, which it
   keeps (setup).  The WebSocket transport
   writes each packet to the socket.  The TCP transport keeps the packets of a
   batch in a BufWriter, counts each one delivered once it is in the buffer,
   and flushes at the end of the batch: after a failure some of the packets it
   counted are still in the buffer, which the next connect or disconnect drops
   (dropping it tries once more to write it out). *)
EXTENDS PacketQueue

CONSTANTS MaxAttempts,    \* ReconnectPolicy::max_attempts
          InitialDelay,   \* ReconnectPolicy::initial_delay, in ticks
          MaximumDelay,   \* ReconnectPolicy::maximum_delay, in ticks
          Setups,         \* the transports and drop policies a session may have
          Sizes,          \* packet lengths that are submitted
          MaxSubmits      \* bound on the packets of one behaviour

ASSUME PolicyAssumption ==
    /\ MaxAttempts \in Nat
    /\ InitialDelay \in Nat
    /\ MaximumDelay \in Nat /\ MaximumDelay >= InitialDelay
ASSUME SetupsAssumption == Setups \subseteq [buffered : BOOLEAN, dropPolicy : DropPolicies]
ASSUME SizesAssumption == Sizes \subseteq Nat \ {0}
ASSUME MaxSubmitsAssumption == MaxSubmits \in Nat

VARIABLES
    state,      \* StreamState
    queue,      \* PacketQueue
    attempts,   \* reconnect_attempts
    wait,       \* ticks until next_reconnect_at; 0 when it is None or past
    socket,     \* the transport holds a stream
    inBuffer,   \* packets a failed flush left in the transport's BufWriter
    metrics,    \* StreamMetrics, without send_failures, which grows without bound
    wire,       \* history: packets handed to the network, in order
    nextId,     \* history: packets submitted or refused so far
    discarded,  \* history: ids the drop policy or `close` discarded
    setup       \* the session's transport and its queue's drop policy

sessionVars == <<state, queue, attempts, wait>>
transportVars == <<socket, inBuffer, wire>>
vars == <<sessionVars, transportVars, metrics, nextId, discarded, setup>>

(* TcpPacketTransport if buffered, else WebSocketPacketTransport. *)
Buffered == setup.buffered
DropPolicy == setup.dropPolicy

StreamStates == {"Disconnected", "Connected", "Failed", "Closed"}
Metrics == [submitted : Nat, dropped : Nat, sent : Nat, reconnects : Nat]
Connectable == state \in {"Disconnected", "Connected"}

(* A session's variables keep their types: the backoff and the attempts are
   counted down and up without wrapping.  The counter queue.bytes is the
   business of AccountingExact. *)
TypeOK ==
    /\ state \in StreamStates
    /\ queue.packets \in Seq(Packet)
    /\ attempts \in Nat
    /\ wait \in Nat
    /\ socket \in BOOLEAN
    /\ inBuffer \in Seq(Packet)
    /\ metrics \in Metrics
    /\ wire \in Seq(Packet)
    /\ nextId \in Nat
    /\ discarded \subseteq Nat
    /\ setup \in Setups

Init ==
    /\ state = "Disconnected"
    /\ queue = EmptyQueue
    /\ attempts = 0
    /\ wait = 0
    /\ socket = FALSE
    /\ inBuffer = <<>>
    /\ metrics = [submitted |-> 0, dropped |-> 0, sent |-> 0,
                  reconnects |-> 0]
    /\ wire = <<>>
    /\ nextId = 0
    /\ discarded = {}
    /\ setup \in Setups

Ids(packets) == {packets[i].id : i \in DOMAIN packets}

(* What a step adds to the counters. *)
Count(submitted, dropped, sent, reconnects) ==
    metrics' = [submitted  |-> metrics.submitted + submitted,
                dropped    |-> metrics.dropped + dropped,
                sent       |-> metrics.sent + sent,
                reconnects |-> metrics.reconnects + reconnects]

-----------------------------------------------------------------------------
(* Backoff *)

(* delay_for_attempt: the initial delay doubled `attempt` times, capped. *)
DelayForAttempt(attempt) ==
    LET doubled == InitialDelay * 2 ^ attempt
    IN  IF doubled \in 0..MaximumDelay THEN doubled ELSE MaximumDelay

-----------------------------------------------------------------------------
(* The transport *)

(* Dropping the BufWriter: a prefix of what it still holds may reach the old
   socket, the rest is gone. *)
DropStream ==
    /\ inBuffer' = <<>>
    /\ \E n \in 0..Len(inBuffer) : wire' = wire \o Take(inBuffer, n)

TransportConnects ==
    /\ socket' = TRUE
    /\ DropStream

(* A failed connect leaves TCP's stream in place; the WebSocket transport
   disconnects before it tries. *)
TransportRefuses ==
    IF Buffered THEN UNCHANGED transportVars
    ELSE socket' = FALSE /\ UNCHANGED <<inBuffer, wire>>

TransportDisconnects ==
    /\ socket' = FALSE
    /\ DropStream

(* send_batch delivers the whole batch... *)
SendsAll(batch) ==
    /\ socket \/ (~Buffered /\ batch = <<>>)
    /\ wire' = wire \o batch
    /\ UNCHANGED <<socket, inBuffer>>

(* ... or fails after counting k packets as delivered.  Without a buffer the k
   packets were written; with one, only the first w are certain to be, and
   k = Len(batch) when it is the final flush that fails. *)
SendFails(batch, k) ==
    /\ UNCHANGED socket
    /\ IF ~socket
         THEN k = 0 /\ (Buffered \/ batch # <<>>) /\ UNCHANGED <<inBuffer, wire>>
       ELSE IF Buffered
         THEN \E w \in 0..k :
                /\ w < Len(batch)
                /\ wire' = wire \o Take(Take(batch, k), w)
                /\ inBuffer' = Drop(Take(batch, k), w)
       ELSE /\ k < Len(batch)
            /\ wire' = wire \o Take(batch, k)
            /\ UNCHANGED inBuffer

-----------------------------------------------------------------------------
(* The session's methods.  Calls the code refuses (submit on a closed or failed
   session or of a packet larger than the queue, flush while not connected,
   connect and reconnect while closed or failed, a reconnect before its
   deadline) change nothing and are not steps. *)

Connect ==
    /\ Connectable
    /\ \/ /\ TransportConnects
          /\ state' = "Connected"
          /\ wait' = 0
       \/ TransportRefuses /\ UNCHANGED <<state, wait>>
    /\ UNCHANGED <<queue, attempts, metrics, nextId, discarded>>

Submit(size) ==
    LET p == [id |-> nextId + 1, bytes |-> size]
    IN  /\ state \notin {"Closed", "Failed"}
        /\ nextId < MaxSubmits
        /\ ~PacketDoesNotFit(p)
        /\ nextId' = nextId + 1
        /\ \/ /\ HasRoom(queue, p)
              /\ queue' = Enqueue(queue, p)
              /\ Count(1, 0, 0, 0)
              /\ UNCHANGED discarded
           \/ /\ ~HasRoom(queue, p)
              /\ DropPolicy = "DropNewest"
              /\ Count(1, 1, 0, 0)
              /\ discarded' = discarded \union {p.id}
              /\ UNCHANGED queue
           \/ /\ ~HasRoom(queue, p)
              /\ DropPolicy = "DropOldest"
              /\ \E n \in 0..Len(queue.packets) :
                    /\ Evicts(queue, p, n)
                    /\ queue' = Enqueue(PopOldest(queue, n), p)
                    /\ Count(1, n, 0, 0)
                    /\ discarded' = discarded \union Ids(Take(queue.packets, n))
        /\ UNCHANGED <<state, attempts, wait, transportVars>>

FlushDelivers ==
    /\ state = "Connected"
    /\ SendsAll(queue.packets)
    /\ queue' = EmptyQueue
    /\ Count(0, 0, Len(queue.packets), 0)
    /\ UNCHANGED <<state, attempts, wait, nextId, discarded>>

(* The undelivered tail goes back on the queue.  A packet that did not fit
   would end the call before the reconnect is scheduled. *)
FlushFails ==
    /\ state = "Connected"
    /\ \E k \in 0..Len(queue.packets) :
         LET tail == Drop(queue.packets, k)
         IN  /\ SendFails(queue.packets, k)
             /\ Count(0, 0, k, 0)
             /\ \E lost \in 0..Len(tail) :
                  /\ Requeues(tail, lost)
                  /\ queue' = Requeued(tail, lost)
                  /\ discarded' = discarded \union Ids(Take(tail, lost))
                  /\ wait' = IF lost = 0 THEN DelayForAttempt(attempts) ELSE wait
    /\ state' = "Disconnected"
    /\ UNCHANGED <<attempts, nextId>>

Flush == FlushDelivers \/ FlushFails

ReconnectExhausted ==
    /\ Connectable
    /\ attempts >= MaxAttempts
    /\ state' = "Failed"
    /\ UNCHANGED <<queue, attempts, wait, transportVars, metrics, nextId, discarded>>

(* Mutant: a stream that is connected again has its whole budget again. *)
ReconnectRefunds ==
    /\ Connectable
    /\ attempts < MaxAttempts
    /\ wait = 0
    /\ \/ /\ TransportConnects
          /\ state' = "Connected" /\ attempts' = 0 /\ wait' = 0
          /\ Count(0, 0, 0, 1)
       \/ /\ TransportRefuses
          /\ attempts' = attempts + 1
          /\ wait' = DelayForAttempt(attempts')
          /\ state' = IF attempts' >= MaxAttempts THEN "Failed" ELSE state
          /\ UNCHANGED metrics
    /\ UNCHANGED <<queue, nextId, discarded>>

ReconnectAttempt ==
    /\ Connectable
    /\ attempts < MaxAttempts
    /\ wait = 0
    /\ attempts' = attempts + 1
    /\ \/ /\ TransportConnects
          /\ state' = "Connected"
          /\ wait' = 0
          /\ Count(0, 0, 0, 1)
       \/ /\ TransportRefuses
          /\ wait' = DelayForAttempt(attempts')
          /\ state' = IF attempts' >= MaxAttempts THEN "Failed" ELSE state
          /\ UNCHANGED metrics
    /\ UNCHANGED <<queue, nextId, discarded>>

Reconnect == ReconnectExhausted \/ ReconnectAttempt

(* Not only an open session is disconnected: a failed one is too, which makes
   it connectable again. *)
Disconnect ==
    /\ state # "Closed"
    /\ TransportDisconnects
    /\ wait' = DelayForAttempt(attempts)
    /\ state' = "Disconnected"
    /\ UNCHANGED <<queue, attempts, metrics, nextId, discarded>>

Close ==
    /\ state # "Closed"
    /\ TransportDisconnects
    /\ queue' = EmptyQueue
    /\ discarded' = discarded \union Ids(queue.packets)
    /\ state' = "Closed"
    /\ UNCHANGED <<attempts, wait, metrics, nextId>>

(* Time passes towards the reconnect deadline. *)
Tick ==
    /\ wait > 0
    /\ wait' = wait - 1
    /\ UNCHANGED <<state, queue, attempts, transportVars, metrics, nextId, discarded>>

Step ==
    \/ Connect \/ Flush \/ Reconnect \/ Disconnect \/ Close \/ Tick
    \/ \E size \in Sizes : Submit(size)

Next == Step /\ UNCHANGED setup

Spec == Init /\ [][Next]_vars

-----------------------------------------------------------------------------
(* Properties *)

Before(s, t) == \A i \in DOMAIN s, j \in DOMAIN t : s[i].id < t[j].id
Increasing(s) == \A i, j \in DOMAIN s : i < j => s[i].id < s[j].id

(* Packets reach the network in submission order and none twice, over any
   number of failed flushes, re-queues and reconnects. *)
InOrderDelivery == Increasing(wire)

Consecutive(sent, buffered, queued, last) ==
    /\ Increasing(sent) /\ Increasing(buffered) /\ Increasing(queued)
    /\ Before(sent, buffered) /\ Before(sent, queued) /\ Before(buffered, queued)
    /\ \A s \in {sent, buffered, queued} : \A i \in DOMAIN s : s[i].id <= last

(* The inductive form of InOrderDelivery: the network, the transport's buffer
   and the queue are consecutive stretches of one increasing sequence, and a
   connected transport has an empty buffer. *)
InOrderInv ==
    /\ Consecutive(wire, inBuffer, queue.packets, nextId)
    /\ state = "Connected" => inBuffer = <<>>

(* Through drains, evictions, failed batches and re-queues the counters kept
   by hand stay exact.  The byte counter the drop policy and push_front consult
   is the length of what is queued; the metrics account for every submitted
   packet while the session is open; and over an unbuffered transport
   sent_packets is what the network was given, and what it was not is queued
   or was discarded by the drop policy or by closing the session. *)
AccountingExact ==
    LET open == metrics.dropped + metrics.sent + Len(queue.packets)
    IN  /\ queue.bytes = TotalBytes(queue.packets)
        /\ queue.bytes <= Capacity
        /\ open <= metrics.submitted
        /\ state # "Closed" => open = metrics.submitted
        /\ ~Buffered => /\ metrics.sent = Len(wire)
                        /\ 1..nextId = Ids(wire) \union Ids(queue.packets) \union discarded

(* Nothing refunds an attempt, neither a success nor a disconnect by hand: a
   session never tries to reconnect more often than its policy allows, counts no
   success that was not an attempt, and fails only when all are spent. *)
ReconnectBudget ==
    /\ metrics.reconnects <= attempts
    /\ attempts <= MaxAttempts
    /\ state = "Failed" => attempts = MaxAttempts

(* What the engine reckons with is what the session does: a flush keeps the
   connection or loses it, a reconnect has one of the outcomes of
   StreamConnection, which says that it reconnected when the session counts
   that; submitting and waiting leave the connection alone.  The engine connects
   a session once and then only flushes, reconnects and closes it. *)
Seen == INSTANCE StreamConnection
connection == [state |-> state, attempts |-> attempts]

EngineSeesConnection ==
    [][/\ Flush => connection' \in {connection, Seen!Lost(connection)}
       /\ Reconnect => \E r \in Seen!Reconnects(connection) :
             /\ connection' = r[1]
             /\ r[2] = "Reconnected" <=> metrics'.reconnects = metrics.reconnects + 1
       /\ Connect \/ Flush \/ Reconnect \/ Disconnect \/ Close \/ UNCHANGED connection
      ]_vars

(* The session implements in-order delivery from a lossy or lossless transport,
   the packets of the write buffer counting as pending until the buffer is
   written or dropped. *)
Delivery == INSTANCE PacketDelivery WITH
    lossy       <- Buffered,
    dropsOldest <- DropPolicy = "DropOldest",
    pending     <- Ids(inBuffer) \union Ids(queue.packets),
    delivered   <- [i \in DOMAIN wire |-> wire[i].id],
    accepted    <- nextId,
    closed      <- state = "Closed"

ImplementsDelivery == Delivery!Spec
=============================================================================
