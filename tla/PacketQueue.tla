---------------------------- MODULE PacketQueue ----------------------------
(* The byte-bounded packet queue of obs-rs-output (queue.rs), as operators on
   a record [packets, bytes]: `bytes` is the counter the code maintains beside
   the deque, kept apart from the packets so that its bookkeeping is checked
   and not assumed.  A packet is [id, bytes]: `id` stands for its timestamp
   (submission order), the payload is its length only. *)
EXTENDS Naturals, Sequences, SequencesExt

CONSTANT Capacity    \* capacity_bytes

ASSUME CapacityAssumption == Capacity \in Nat \ {0}

(* PacketDropPolicy: what `push` does when the packet finds no room. *)
DropPolicies == {"DropNewest", "DropOldest"}

Packet == [id : Nat, bytes : Nat]

TotalBytes(packets) ==
    LET upTo[n \in 0..Len(packets)] ==
            IF n = 0 THEN 0 ELSE upTo[n - 1] + packets[n].bytes
    IN  upTo[Len(packets)]

Take(s, n) == SubSeq(s, 1, n)
Drop(s, n) == SubSeq(s, n + 1, Len(s))

EmptyQueue == [packets |-> <<>>, bytes |-> 0]

PacketDoesNotFit(p) == p.bytes > Capacity
HasRoom(q, p) == p.bytes <= Capacity - q.bytes

Enqueue(q, p) ==
    [packets |-> Append(q.packets, p), bytes |-> q.bytes + p.bytes]

(* The queue without its n oldest packets. *)
PopOldest(q, n) ==
    [packets |-> Drop(q.packets, n),
     bytes   |-> q.bytes - TotalBytes(Take(q.packets, n))]

(* n is the number of packets the eviction loop of `push` pops for p: it stops
   at the first point where p fits. *)
Evicts(q, p, n) ==
    /\ n \in 0..Len(q.packets)
    /\ HasRoom(PopOldest(q, n), p)
    /\ \A m \in 0..(n - 1) : ~HasRoom(PopOldest(q, m), p)

(* push_front of the packets of `tail`, newest first, on a drained queue: it
   stops at the first packet that finds no room, so `lost` packets, the oldest
   ones, are not re-queued. *)
Requeues(tail, lost) ==
    /\ lost \in 0..Len(tail)
    /\ TotalBytes(Drop(tail, lost)) <= Capacity
    /\ \A m \in 0..(lost - 1) : TotalBytes(Drop(tail, m)) > Capacity

(* Mutants: the re-queue does not count the bytes, or is forgotten. *)
RequeuedUncounted(tail, lost) == [packets |-> Drop(tail, lost), bytes |-> 0]
RequeuedNothing(tail, lost) == EmptyQueue

Requeued(tail, lost) ==
    [packets |-> Drop(tail, lost), bytes |-> TotalBytes(Drop(tail, lost))]
=============================================================================
