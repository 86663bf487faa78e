---------------------------- MODULE ReplayBuffer ----------------------------
(* The packet history of obs-rs-output (replay.rs), as operators on a record
   [packets, bytes, last]: bytes is the counter kept beside the packets, last
   the timestamp of the newest one.  Payloads are their lengths. *)
EXTENDS Naturals, Sequences, SequencesExt

CONSTANTS ReplayBytes,      \* capacity_bytes
          ReplayDuration,   \* the history's length in time
          ReplayPackets     \* MAX_RECORDING_FRAMES

(* ReplayBuffer::new refuses a history of no bytes or no time. *)
HistoryIsValid == {ReplayBytes, ReplayDuration, ReplayPackets} \subseteq Nat \ {0}

EmptyReplay == [packets |-> <<>>, bytes |-> 0, last |-> 0]

BytesOf(packets) ==
    LET upTo[n \in 0..Len(packets)] ==
            IF n = 0 THEN 0 ELSE upTo[n - 1] + packets[n].bytes
    IN  upTo[Len(packets)]

(* push refuses a packet larger than the budget and one that goes back. *)
Captures(r, p) == p.bytes <= ReplayBytes /\ p.time >= r.last

(* drop_oldest, n times. *)
WithoutOldest(r, n) ==
    [r EXCEPT !.packets = SubSeq(@, n + 1, Len(@)),
              !.bytes   = @ - BytesOf(SubSeq(r.packets, 1, n))]

(* Neither eviction loop of push drops a packet from r to make room for p. *)
Fits(r, p) ==
    /\ p.bytes <= ReplayBytes - r.bytes
    /\ Len(r.packets) < ReplayPackets
    /\ r.packets # <<>> => p.time - Head(r.packets).time <= ReplayDuration

(* Only the oldest packets go, and no more of them than p needs. *)
Evicted(r, p) ==
    CHOOSE n \in 0..Len(r.packets) :
        /\ Fits(WithoutOldest(r, n), p)
        /\ \A m \in 0..(n - 1) : ~Fits(WithoutOldest(r, m), p)

(* Mutant: the evicted bytes are not given back. *)
CapturedKeepsBytes(r, p) ==
    [packets |-> Append(WithoutOldest(r, Evicted(r, p)).packets, p),
     bytes   |-> r.bytes + p.bytes,
     last    |-> p.time]

Captured(r, p) ==
    LET kept == WithoutOldest(r, Evicted(r, p))
    IN  [packets |-> Append(kept.packets, p),
         bytes   |-> kept.bytes + p.bytes,
         last    |-> p.time]

(* keyframe_aligned_snapshot; empty stands for NoKeyframe. *)
Snapshot(r) ==
    LET keys == {i \in DOMAIN r.packets : r.packets[i].kind = "Key"}
    IN  IF keys = {} THEN <<>>
        ELSE SubSeq(r.packets, CHOOSE i \in keys : \A j \in keys : i <= j,
                    Len(r.packets))
=============================================================================
