------------------------- MODULE SegmentedRecording -------------------------
(* SegmentedPacketFileWriter (writers.rs): a recording split into numbered
   files.  Each segment is an AtomicPacketFileWriter; a video keyframe that
   finds the open segment over its byte or duration target first publishes it
   and starts the next. *)
EXTENDS PacketFile

CONSTANTS Times,                \* timestamps of the packets
          MaxSegmentPackets,    \* the byte target, in packets of one size
          MaxSegmentDuration,
          MaxSegments,
          MaxPackets            \* bound: packets accepted in one behaviour

(* SegmentedRecordingPolicy::new refuses a policy without all three limits. *)
PolicyIsValid ==
    {MaxSegmentPackets, MaxSegmentDuration, MaxSegments} \subseteq Nat \ {0}

VARIABLES state,
          current,          \* the open segment's writer
          currentPackets,   \* current_packets; current_bytes is its multiple
          currentStart,     \* timestamp of its first packet, if it has one
          last,             \* last_timestamp
          segments,         \* the published files, by number
          headless,         \* history: segments whose first keyframe was not written
          accepted          \* packets push has answered Ok for

vars == <<state, current, currentPackets, currentStart, last, segments,
          headless, accepted>>

Packet == [kind : PacketKinds, time : Times]

Init ==
    /\ state = "Open"
    /\ current = NewWriter
    /\ currentPackets = 0
    /\ currentStart = 0
    /\ last = 0
    /\ segments = <<>>
    /\ headless = {}
    /\ accepted = <<>>

OverTarget(p) ==
    \/ currentPackets + 1 > MaxSegmentPackets
    \/ p.time - currentStart >= MaxSegmentDuration

(* Mutants: any video packet opens a segment; the duration is not looked at. *)
ShouldRotateAtInterframe(p) ==
    currentPackets # 0 /\ p.kind # "Audio" /\ OverTarget(p)
ShouldRotateBySize(p) ==
    currentPackets # 0 /\ p.kind = "Key" /\ currentPackets + 1 > MaxSegmentPackets

ShouldRotate(p) == currentPackets # 0 /\ p.kind = "Key" /\ OverTarget(p)

(* rotate refuses (TooManySegments) when the next segment would be one too
   many; the keyframe is then rejected and nothing changes. *)
MayRotate == Len(segments) + 1 < MaxSegments

Arrives(p) ==
    /\ state = "Open"
    /\ p.time >= last
    /\ Len(accepted) < MaxPackets

Accept(p) ==
    /\ accepted' = Append(accepted, p)
    /\ last' = p.time

Counters(packets, start) == currentPackets' = packets /\ currentStart' = start

(* push into the open segment, and a push its file refuses. *)
Push(p) ==
    /\ Arrives(p)
    /\ ~ShouldRotate(p)
    /\ Takes(current, p)
    /\ current' = Pushed(current, p)
    /\ Counters(currentPackets + 1, IF currentPackets = 0 THEN p.time ELSE currentStart)
    /\ Accept(p)
    /\ UNCHANGED <<state, segments, headless>>

PushFails(p) ==
    /\ Arrives(p)
    /\ ~ShouldRotate(p)
    /\ Takes(current, p)
    /\ AppendFails(current, current')
    /\ UNCHANGED <<state, currentPackets, currentStart, last, segments, headless,
                   accepted>>

(* push of a keyframe that is due: the open segment is published and the
   keyframe goes to the next one, where its own write may fail. *)
Rotate(p) ==
    /\ Arrives(p)
    /\ ShouldRotate(p)
    /\ MayRotate
    /\ Finalizes(current)
    /\ segments' = Append(segments, Published(current))
    /\ \/ /\ current' = Pushed(NewWriter, p)
          /\ Counters(1, p.time)
          /\ Accept(p)
          /\ UNCHANGED headless
       \/ /\ AppendFails(NewWriter, current')
          /\ Counters(0, 0)
          /\ headless' = headless \union {Len(segments) + 2}
          /\ UNCHANGED <<last, accepted>>
    /\ UNCHANGED state

(* A segment that cannot be published stays the open one; the file opened for
   the next is removed again and the keyframe is rejected. *)
RotateFails(p) ==
    /\ Arrives(p)
    /\ ShouldRotate(p)
    /\ MayRotate
    /\ FinalizeFails(current, current')
    /\ UNCHANGED <<state, currentPackets, currentStart, last, segments, headless,
                   accepted>>

Finalize ==
    /\ state = "Open"
    /\ Finalizes(current)
    /\ segments' = Append(segments, Published(current))
    /\ current' = Finalized(current)
    /\ state' = "Finalized"
    /\ UNCHANGED <<currentPackets, currentStart, last, headless, accepted>>

FinalizeError ==
    /\ state = "Open"
    /\ FinalizeFails(current, current')
    /\ UNCHANGED <<state, currentPackets, currentStart, last, segments, headless,
                   accepted>>

(* abort removes every published segment as well, and forgets them whether or
   not the removals succeed. *)
Abort ==
    /\ state = "Open"
    /\ \/ current' = Aborted(current)
       \/ "remove" \in Faults /\ current' = AbortFails(current)
    /\ segments' = <<>>
    /\ state' = "Aborted"
    /\ UNCHANGED <<currentPackets, currentStart, last, headless, accepted>>

Next ==
    \/ \E p \in Packet : Push(p) \/ PushFails(p) \/ Rotate(p) \/ RotateFails(p)
    \/ Finalize
    \/ FinalizeError
    \/ Abort

Spec == Init /\ [][Next]_vars
-----------------------------------------------------------------------------
(* The packets among records, torn bytes aside. *)
Packets(records) ==
    LET upTo[n \in 0..Len(records)] ==
            IF n = 0 THEN <<>>
            ELSE IF records[n] = Torn THEN upTo[n - 1]
            ELSE Append(upTo[n - 1], records[n])
    IN  upTo[Len(records)]

(* The packets of files, one file after the other. *)
PacketsOf(files) ==
    LET upTo[n \in 0..Len(files)] ==
            IF n = 0 THEN <<>> ELSE upTo[n - 1] \o Packets(files[n].records)
    IN  upTo[Len(files)]

(* The packets of the whole recording: of its published segments and of the
   open one. *)
Recorded ==
    PacketsOf(segments) \o (IF state = "Open" THEN Packets(current.file.records) ELSE <<>>)

(* writers.rs, push: errors are returned "without discarding an open segment".
   Until it is aborted, a split recording holds every packet it accepted, in
   order and once, across its rotations, its failed writes and the failures of
   a publication that leave the segment open. *)
NothingLost == state # "Aborted" => Recorded = accepted

(* "becomes visible only after its packet header is patched, synchronized, and
   atomically renamed": a published segment is on the disk and its header
   counts its packets.  And "every published segment starts at a random-access
   point" (writers.rs, SegmentedRecordingPolicy): the first one starts with
   whatever the encoder sends first, and one whose keyframe could not be
   written with whatever came next. *)
SegmentsPlayable ==
    \A i \in DOMAIN segments :
        LET packets == Packets(segments[i].records)
        IN  /\ segments[i].synced
            /\ segments[i].header = Len(packets)
            /\ i \notin headless \cup {1} /\ packets # <<>> => packets[1].kind = "Key"

(* A segment goes on beyond its size or its duration only until a keyframe, and
   the policy's segment count bounds the files, the open one included. *)
SegmentsWithinTarget ==
    /\ Len(segments) + (IF state = "Open" THEN 1 ELSE 0) <= MaxSegments
    /\ \A i \in DOMAIN segments :
         LET packets == Packets(segments[i].records)
         IN  \A k \in 2..Len(packets) :
                 packets[k].kind = "Key" =>
                     /\ k <= MaxSegmentPackets
                     /\ packets[k].time - packets[1].time < MaxSegmentDuration
=============================================================================
