-------------------------- MODULE PacketRecordings --------------------------
(* The packet recordings of a session (RecordingOutput, outputs.rs): one file,
   which open_recording opens (RecordingFile), or segments, which
   open_segmented_recording opens (SegmentedRecording).  A behaviour is one of
   the one or of the other.  The limits of a segment's file are apart from those of the
   single file, of the same constant in the code, so that an instance can make
   each small enough. *)
EXTENDS RecordingFile

CONSTANTS SegmentFrames,        \* MAX_RECORDING_FRAMES
          SegmentRecords,       \* bound: records of a segment, torn ones included
          MaxSegmentPackets, MaxSegmentDuration, MaxSegments, MaxPackets

VARIABLES split,        \* the recording is segmented
          state, current, currentPackets, currentStart, last, segments,
          headless, acceptedBySegments

Split == INSTANCE SegmentedRecording WITH
    accepted <- acceptedBySegments, MaxFrames <- SegmentFrames,
    MaxRecords <- SegmentRecords

ASSUME SplitPolicyAssumption == Split!PolicyIsValid

splitVars == <<state, current, currentPackets, currentStart, last, segments,
               headless, acceptedBySegments>>

OpenRecording == split \in BOOLEAN /\ Init /\ Split!Init

SingleFile == ~split /\ Next /\ UNCHANGED <<split, splitVars>>
Segments == split /\ Split!Next /\ UNCHANGED <<split, vars>>

RecordingsSpec == OpenRecording /\ [][SingleFile \/ Segments]_<<split, vars, splitVars>>

(* The properties of the split recording, by their names there. *)
NothingLost == Split!NothingLost
SegmentsPlayable == Split!SegmentsPlayable
SegmentsWithinTarget == Split!SegmentsWithinTarget
=============================================================================
