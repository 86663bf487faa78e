-------------------------- MODULE MCRecordingFile ---------------------------
(* Instances of RecordingFile for TLC: packets of two timestamps, two
   recordings to the same path. *)
EXTENDS RecordingFile

MCTimes == {0, 1}
AllButSync == FaultNames \ {"sync"}
SyncFault == {"sync"}
=============================================================================
