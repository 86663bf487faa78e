------------------------- MODULE MCPacketRecordings -------------------------
(* An instance of PacketRecordings for TLC.  The single file is MCRecordingFile's
   instance.  The split one has segments of two packets or one tick, three of
   them, and six packets at most: the count, the size and the duration are each
   reached, with packets still to come; its torn bytes are left at the start of
   a segment, by its first writes. *)
EXTENDS MCRecordingFile, PacketRecordings
=============================================================================
