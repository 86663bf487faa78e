----------------------------- MODULE PacketFile -----------------------------
(* The atomic packet-container writer of obs-rs-output (writers/atomic.rs), as
   operators on the writer's record, shared by the single-file recording and
   by the segmented one.

   A file is what its bytes decode to, the stream's write buffer included: the
   packet count of its header, the records after it and whether both have been
   synchronised to the disk.  `cursor` is the record the next write lands on:
   the code seeks only to the header, which is followed by record 1.  All
   packets have one size, so an overwrite replaces a record exactly. *)
EXTENDS Naturals, Sequences

CONSTANTS Faults,       \* the file-system calls that may fail
          MaxFrames,    \* MAX_RECORDING_FRAMES
          MaxRecords    \* bound: records of a file, torn ones included

FaultNames == {"append", "flush", "sync", "rename", "reopen", "remove"}

ASSUME FaultsAssumption == Faults \subseteq FaultNames
ASSUME MaxFramesAssumption == MaxFrames \in Nat
ASSUME MaxRecordsAssumption == MaxRecords \in Nat

PacketKinds == {"Key", "Inter", "Audio"}

(* Bytes a failed append left between two records. *)
Torn == [kind |-> "Torn", time |-> 0]

NoFile == [header |-> 0, records |-> <<>>, synced |-> FALSE, exists |-> FALSE]

NewWriter ==
    [state |-> "Open", stream |-> TRUE, cursor |-> 1, count |-> 0, last |-> 0,
     file |-> [header |-> 0, records |-> <<>>, synced |-> FALSE, exists |-> TRUE]]

(* Where n packets stand among records: in order, and at every one that is not
   torn. *)
Places(records, n) ==
    {f \in [1..n -> DOMAIN records] :
        /\ \A i, j \in 1..n : i < j => f[i] < f[j]
        /\ \A k \in DOMAIN records : records[k] # Torn <=> \E i \in 1..n : f[i] = k}

(* The records are the packets, in order, with torn bytes between them at most. *)
Holds(records, packets) ==
    \E f \in Places(records, Len(packets)) :
        \A i \in DOMAIN packets : records[f[i]] = packets[i]

(* A complete file of the packets. *)
Whole(f, packets) ==
    /\ f.exists /\ f.synced
    /\ f.header = Len(packets)
    /\ Holds(f.records, packets)

RecordsWith(records, cursor, r) ==
    IF cursor = Len(records) + 1 THEN Append(records, r)
                                 ELSE [records EXCEPT ![cursor] = r]

WithRecord(f, cursor, r) ==
    [f EXCEPT !.records = RecordsWith(f.records, cursor, r), !.synced = FALSE]

Written(w, r) ==
    [w EXCEPT !.file = WithRecord(w.file, w.cursor, r), !.cursor = w.cursor + 1]

(* push: its checks, its success and what a failed write leaves behind. *)
Takes(w, p) ==
    /\ w.state = "Open"
    /\ w.count < MaxFrames
    /\ p.time >= w.last
    /\ w.stream

Pushed(w, p) == [Written(w, p) EXCEPT !.count = w.count + 1, !.last = p.time]

(* Mutant: the packet is counted before it is known to be written. *)
AppendFailsCounted(w, w2) ==
    /\ "append" \in Faults
    /\ Len(w.file.records) < MaxRecords
    /\ w2 = [Written(w, Torn) EXCEPT !.count = w.count + 1]

AppendFails(w, w2) ==
    /\ "append" \in Faults
    /\ Len(w.file.records) < MaxRecords
    /\ w2 \in {w, Written(w, Torn)}

(* finalize: the stream is flushed, the count is patched into the header, the
   file is synchronised and renamed.  A flush that fails keeps what it has not
   written; a header or a sync that fails leaves the cursor behind the header;
   a rename that fails reopens the stream at the end of the file, or not. *)
WithHeader(f, count) == [f EXCEPT !.header = count]
OnDisk(f) == [f EXCEPT !.synced = TRUE]

Patched(w) == [w EXCEPT !.file = WithHeader(w.file, w.count), !.cursor = 1]

Synced(w) == [Patched(w) EXCEPT !.file = OnDisk(Patched(w).file)]

(* Mutant: the stream is reopened where finalize left it. *)
AfterRenameFailsNoSeek(w, reopened) == [Synced(w) EXCEPT !.stream = reopened]

AfterFlushFails(w) == w
AfterSyncFails(w) == Patched(w)
AfterRenameFails(w, reopened) ==
    [Synced(w) EXCEPT !.cursor = Len(w.file.records) + 1, !.stream = reopened]

FinalizeFails(w, w2) ==
    /\ w.state = "Open"
    /\ \/ ~w.stream /\ w2 = w
       \/ w.stream /\ "flush" \in Faults /\ w2 = AfterFlushFails(w)
       \/ w.stream /\ "sync" \in Faults /\ w2 = AfterSyncFails(w)
       \/ /\ w.stream
          /\ "rename" \in Faults
          /\ \E reopened \in (IF "reopen" \in Faults THEN BOOLEAN ELSE {TRUE}) :
               w2 = AfterRenameFails(w, reopened)

Finalizes(w) == w.state = "Open" /\ w.stream

Finalized(w) == [w EXCEPT !.state = "Finalized", !.stream = FALSE, !.file = NoFile]

(* Mutant: the file is renamed before it is synchronised. *)
PublishedUnsynced(w) == Patched(w).file

(* The file a successful finalize leaves at the final path. *)
Published(w) == Synced(w).file

(* abort drops the stream and removes the temporary file. *)
Aborted(w) == [w EXCEPT !.state = "Aborted", !.stream = FALSE, !.file = NoFile]
AbortFails(w) == [w EXCEPT !.stream = FALSE]
=============================================================================
