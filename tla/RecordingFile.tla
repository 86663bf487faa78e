--------------------------- MODULE RecordingFile ----------------------------
(* A session's recordings to one .obsr path, one after the other: each an
   AtomicPacketFileWriter opened by open_recording, with the file-system
   failures of PacketFile and crashes of the machine.  A failed finalization
   leaves the recording open: it keeps receiving packets and may be finalized
   again or aborted (session_output.rs). *)
EXTENDS PacketFile

CONSTANTS Times,           \* timestamps of the packets
          MaxRecordings,   \* bound: recordings started in one behaviour
          RenameDurable    \* a completed rename survives a crash

ASSUME TimesAssumption == Times \subseteq Nat
ASSUME MaxRecordingsAssumption == MaxRecordings \in Nat
ASSUME RenameDurableAssumption == RenameDurable \in BOOLEAN

VARIABLES writer,       \* the AtomicPacketFileWriter and its temporary file
          final,        \* the file at the final path
          accepted,     \* packets the writer's push has answered Ok for
          older,        \* files a crash may bring back to the final path
          committed,    \* NoFile, and the files finalize reported as committed
          recordings    \* recordings started so far

vars == <<writer, final, accepted, older, committed, recordings>>

Packet == [kind : PacketKinds, time : Times]

Init ==
    /\ writer = NewWriter
    /\ final = NoFile
    /\ accepted = <<>>
    /\ older = {}
    /\ committed = <<NoFile>>
    /\ recordings = 1

Push(p) ==
    /\ Takes(writer, p)
    /\ writer' = Pushed(writer, p)
    /\ accepted' = Append(accepted, p)
    /\ UNCHANGED <<final, older, committed, recordings>>

PushFails(p) ==
    /\ Takes(writer, p)
    /\ AppendFails(writer, writer')
    /\ UNCHANGED <<final, accepted, older, committed, recordings>>

Finalize ==
    /\ Finalizes(writer)
    /\ final' = Published(writer)
    /\ older' = older \union {final}
    /\ committed' = Append(committed, Published(writer))
    /\ writer' = Finalized(writer)
    /\ UNCHANGED <<accepted, recordings>>

FinalizeError ==
    /\ FinalizeFails(writer, writer')
    /\ UNCHANGED <<final, accepted, older, committed, recordings>>

(* abort_recording lets go of the writer even when its file stays. *)
Abort ==
    /\ writer.state = "Open"
    /\ \/ writer' = Aborted(writer)
       \/ /\ "remove" \in Faults
          /\ writer' = [AbortFails(writer) EXCEPT !.state = "Dropped"]
    /\ UNCHANGED <<final, accepted, older, committed, recordings>>

(* The next recording truncates whatever is left at the temporary path. *)
StartAgain ==
    /\ writer.state # "Open"
    /\ recordings < MaxRecordings
    /\ writer' = NewWriter
    /\ accepted' = <<>>
    /\ recordings' = recordings + 1
    /\ UNCHANGED <<final, older, committed>>

(* The machine stops.  A file that was not synchronised is torn.  The directory
   never is, so the last renames may be undone: the path goes back to an older
   file, and the temporary file is the recording, which the next one to this
   path truncates. *)
AfterCrash(f) ==
    IF f.exists /\ ~f.synced THEN [f EXCEPT !.records = <<Torn>>] ELSE f

Crash ==
    /\ writer.state # "Stopped"
    /\ writer' = [writer EXCEPT !.stream = FALSE, !.state = "Stopped"]
    /\ \E f \in {final} \union (IF RenameDurable THEN {} ELSE older) :
         final' = AfterCrash(f)
    /\ older' = {}
    /\ UNCHANGED <<accepted, committed, recordings>>

Next ==
    \/ \E p \in Packet : Push(p) \/ PushFails(p)
    \/ Finalize
    \/ FinalizeError
    \/ Abort
    \/ StartAgain
    \/ Crash

Spec == Init /\ [][Next]_vars
-----------------------------------------------------------------------------
(* The writer counts at most MAX_RECORDING_FRAMES packets, and the cursor of an
   open stream is on a record or right behind the last one. *)
TypeOK ==
    /\ writer.state \in {"Open", "Finalized", "Aborted", "Dropped", "Stopped"}
    /\ writer.stream \in BOOLEAN
    /\ writer.stream => writer.cursor \in 1..(Len(writer.file.records) + 1)
    /\ writer.count \in 0..MaxFrames
    /\ writer.last \in Nat
    /\ writer.file.records \in Seq(Packet \union {Torn})
    /\ accepted \in Seq(Packet)
    /\ recordings \in Nat

(* session_output.rs: "A failed finalization leaves the recording open and the
   phase `Failed`, so the captured packets are not silently discarded".  The
   open file holds the packets the writer accepted, each once and in order, and
   the count that finalize will patch into its header is theirs: a failed write
   may leave torn bytes behind, but no failed write, flush, rename or reopening
   costs, repeats or reorders a packet. *)
FileHoldsAccepted ==
    writer.state = "Open" =>
        /\ Holds(writer.file.records, accepted)
        /\ writer.count = Len(accepted)

(* atomic.rs, "crash-safe packet-container writer": whatever fails or crashes,
   the final path holds no file or one whose header counts the packets that are
   in it. *)
FinalIsWhole == final.exists => Places(final.records, final.header) # {}

(* The final path holds what finalize last reported as committed, crashes
   included; where a crash undoes renames, an earlier one, or nothing if there
   is none, but never a file that was not committed. *)
CommittedSurvives ==
    \E i \in DOMAIN committed :
        /\ final = committed[i]
        /\ RenameDurable => i = Len(committed)

(* The final path changes only to the complete file of the packets accepted, or
   back to one it held. *)
CommitsAccepted ==
    [][\/ final' = final
       \/ Whole(final', accepted)
       \/ ~RenameDurable /\ final' \in older]_vars
=============================================================================
