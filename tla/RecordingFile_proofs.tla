------------------------ MODULE RecordingFile_proofs ------------------------
(* Proofs about PacketRecordings, for every packet timestamp, limit and number of
   recordings, whether a crash undoes renames or not.  Type correctness holds
   whatever fails.  The safety theorems assume that the header patch and its
   sync do not fail: the run recording_file_retry is the counterexample.  The last
   part is about SegmentedRecording, which splits a recording into such files. *)
EXTENDS PacketRecordings, SequenceTheorems, WellFoundedInduction, TLAPS

States == {"Open", "Finalized", "Aborted", "Dropped", "Stopped"}
Record == Packet \union {Torn}
File == [header : Nat, records : Seq(Record), synced : BOOLEAN, exists : BOOLEAN]
Writer == [state : States, stream : BOOLEAN, cursor : Nat, count : Nat, last : Nat,
           file : File]

(* A writer whose stream, if it has one, is at a record or behind the last. *)
Placed(w) == w.stream => w.cursor \in 1..(Len(w.file.records) + 1)
-----------------------------------------------------------------------------
(* The writer's operators, field by field. *)

(* NoFile and NewWriter have their types. *)
LEMMA InitialTypes ==
    /\ NoFile \in File /\ NewWriter \in Writer /\ Placed(NewWriter)
    /\ NewWriter.file.exists = TRUE /\ NewWriter.file.records = <<>>
    /\ NewWriter.cursor = 1
<1>1. <<>> \in Seq(Record) /\ Len(<<>>) = 0
  OBVIOUS
<1>2. NoFile \in File
  BY <1>1 DEF NoFile, File
<1> DEFINE f == [header |-> 0, records |-> <<>>, synced |-> FALSE, exists |-> TRUE]
<1>3. f \in File /\ f.records = <<>> /\ f.exists = TRUE
  BY <1>1 DEF File
<1> HIDE DEF f
<1>4. [state |-> "Open", stream |-> TRUE, cursor |-> 1, count |-> 0, last |-> 0, file |-> f] \in Writer
  BY <1>3 DEF Writer, States
<1>5. NewWriter = [state |-> "Open", stream |-> TRUE, cursor |-> 1, count |-> 0, last |-> 0, file |-> f]
  BY DEF NewWriter, f
<1>6. NewWriter \in Writer /\ NewWriter.file = f /\ NewWriter.cursor = 1
  BY <1>4, <1>5
<1> QED
  BY <1>1, <1>2, <1>3, <1>6 DEF Placed

(* A write at the cursor replaces one record, or appends one at the end. *)
LEMMA WithRecordFields ==
    ASSUME NEW f \in File, NEW r \in Record, NEW c \in 1..(Len(f.records) + 1)
    PROVE  /\ WithRecord(f, c, r) \in File
           /\ WithRecord(f, c, r).header = f.header
           /\ WithRecord(f, c, r).exists = f.exists
           /\ WithRecord(f, c, r).records = RecordsWith(f.records, c, r)
           /\ c \in 1..Len(WithRecord(f, c, r).records)
<1> DEFINE rs == RecordsWith(f.records, c, r)
<1>1. rs \in Seq(Record) /\ c \in 1..Len(rs)
  BY DEF File, RecordsWith
<1> HIDE DEF rs
<1>2. WithRecord(f, c, r) = [f EXCEPT !.records = rs, !.synced = FALSE]
  BY DEF WithRecord, rs
<1>3. [f EXCEPT !.records = rs, !.synced = FALSE] \in File
  BY <1>1 DEF File
<1>4. LET g == [f EXCEPT !.records = rs, !.synced = FALSE]
      IN  g.header = f.header /\ g.exists = f.exists /\ g.records = rs
  BY DEF File
<1> QED
  BY <1>1, <1>2, <1>3, <1>4 DEF rs

LEMMA WrittenFields ==
    ASSUME NEW w \in Writer, NEW r \in Record, w.stream, Placed(w)
    PROVE  /\ Written(w, r) \in Writer
           /\ Written(w, r).state = w.state
           /\ Written(w, r).stream = w.stream
           /\ Written(w, r).cursor = w.cursor + 1
           /\ Written(w, r).count = w.count
           /\ Written(w, r).file.exists = w.file.exists
           /\ Written(w, r).file.records = RecordsWith(w.file.records, w.cursor, r)
           /\ Placed(Written(w, r))
<1> DEFINE f == WithRecord(w.file, w.cursor, r)
           c == w.cursor + 1
           x == [w EXCEPT !.file = f, !.cursor = c]
<1>1. w.file \in File /\ w.cursor \in 1..(Len(w.file.records) + 1) /\ c \in Nat
  BY DEF Writer, Placed
<1>2. /\ f \in File /\ f.exists = w.file.exists
      /\ f.records = RecordsWith(w.file.records, w.cursor, r)
      /\ w.cursor \in 1..Len(f.records)
  BY <1>1, WithRecordFields
<1>3. Len(f.records) \in Nat /\ c \in 1..(Len(f.records) + 1)
  BY <1>1, <1>2 DEF File
<1>4. Written(w, r) = x
  BY DEF Written
<1> HIDE DEF f, c
<1>5. x \in Writer
  BY <1>1, <1>2 DEF Writer
<1>6. /\ x.state = w.state /\ x.stream = w.stream /\ x.count = w.count
      /\ x.file = f /\ x.cursor = c
  BY DEF Writer
<1> HIDE DEF x
<1>7. Placed(x)
  BY <1>3, <1>6 DEF Placed
<1> QED
  BY <1>2, <1>4, <1>5, <1>6, <1>7 DEF c

LEMMA PushedFields ==
    ASSUME NEW w \in Writer, NEW p \in Packet, w.stream, Placed(w)
    PROVE  /\ Pushed(w, p) \in Writer
           /\ Pushed(w, p).state = w.state
           /\ Pushed(w, p).cursor = w.cursor + 1
           /\ Pushed(w, p).count = w.count + 1
           /\ Pushed(w, p).file.exists = w.file.exists
           /\ Pushed(w, p).file.records = RecordsWith(w.file.records, w.cursor, p)
           /\ Placed(Pushed(w, p))
<1> DEFINE x == Written(w, p)
           n == w.count + 1
           t == p.time
           y == [x EXCEPT !.count = n, !.last = t]
<1>1. p \in Record /\ t \in Nat /\ n \in Nat
  <2>1. p \in Record
    BY DEF Record
  <2>2. t \in Times
    BY DEF Packet
  <2>3. n \in Nat
    BY DEF Writer
  <2> QED
    BY <2>1, <2>2, <2>3, TimesAssumption
<1>2. /\ x \in Writer /\ x.state = w.state /\ x.stream = w.stream
      /\ x.cursor = w.cursor + 1 /\ x.file.exists = w.file.exists
      /\ x.file.records = RecordsWith(w.file.records, w.cursor, p)
      /\ Placed(x)
  BY <1>1, WrittenFields
<1>3. Pushed(w, p) = y
  BY DEF Pushed
<1> HIDE DEF x, n, t
<1>4. y \in Writer
  BY <1>1, <1>2 DEF Writer
<1>5. /\ y.state = x.state /\ y.stream = x.stream /\ y.cursor = x.cursor
      /\ y.file = x.file /\ y.count = n
  BY <1>2 DEF Writer
<1> HIDE DEF y
<1>6. Placed(y)
  BY <1>2, <1>5 DEF Placed
<1> QED
  BY <1>2, <1>3, <1>4, <1>5, <1>6 DEF n

(* The header patch and the sync leave the records alone. *)
LEMMA FileFields ==
    ASSUME NEW f \in File, NEW n \in Nat
    PROVE  /\ WithHeader(f, n) \in File
           /\ WithHeader(f, n).header = n
           /\ WithHeader(f, n).records = f.records
           /\ WithHeader(f, n).exists = f.exists
           /\ OnDisk(f) \in File
           /\ OnDisk(f).header = f.header
           /\ OnDisk(f).records = f.records
           /\ OnDisk(f).exists = f.exists
           /\ OnDisk(f).synced = TRUE
BY DEF File, WithHeader, OnDisk

LEMMA PatchedFields ==
    ASSUME NEW w \in Writer
    PROVE  /\ Patched(w) \in Writer
           /\ Patched(w).state = w.state
           /\ Patched(w).stream = w.stream
           /\ Patched(w).count = w.count
           /\ Patched(w).file = WithHeader(w.file, w.count)
           /\ Placed(Patched(w))
<1> DEFINE f == WithHeader(w.file, w.count)
<1>1. f \in File /\ Len(f.records) \in Nat
  <2>1. w.file \in File /\ w.count \in Nat
    BY DEF Writer
  <2>2. f \in File
    BY <2>1, FileFields
  <2> QED
    BY <2>2 DEF File
<1> HIDE DEF f
<1>2. Patched(w) = [w EXCEPT !.file = f, !.cursor = 1]
  BY DEF Patched, f
<1>3. [w EXCEPT !.file = f, !.cursor = 1] \in Writer
  BY <1>1 DEF Writer
<1>4. LET x == [w EXCEPT !.file = f, !.cursor = 1]
      IN  /\ x.state = w.state /\ x.stream = w.stream /\ x.count = w.count
          /\ x.file = f /\ x.cursor = 1
  BY DEF Writer
<1> QED
  BY <1>1, <1>2, <1>3, <1>4 DEF Placed, f

LEMMA SyncedFields ==
    ASSUME NEW w \in Writer
    PROVE  /\ Synced(w) \in Writer
           /\ Synced(w).state = w.state
           /\ Synced(w).count = w.count
           /\ Synced(w).file = Published(w)
           /\ Published(w) \in File
           /\ Published(w).header = w.count
           /\ Published(w).records = w.file.records
           /\ Published(w).synced = TRUE
           /\ Published(w).exists = w.file.exists
<1> DEFINE x == Patched(w)
           f == OnDisk(x.file)
<1>1. /\ x \in Writer /\ x.state = w.state /\ x.count = w.count
      /\ x.file = WithHeader(w.file, w.count)
  BY PatchedFields
<1>2. w.file \in File /\ w.count \in Nat /\ x.file \in File
  BY <1>1 DEF Writer
<1>3. /\ f \in File /\ f.header = w.count /\ f.records = w.file.records
      /\ f.synced = TRUE /\ f.exists = w.file.exists
  <2>1. /\ x.file.header = w.count /\ x.file.records = w.file.records
        /\ x.file.exists = w.file.exists
    <3> DEFINE g == WithHeader(w.file, w.count)
    <3>1. g.header = w.count /\ g.records = w.file.records /\ g.exists = w.file.exists
      BY <1>2, FileFields
    <3>2. x.file = g
      BY <1>1
    <3> QED
      BY <3>1, <3>2
  <2>2. /\ f \in File /\ f.header = x.file.header /\ f.records = x.file.records
        /\ f.synced = TRUE /\ f.exists = x.file.exists
    BY <1>2, FileFields
  <2> QED
    BY <2>1, <2>2
<1>4. Synced(w) = [x EXCEPT !.file = f]
  BY DEF Synced
<1> HIDE DEF x, f
<1>5. LET y == [x EXCEPT !.file = f]
      IN  y \in Writer /\ y.state = x.state /\ y.count = x.count /\ y.file = f
  BY <1>1, <1>3 DEF Writer
<1>6. Published(w) = f
  BY <1>4, <1>5 DEF Published
<1> QED
  BY <1>1, <1>3, <1>4, <1>5, <1>6

(* A stream reopened after a failed rename is at the end of the file. *)
LEMMA RenameFailsFields ==
    ASSUME NEW w \in Writer, NEW b \in BOOLEAN
    PROVE  /\ AfterRenameFails(w, b) \in Writer
           /\ AfterRenameFails(w, b).state = w.state
           /\ AfterRenameFails(w, b).count = w.count
           /\ AfterRenameFails(w, b).file.records = w.file.records
           /\ AfterRenameFails(w, b).file.exists = w.file.exists
           /\ AfterRenameFails(w, b).cursor = Len(w.file.records) + 1
           /\ Placed(AfterRenameFails(w, b))
<1> DEFINE x == Synced(w)
           n == Len(w.file.records) + 1
           y == [x EXCEPT !.cursor = n, !.stream = b]
<1>1. /\ x \in Writer /\ x.state = w.state /\ x.count = w.count
      /\ x.file.records = w.file.records /\ x.file.exists = w.file.exists
  BY SyncedFields
<1>2. Len(w.file.records) \in Nat /\ n \in 1..n /\ n \in Nat
  BY DEF Writer, File
<1>3. AfterRenameFails(w, b) = y
  BY DEF AfterRenameFails
<1> HIDE DEF x, n
<1>4. y \in Writer
  BY <1>1, <1>2 DEF Writer
<1>5. y.state = x.state /\ y.count = x.count /\ y.file = x.file /\ y.cursor = n
  BY <1>1 DEF Writer
<1> HIDE DEF y
<1>6. Len(y.file.records) + 1 = n
  BY <1>1, <1>5 DEF n
<1>7. Placed(y)
  BY <1>2, <1>5, <1>6 DEF Placed
<1> QED
  BY <1>1, <1>3, <1>4, <1>5, <1>7 DEF n

(* A writer that has ended has no stream. *)
LEMMA EndedFields ==
    ASSUME NEW w \in Writer
    PROVE  /\ Finalized(w) \in Writer /\ Finalized(w).state = "Finalized"
           /\ ~Finalized(w).stream /\ Finalized(w).count = w.count
           /\ Aborted(w) \in Writer /\ Aborted(w).state = "Aborted"
           /\ ~Aborted(w).stream /\ Aborted(w).count = w.count
           /\ \A s \in {"Dropped", "Stopped"} :
                LET x == [[w EXCEPT !.stream = FALSE] EXCEPT !.state = s]
                IN  x \in Writer /\ x.state = s /\ ~x.stream /\ x.count = w.count
<1>1. NoFile \in File
  BY InitialTypes
<1>2. LET x == [w EXCEPT !.state = "Finalized", !.stream = FALSE, !.file = NoFile]
      IN  x \in Writer /\ x.state = "Finalized" /\ x.stream = FALSE /\ x.count = w.count
  BY <1>1 DEF Writer, States
<1>3. LET x == [w EXCEPT !.state = "Aborted", !.stream = FALSE, !.file = NoFile]
      IN  x \in Writer /\ x.state = "Aborted" /\ x.stream = FALSE /\ x.count = w.count
  BY <1>1 DEF Writer, States
<1>4. ASSUME NEW s \in {"Dropped", "Stopped"}
      PROVE  LET x == [[w EXCEPT !.stream = FALSE] EXCEPT !.state = s]
             IN  x \in Writer /\ x.state = s /\ x.stream = FALSE /\ x.count = w.count
  BY DEF Writer, States
<1>5. /\ Finalized(w) = [w EXCEPT !.state = "Finalized", !.stream = FALSE, !.file = NoFile]
      /\ Aborted(w) = [w EXCEPT !.state = "Aborted", !.stream = FALSE, !.file = NoFile]
  BY DEF Finalized, Aborted
<1>6. /\ Finalized(w) \in Writer /\ Finalized(w).state = "Finalized"
      /\ ~Finalized(w).stream /\ Finalized(w).count = w.count
  BY <1>2, <1>5
<1>7. /\ Aborted(w) \in Writer /\ Aborted(w).state = "Aborted"
      /\ ~Aborted(w).stream /\ Aborted(w).count = w.count
  BY <1>3, <1>5
<1> QED
  BY <1>4, <1>6, <1>7

(* What every failing finalization keeps. *)
LEMMA FinalizeFailsKeeps ==
    ASSUME NEW w \in Writer, NEW w2, Placed(w), FinalizeFails(w, w2)
    PROVE  /\ w2 \in Writer /\ Placed(w2)
           /\ w2.state = w.state /\ w2.count = w.count
           /\ w2.file.records = w.file.records /\ w2.file.exists = w.file.exists
           /\ \/ w2 = w
              \/ "sync" \in Faults
              \/ w2.cursor = Len(w2.file.records) + 1
<1>1. CASE w2 = w
  BY <1>1
<1>2. CASE "sync" \in Faults /\ w2 = AfterSyncFails(w)
  <2> DEFINE x == Patched(w)
  <2>1. /\ x \in Writer /\ Placed(x) /\ x.state = w.state /\ x.count = w.count
        /\ x.file = WithHeader(w.file, w.count)
    BY PatchedFields
  <2>2. w.file \in File /\ w.count \in Nat
    BY DEF Writer
  <2>3. /\ WithHeader(w.file, w.count).records = w.file.records
        /\ WithHeader(w.file, w.count).exists = w.file.exists
    BY <2>2, FileFields
  <2>4. w2 = x
    BY <1>2 DEF AfterSyncFails
  <2> HIDE DEF x
  <2> QED
    BY <1>2, <2>1, <2>3, <2>4
<1>3. CASE \E b \in BOOLEAN : w2 = AfterRenameFails(w, b)
  <2>1. PICK b \in BOOLEAN : w2 = AfterRenameFails(w, b)
    BY <1>3
  <2> QED
    BY <2>1, RenameFailsFields
<1> QED
  BY <1>1, <1>2, <1>3 DEF FinalizeFails, AfterFlushFails

(* What a failed append leaves, whatever the bound on the records of a file. *)
TornOrNot(w, w2) == w2 \in {w, Written(w, Torn)}

(* What it keeps. *)
LEMMA AppendFailsKeeps ==
    ASSUME NEW w \in Writer, NEW w2, Placed(w), w.stream, TornOrNot(w, w2)
    PROVE  /\ w2 \in Writer /\ Placed(w2)
           /\ w2.state = w.state /\ w2.count = w.count
           /\ \/ w2 = w
              \/ /\ w2.cursor = w.cursor + 1
                 /\ w2.file.exists = w.file.exists
                 /\ w2.file.records = RecordsWith(w.file.records, w.cursor, Torn)
<1>1. Torn \in Record
  BY DEF Record
<1>2. CASE w2 = w
  BY <1>2
<1>3. CASE w2 = Written(w, Torn)
  BY <1>1, <1>3, WrittenFields
<1> QED
  BY <1>2, <1>3 DEF TornOrNot

(* Holds through the writes: an empty file holds no packet, an appended packet
   is one more, and appended torn bytes are none. *)
LEMMA HoldsNothing == Holds(<<>>, <<>>)
<1> DEFINE f == [i \in 1..0 |-> 0]
<1>1. f \in [1..0 -> DOMAIN <<>>] /\ DOMAIN <<>> = {} /\ 1..0 = {} /\ Len(<<>>) = 0
  OBVIOUS
<1>2. f \in Places(<<>>, 0)
  BY <1>1 DEF Places
<1> QED
  BY <1>1, <1>2 DEF Holds

LEMMA HoldsPacket ==
    ASSUME NEW rs \in Seq(Record), NEW ps \in Seq(Packet), NEW p \in Packet,
           Holds(rs, ps)
    PROVE  Holds(Append(rs, p), Append(ps, p))
<1> DEFINE n == Len(ps)
           m == Len(rs)
           rs2 == Append(rs, p)
           ps2 == Append(ps, p)
<1>1. PICK f \in Places(rs, n) : \A i \in DOMAIN ps : rs[f[i]] = ps[i]
  BY DEF Holds
<1>2. /\ f \in [1..n -> 1..m]
      /\ \A i, j \in 1..n : i < j => f[i] < f[j]
      /\ \A k \in 1..m : rs[k] # Torn <=> \E i \in 1..n : f[i] = k
  BY <1>1 DEF Places
<1>3. /\ Len(rs2) = m + 1 /\ Len(ps2) = n + 1 /\ DOMAIN rs2 = 1..(m + 1)
      /\ DOMAIN ps2 = 1..(n + 1) /\ DOMAIN ps = 1..n
      /\ \A k \in 1..m : rs2[k] = rs[k]
      /\ \A i \in 1..n : ps2[i] = ps[i]
      /\ rs2[m + 1] = p /\ ps2[n + 1] = p
      /\ n \in Nat /\ m \in Nat
  OBVIOUS
<1>4. p # Torn
  BY DEF Torn, Packet, PacketKinds
<1> HIDE DEF n, m, rs2, ps2
<1> DEFINE g == [i \in 1..(n + 1) |-> IF i = n + 1 THEN m + 1 ELSE f[i]]
<1>5. /\ g[n + 1] = m + 1
      /\ \A i \in 1..n : g[i] = f[i] /\ g[i] \in 1..m
  BY <1>2, <1>3
<1>6. g \in [1..(n + 1) -> 1..(m + 1)]
  BY <1>2, <1>3
<1> HIDE DEF g
<1>7. \A i, j \in 1..(n + 1) : i < j => g[i] < g[j]
  <2> SUFFICES ASSUME NEW i \in 1..(n + 1), NEW j \in 1..(n + 1), i < j
               PROVE  g[i] < g[j]
    OBVIOUS
  <2>1. i \in 1..n
    BY <1>3
  <2>2. CASE j = n + 1
    BY <1>3, <1>5, <2>1, <2>2
  <2>3. CASE j \in 1..n
    BY <1>2, <1>5, <2>1, <2>3
  <2> QED
    BY <1>3, <2>2, <2>3
<1>8. \A k \in 1..(m + 1) : rs2[k] # Torn <=> \E i \in 1..(n + 1) : g[i] = k
  <2> SUFFICES ASSUME NEW k \in 1..(m + 1)
               PROVE  rs2[k] # Torn <=> \E i \in 1..(n + 1) : g[i] = k
    OBVIOUS
  <2>1. CASE k = m + 1
    BY <1>3, <1>4, <1>5, <2>1
  <2>2. CASE k \in 1..m
    <3>1. rs2[k] # Torn <=> \E i \in 1..n : f[i] = k
      BY <1>2, <1>3, <2>2
    <3>2. k # m + 1
      BY <1>3, <2>2
    <3>3. (\E i \in 1..(n + 1) : g[i] = k) <=> \E i \in 1..n : f[i] = k
      <4>1. \A i \in 1..(n + 1) : i = n + 1 \/ i \in 1..n
        BY <1>3
      <4>2. \A i \in 1..n : i \in 1..(n + 1) /\ g[i] = f[i]
        BY <1>3, <1>5
      <4>3. g[n + 1] = m + 1
        BY <1>3, <1>5
      <4> QED
        BY <3>2, <4>1, <4>2, <4>3
    <3> QED
      BY <3>1, <3>3
  <2> QED
    BY <1>3, <2>1, <2>2
<1>9. \A i \in DOMAIN ps2 : rs2[g[i]] = ps2[i]
  <2> SUFFICES ASSUME NEW i \in 1..(n + 1) PROVE rs2[g[i]] = ps2[i]
    BY <1>3
  <2>1. CASE i = n + 1
    BY <1>3, <1>5, <2>1
  <2>2. CASE i \in 1..n
    <3>1. g[i] = f[i] /\ ps2[i] = ps[i]
      BY <1>3, <1>5, <2>2
    <3>2. f[i] \in 1..m /\ rs[f[i]] = ps[i]
      BY <1>1, <1>2, <1>3, <2>2
    <3>3. rs2[f[i]] = rs[f[i]]
      BY <1>3, <3>2
    <3> QED
      BY <3>1, <3>2, <3>3
  <2> QED
    BY <1>3, <2>1, <2>2
<1>10. g \in Places(rs2, n + 1)
  BY <1>3, <1>6, <1>7, <1>8 DEF Places
<1> QED
  BY <1>3, <1>9, <1>10 DEF Holds, rs2, ps2

LEMMA HoldsTorn ==
    ASSUME NEW rs \in Seq(Record), NEW ps \in Seq(Packet), Holds(rs, ps)
    PROVE  Holds(Append(rs, Torn), ps)
<1> DEFINE n == Len(ps)
           m == Len(rs)
           rs2 == Append(rs, Torn)
<1>1. PICK f \in Places(rs, n) : \A i \in DOMAIN ps : rs[f[i]] = ps[i]
  BY DEF Holds
<1>2. /\ f \in [1..n -> 1..m]
      /\ \A i, j \in 1..n : i < j => f[i] < f[j]
      /\ \A k \in 1..m : rs[k] # Torn <=> \E i \in 1..n : f[i] = k
  BY <1>1 DEF Places
<1>3. /\ Torn \in Record
      /\ DOMAIN ps = 1..n
      /\ n \in Nat /\ m \in Nat
  BY DEF Record
<1>4. /\ DOMAIN rs2 = 1..(m + 1)
      /\ \A k \in 1..m : rs2[k] = rs[k]
      /\ rs2[m + 1] = Torn
  BY <1>3
<1> HIDE DEF n, m, rs2
<1>5. f \in [1..n -> 1..(m + 1)] /\ \A i \in 1..n : f[i] \in 1..m
  BY <1>2, <1>3
<1>6. \A k \in 1..(m + 1) : rs2[k] # Torn <=> \E i \in 1..n : f[i] = k
  <2> SUFFICES ASSUME NEW k \in 1..(m + 1)
               PROVE  rs2[k] # Torn <=> \E i \in 1..n : f[i] = k
    OBVIOUS
  <2>1. CASE k = m + 1
    BY <1>3, <1>4, <1>5, <2>1
  <2>2. CASE k \in 1..m
    BY <1>2, <1>4, <2>2
  <2> QED
    BY <1>3, <2>1, <2>2
<1>7. f \in Places(rs2, n)
  BY <1>2, <1>4, <1>5, <1>6 DEF Places
<1>8. \A i \in DOMAIN ps : rs2[f[i]] = ps[i]
  BY <1>1, <1>3, <1>4, <1>5
<1> QED
  BY <1>7, <1>8 DEF Holds, rs2, n
-----------------------------------------------------------------------------
(* Type correctness, whatever fails. *)

Types ==
    /\ writer \in Writer
    /\ Placed(writer)
    /\ writer.count <= MaxFrames
    /\ final \in File
    /\ older \in SUBSET File
    /\ accepted \in Seq(Packet)
    /\ recordings \in Nat

(* The same of a recording that starts. *)
LEMMA StartTypes == NewWriter \in Writer /\ Placed(NewWriter) /\ NewWriter.count <= MaxFrames
<1>1. NewWriter.count = 0
  BY DEF NewWriter
<1> QED
  BY <1>1, InitialTypes, MaxFramesAssumption

(* A final file stays a file when the machine stops. *)
LEMMA CrashTypes ==
    ASSUME NEW f \in File
    PROVE  AfterCrash(f) \in File /\ (f.exists /\ f.synced => AfterCrash(f) = f)
<1>1. <<Torn>> \in Seq(Record)
  BY DEF Record
<1> DEFINE rs == <<Torn>>
<1>2. rs \in Seq(Record)
  BY <1>1
<1> HIDE DEF rs
<1>3. [f EXCEPT !.records = rs] \in File
  BY <1>2 DEF File
<1>4. AfterCrash(f) = f \/ AfterCrash(f) = [f EXCEPT !.records = rs]
  BY DEF AfterCrash, rs
<1>5. f.exists /\ f.synced => AfterCrash(f) = f
  BY DEF AfterCrash
<1> QED
  BY <1>3, <1>4, <1>5

LEMMA TypesInit == Init => Types
<1>1. <<>> \in Seq(Packet)
  OBVIOUS
<1> QED
  BY <1>1, StartTypes, InitialTypes DEF Init, Types

LEMMA TypesStep == Types /\ [Next]_vars => Types'
<1> SUFFICES ASSUME Types, [Next]_vars
             PROVE  Types'
  OBVIOUS
<1> USE DEF Types
<1>1. ASSUME NEW p \in Packet, Push(p)
      PROVE  Types'
  <2>1. writer.stream /\ writer.count < MaxFrames
    BY <1>1 DEF Push, Takes
  <2>2. /\ writer' = Pushed(writer, p) /\ accepted' = Append(accepted, p)
        /\ UNCHANGED <<final, older, committed, recordings>>
    BY <1>1 DEF Push
  <2>3. /\ writer' \in Writer /\ Placed(writer') /\ writer'.count = writer.count + 1
    BY <2>1, <2>2, PushedFields
  <2>4. writer.count \in Nat
    BY DEF Writer
  <2>5. writer'.count <= MaxFrames
    BY <2>1, <2>3, <2>4, MaxFramesAssumption
  <2>6. accepted' \in Seq(Packet)
    BY <2>2
  <2> QED
    BY <2>2, <2>3, <2>5, <2>6 DEF Placed
<1>2. ASSUME NEW p \in Packet, PushFails(p)
      PROVE  Types'
  <2>1. writer.stream /\ AppendFails(writer, writer')
    BY <1>2 DEF PushFails, Takes
  <2>2. writer' \in Writer /\ Placed(writer') /\ writer'.count = writer.count
    BY <2>1, AppendFailsKeeps DEF AppendFails, TornOrNot
  <2> QED
    BY <1>2, <2>2 DEF PushFails, Placed
<1>3. CASE Finalize
  <2>1. /\ writer' = Finalized(writer) /\ final' = Published(writer)
        /\ older' = older \union {final}
        /\ UNCHANGED <<accepted, recordings>>
    BY <1>3 DEF Finalize
  <2>2. writer' \in Writer /\ ~writer'.stream /\ writer'.count = writer.count
    BY <2>1, EndedFields
  <2>3. final' \in File
    BY <2>1, SyncedFields
  <2> QED
    BY <2>1, <2>2, <2>3 DEF Placed
<1>4. CASE FinalizeError
  <2>1. FinalizeFails(writer, writer')
    BY <1>4 DEF FinalizeError
  <2>2. writer' \in Writer /\ Placed(writer') /\ writer'.count = writer.count
    BY <2>1, FinalizeFailsKeeps
  <2> QED
    BY <1>4, <2>2 DEF FinalizeError, Placed
<1>5. CASE Abort
  <2>1. writer' \in Writer /\ ~writer'.stream /\ writer'.count = writer.count
    <3>1. CASE writer' = Aborted(writer)
      BY <3>1, EndedFields
    <3>2. CASE writer' = [AbortFails(writer) EXCEPT !.state = "Dropped"]
      <4>1. writer' = [[writer EXCEPT !.stream = FALSE] EXCEPT !.state = "Dropped"]
        BY <3>2 DEF AbortFails
      <4> QED
        BY <4>1, EndedFields
    <3> QED
      BY <1>5, <3>1, <3>2 DEF Abort
  <2> QED
    BY <1>5, <2>1 DEF Abort, Placed
<1>6. CASE StartAgain
  <2>1. /\ writer' = NewWriter /\ accepted' = <<>> /\ recordings' = recordings + 1
        /\ final' = final /\ older' = older
    BY <1>6 DEF StartAgain
  <2> QED
    BY <2>1, StartTypes DEF Placed
<1>7. CASE Crash
  <2>1. writer' = [[writer EXCEPT !.stream = FALSE] EXCEPT !.state = "Stopped"]
    BY <1>7 DEF Crash
  <2>2. writer' \in Writer /\ ~writer'.stream /\ writer'.count = writer.count
    BY <2>1, EndedFields
  <2>3. final' \in File /\ older' \in SUBSET File
    BY <1>7, CrashTypes DEF Crash
  <2> QED
    BY <1>7, <2>2, <2>3 DEF Crash, Placed
<1>8. CASE UNCHANGED vars
  BY <1>8 DEF vars, Placed
<1> QED
  BY <1>1, <1>2, <1>3, <1>4, <1>5, <1>6, <1>7, <1>8 DEF Next

LEMMA TypesHold == Spec => []Types
BY TypesInit, TypesStep, PTL DEF Spec

(* Whatever calls fail, the writer's cursor stays on a record or behind the
   last, and the packet count within MAX_RECORDING_FRAMES. *)
THEOREM TypeCorrect == Spec => []TypeOK
<1>1. Types => TypeOK
  <2> SUFFICES ASSUME Types PROVE TypeOK
    OBVIOUS
  <2>1. /\ writer.state \in States /\ writer.stream \in BOOLEAN
        /\ writer.count \in Nat /\ writer.last \in Nat
        /\ writer.file \in File
    BY DEF Types, Writer
  <2>2. writer.file.records \in Seq(Record)
    BY <2>1 DEF File
  <2>3. writer.count \in 0..MaxFrames
    BY <2>1, MaxFramesAssumption DEF Types
  <2> QED
    BY <2>1, <2>2, <2>3 DEF Types, TypeOK, Placed, States, Record
<1> QED
  BY <1>1, TypesHold, PTL
-----------------------------------------------------------------------------
(* Safety, when the header patch and its sync do not fail.  FileHoldsAccepted is
   not inductive: a push appends, rather than overwrites, only because the
   cursor is behind the last record; the file that is published exists and is
   synchronised; and what a crash may bring back was once committed. *)

HeaderNeverFails == "sync" \notin Faults

Sound(f) == f.exists => f.synced /\ Places(f.records, f.header) # {}

IsCommitted(f) == \E i \in DOMAIN committed : f = committed[i]

Kept ==
    /\ FileHoldsAccepted
    /\ writer.state = "Open" =>
          /\ writer.file.exists = TRUE
          /\ writer.stream => writer.cursor = Len(writer.file.records) + 1
    /\ Sound(final)
    /\ \A f \in older : Sound(f) /\ IsCommitted(f)

Surviving ==
    /\ committed \in Seq(File)
    /\ CommittedSurvives

LEMMA KeptInit == Init => Kept /\ Surviving
<1> SUFFICES ASSUME Init PROVE Kept /\ Surviving
  OBVIOUS
<1>1. writer = NewWriter /\ accepted = <<>> /\ final = NoFile /\ older = {} /\ committed = <<NoFile>>
  BY DEF Init
<1>2. ~NoFile.exists
  BY DEF NoFile
<1>3. NewWriter.count = 0
  BY DEF NewWriter
<1>4. Kept
  BY <1>1, <1>2, <1>3, InitialTypes, HoldsNothing DEF Kept, FileHoldsAccepted, Sound
<1>5. NoFile \in File
  BY InitialTypes
<1> DEFINE n == NoFile
<1>6. n \in File /\ committed = <<n>> /\ final = n
  BY <1>1, <1>5
<1> HIDE DEF n
<1>7. Surviving
  BY <1>6 DEF Surviving, CommittedSurvives
<1> QED
  BY <1>4, <1>7

(* The file that a successful finalization publishes. *)
LEMMA PublishedIsWhole ==
    ASSUME Types, Kept, Finalize
    PROVE  final' \in File /\ Whole(final', accepted) /\ Sound(final')
<1> DEFINE f == Published(writer)
<1>1. writer.state = "Open" /\ final' = f
  BY DEF Finalize, Finalizes
<1>2. /\ Holds(writer.file.records, accepted) /\ writer.count = Len(accepted)
      /\ writer.file.exists = TRUE
  BY <1>1 DEF Kept, FileHoldsAccepted
<1>3. /\ f \in File /\ f.header = writer.count /\ f.records = writer.file.records
      /\ f.synced = TRUE /\ f.exists = writer.file.exists
  BY SyncedFields DEF Types
<1> HIDE DEF f
<1>4. Whole(f, accepted)
  BY <1>2, <1>3 DEF Whole
<1>5. Sound(f)
  BY <1>4 DEF Sound, Whole, Holds
<1> QED
  BY <1>1, <1>3, <1>4, <1>5

(* A crash leaves the final file as it was or brings back an older one. *)
LEMMA CrashBringsBack ==
    ASSUME Types, Kept, Crash
    PROVE  final' = final \/ (~RenameDurable /\ final' \in older)
<1>1. PICK f \in {final} \union (IF RenameDurable THEN {} ELSE older) : final' = AfterCrash(f)
  BY DEF Crash
<1>2. f \in File /\ Sound(f)
  BY <1>1 DEF Types, Kept
<1>3. AfterCrash(f) = f
  <2>1. CASE f.exists
    BY <1>2, <2>1, CrashTypes DEF Sound
  <2>2. CASE ~f.exists
    BY <2>2 DEF AfterCrash
  <2> QED
    BY <2>1, <2>2
<1> QED
  BY <1>1, <1>3

(* Actions that leave the final path and the history of commits alone. *)
LEMMA ElsewhereKept ==
    ASSUME Kept, FileHoldsAccepted', UNCHANGED <<final, older, committed>>,
           writer'.state = "Open" =>
             /\ writer'.file.exists = TRUE
             /\ writer'.stream => writer'.cursor = Len(writer'.file.records) + 1
    PROVE  Kept'
BY DEF Kept, Sound, IsCommitted

LEMMA KeptStep == HeaderNeverFails /\ Types /\ Kept /\ Surviving /\ [Next]_vars => Kept'
<1> SUFFICES ASSUME HeaderNeverFails, Types, Kept, Surviving, [Next]_vars
             PROVE  Kept'
  OBVIOUS
<1>1. ASSUME NEW p \in Packet, Push(p)
      PROVE  Kept'
  <2>1. /\ writer.state = "Open" /\ writer.stream
        /\ writer' = Pushed(writer, p) /\ accepted' = Append(accepted, p)
        /\ UNCHANGED <<final, older, committed>>
    BY <1>1 DEF Push, Takes
  <2>2. /\ Holds(writer.file.records, accepted) /\ writer.count = Len(accepted)
        /\ writer.cursor = Len(writer.file.records) + 1 /\ writer.file.exists = TRUE
    BY <2>1 DEF Kept, FileHoldsAccepted
  <2>3. /\ writer'.cursor = writer.cursor + 1 /\ writer'.count = writer.count + 1
        /\ writer'.file.exists = writer.file.exists
        /\ writer'.file.records = RecordsWith(writer.file.records, writer.cursor, p)
    BY <2>1, PushedFields DEF Types
  <2>4. writer.file.records \in Seq(Record) /\ accepted \in Seq(Packet) /\ p \in Record
    BY DEF Types, Writer, File, Record
  <2>5. writer'.file.records = Append(writer.file.records, p)
    BY <2>2, <2>3 DEF RecordsWith
  <2>6. Holds(writer'.file.records, accepted')
    BY <2>1, <2>2, <2>4, <2>5, HoldsPacket
  <2>7. /\ Len(accepted') = Len(accepted) + 1
        /\ Len(writer'.file.records) = Len(writer.file.records) + 1
    BY <2>1, <2>4, <2>5
  <2>8. FileHoldsAccepted'
    BY <2>2, <2>3, <2>6, <2>7 DEF FileHoldsAccepted
  <2> QED
    BY <2>1, <2>2, <2>3, <2>7, <2>8, ElsewhereKept
<1>2. ASSUME NEW p \in Packet, PushFails(p)
      PROVE  Kept'
  <2>1. /\ writer.state = "Open" /\ writer.stream /\ AppendFails(writer, writer')
        /\ UNCHANGED <<final, older, committed, accepted>>
    BY <1>2 DEF PushFails, Takes
  <2>2. /\ Holds(writer.file.records, accepted) /\ writer.count = Len(accepted)
        /\ writer.cursor = Len(writer.file.records) + 1 /\ writer.file.exists = TRUE
    BY <2>1 DEF Kept, FileHoldsAccepted
  <2>3. CASE writer' = writer
    BY <2>1, <2>2, <2>3, ElsewhereKept DEF FileHoldsAccepted
  <2>4. CASE writer' # writer
    <3>1. /\ writer'.count = writer.count /\ writer'.cursor = writer.cursor + 1
          /\ writer'.file.exists = writer.file.exists
          /\ writer'.file.records = RecordsWith(writer.file.records, writer.cursor, Torn)
      BY <2>1, <2>4, AppendFailsKeeps DEF Types, AppendFails, TornOrNot
    <3>2. /\ writer.file.records \in Seq(Record) /\ Torn \in Record
          /\ accepted \in Seq(Packet)
      BY DEF Types, Writer, File, Record
    <3>3. writer'.file.records = Append(writer.file.records, Torn)
      BY <2>2, <3>1 DEF RecordsWith
    <3>4. Holds(writer'.file.records, accepted')
      BY <2>1, <2>2, <3>2, <3>3, HoldsTorn
    <3>5. Len(writer'.file.records) = Len(writer.file.records) + 1
      BY <3>2, <3>3
    <3>6. FileHoldsAccepted'
      BY <2>1, <2>2, <3>1, <3>4 DEF FileHoldsAccepted
    <3> QED
      BY <2>1, <2>2, <3>1, <3>5, <3>6, ElsewhereKept
  <2> QED
    BY <2>3, <2>4
<1>3. CASE Finalize
  <2>1. writer'.state = "Finalized" /\ FileHoldsAccepted'
    BY <1>3, EndedFields DEF Finalize, Types, FileHoldsAccepted
  <2>2. Sound(final')
    BY <1>3, PublishedIsWhole
  <2>3. older' = older \union {final} /\ committed' = Append(committed, Published(writer))
    BY <1>3 DEF Finalize
  <2> DEFINE g == Published(writer)
  <2>4. g \in File
    BY SyncedFields DEF Types
  <2> HIDE DEF g
  <2>5. \A i \in DOMAIN committed : i \in DOMAIN committed' /\ committed'[i] = committed[i]
    BY <2>3, <2>4 DEF Surviving, g
  <2>6. \A f \in older' : Sound(f)
    BY <2>3 DEF Kept
  <2>7. \A f \in older' : \E i \in DOMAIN committed' : f = committed'[i]
    <3>1. \A f \in older' : IsCommitted(f)
      BY <2>3 DEF Kept, Surviving, CommittedSurvives, IsCommitted
    <3> QED
      BY <2>5, <3>1 DEF IsCommitted
  <2> QED
    BY <2>1, <2>2, <2>6, <2>7 DEF Kept, Sound, IsCommitted
<1>4. CASE FinalizeError
  <2>1. /\ FinalizeFails(writer, writer')
        /\ UNCHANGED <<final, older, committed, accepted>>
    BY <1>4 DEF FinalizeError
  <2>2. /\ writer'.state = writer.state /\ writer'.count = writer.count
        /\ writer'.file.records = writer.file.records
        /\ writer'.file.exists = writer.file.exists
        /\ writer' = writer \/ writer'.cursor = Len(writer'.file.records) + 1
    BY <2>1, FinalizeFailsKeeps DEF Types, HeaderNeverFails
  <2>3. FileHoldsAccepted'
    BY <2>1, <2>2 DEF Kept, FileHoldsAccepted
  <2> QED
    BY <2>1, <2>2, <2>3, ElsewhereKept DEF Kept
<1>5. CASE Abort
  <2>1. writer'.state # "Open"
    <3>1. CASE writer' = Aborted(writer)
      BY <3>1, EndedFields DEF Types
    <3>2. CASE writer' = [AbortFails(writer) EXCEPT !.state = "Dropped"]
      <4>1. writer' = [[writer EXCEPT !.stream = FALSE] EXCEPT !.state = "Dropped"]
        BY <3>2 DEF AbortFails
      <4> QED
        BY <4>1, EndedFields DEF Types
    <3> QED
      BY <1>5, <3>1, <3>2 DEF Abort
  <2>2. UNCHANGED <<final, older, committed>>
    BY <1>5 DEF Abort
  <2> QED
    BY <2>1, <2>2, ElsewhereKept DEF FileHoldsAccepted
<1>6. CASE StartAgain
  <2>1. writer' = NewWriter /\ accepted' = <<>> /\ UNCHANGED <<final, older, committed>>
    BY <1>6 DEF StartAgain
  <2>2. NewWriter.count = 0 /\ Len(<<>>) = 0
    BY DEF NewWriter
  <2>3. FileHoldsAccepted'
    BY <2>1, <2>2, InitialTypes, HoldsNothing DEF FileHoldsAccepted
  <2>4. writer'.file.exists = TRUE /\ writer'.cursor = 1 /\ writer'.file.records = <<>>
    BY <2>1, InitialTypes
  <2>5. writer'.cursor = Len(writer'.file.records) + 1
    BY <2>2, <2>4
  <2> QED
    BY <2>1, <2>3, <2>4, <2>5, ElsewhereKept
<1>7. CASE Crash
  <2>1. writer' = [[writer EXCEPT !.stream = FALSE] EXCEPT !.state = "Stopped"]
    BY <1>7 DEF Crash
  <2>2. writer'.state # "Open"
    BY <2>1, EndedFields DEF Types
  <2>3. Sound(final')
    BY <1>7, CrashBringsBack DEF Kept
  <2>4. older' = {}
    BY <1>7 DEF Crash
  <2> QED
    BY <2>2, <2>3, <2>4 DEF Kept, FileHoldsAccepted, Sound
<1>8. CASE UNCHANGED vars
  <2>1. UNCHANGED <<writer, final, accepted, older, committed>>
    BY <1>8 DEF vars
  <2>2. FileHoldsAccepted'
    BY <2>1 DEF Kept, FileHoldsAccepted
  <2> QED
    BY <2>1, <2>2, ElsewhereKept DEF Kept
<1> QED
  BY <1>1, <1>2, <1>3, <1>4, <1>5, <1>6, <1>7, <1>8 DEF Next

LEMMA SurvivingStep ==
    HeaderNeverFails /\ Types /\ Kept /\ Surviving /\ [Next]_vars => Surviving'
<1> SUFFICES ASSUME Types, Kept, Surviving, [Next]_vars
             PROVE  Surviving'
  OBVIOUS
<1>1. CASE Finalize
  <2> DEFINE g == Published(writer)
             n == Len(committed)
  <2>1. final' = g /\ committed' = Append(committed, g)
    BY <1>1 DEF Finalize
  <2>2. g \in File
    BY SyncedFields DEF Types
  <2> HIDE DEF g
  <2>3. /\ committed' \in Seq(File) /\ Len(committed') = n + 1 /\ n + 1 \in DOMAIN committed'
        /\ committed'[n + 1] = g
    BY <2>1, <2>2 DEF Surviving
  <2> HIDE DEF n
  <2> QED
    BY <2>1, <2>3 DEF Surviving, CommittedSurvives
<1>2. CASE Crash
  <2>1. committed' = committed
    BY <1>2 DEF Crash
  <2>2. CASE final' = final
    BY <2>1, <2>2 DEF Surviving, CommittedSurvives
  <2>3. CASE ~RenameDurable /\ final' \in older
    <3>1. IsCommitted(final')
      BY <2>3 DEF Kept
    <3> QED
      BY <2>1, <2>3, <3>1 DEF Surviving, CommittedSurvives, IsCommitted
  <2> QED
    BY <1>2, <2>2, <2>3, CrashBringsBack
<1>3. CASE UNCHANGED <<final, committed>>
  BY <1>3 DEF Surviving, CommittedSurvives
<1>4. ASSUME NEW p \in Packet, Push(p) \/ PushFails(p)
      PROVE  UNCHANGED <<final, committed>>
  BY <1>4 DEF Push, PushFails
<1>5. ASSUME FinalizeError \/ Abort \/ StartAgain \/ UNCHANGED vars
      PROVE  UNCHANGED <<final, committed>>
  BY <1>5 DEF FinalizeError, Abort, StartAgain, vars
<1> QED
  BY <1>1, <1>2, <1>3, <1>4, <1>5 DEF Next

LEMMA KeptHolds == ASSUME HeaderNeverFails PROVE Spec => [](Types /\ Kept /\ Surviving)
<1>1. Types /\ Kept /\ Surviving /\ [Next]_vars => Kept' /\ Surviving'
  BY KeptStep, SurvivingStep
<1> QED
  BY <1>1, KeptInit, TypesHold, PTL DEF Spec

(* A failed write, flush, rename, reopening or removal keeps the packets of the
   open recording: its file holds what was accepted, and counts it. *)
THEOREM RecordingKeepsPackets ==
    ASSUME HeaderNeverFails
    PROVE  Spec => []FileHoldsAccepted
<1>1. Kept => FileHoldsAccepted
  BY DEF Kept
<1> QED
  BY <1>1, KeptHolds, PTL

(* Whatever of these fails, and wherever the machine stops, the final path holds
   no file or one whose header counts its packets. *)
THEOREM FinalFileIsWhole ==
    ASSUME HeaderNeverFails
    PROVE  Spec => []FinalIsWhole
<1>1. Kept => FinalIsWhole
  BY DEF Kept, Sound, FinalIsWhole
<1> QED
  BY <1>1, KeptHolds, PTL

(* The final path changes only to the complete file of the packets accepted, or
   at a crash that undoes renames to one it held. *)
THEOREM OnlyWholeFilesCommitted ==
    ASSUME HeaderNeverFails
    PROVE  Spec => CommitsAccepted
<1> DEFINE Change == \/ final' = final
                     \/ Whole(final', accepted)
                     \/ ~RenameDurable /\ final' \in older
<1>1. Types /\ Kept /\ [Next]_vars => [Change]_vars
  <2> SUFFICES ASSUME Types, Kept, [Next]_vars, vars' # vars
               PROVE  Change
    OBVIOUS
  <2>1. CASE Finalize
    BY <2>1, PublishedIsWhole
  <2>2. CASE Crash
    BY <2>2, CrashBringsBack
  <2>3. ASSUME NEW p \in Packet, Push(p) \/ PushFails(p)
        PROVE  final' = final
    BY <2>3 DEF Push, PushFails
  <2>4. CASE FinalizeError \/ Abort \/ StartAgain
    BY <2>4 DEF FinalizeError, Abort, StartAgain
  <2> QED
    BY <2>1, <2>2, <2>3, <2>4 DEF Next, vars
<1> QED
  BY <1>1, KeptHolds, PTL DEF Spec, CommitsAccepted

(* What a finalization reported as committed stays at the final path until a
   later one is committed; a crash that undoes renames brings back an earlier
   one, never anything else. *)
THEOREM CommittedFileSurvives ==
    ASSUME HeaderNeverFails
    PROVE  Spec => []CommittedSurvives
<1>1. Surviving => CommittedSurvives
  BY DEF Surviving
<1> QED
  BY <1>1, KeptHolds, PTL
-----------------------------------------------------------------------------
(* The recording split into segments.  What `Split` takes from PacketFile is
   what the lemmas above are about. *)
LEMMA SameWriters ==
    /\ Split!NewWriter = NewWriter /\ Split!Torn = Torn /\ Split!Packet = Packet
    /\ \A w, p : /\ Split!Pushed(w, p) = Pushed(w, p)
                 /\ Split!AppendFails(w, p) => TornOrNot(w, p)
                 /\ Split!FinalizeFails(w, p) = FinalizeFails(w, p)
    /\ \A w : /\ Split!Finalizes(w) = Finalizes(w)
              /\ Split!Published(w) = Published(w)
              /\ Split!Finalized(w) = Finalized(w)
<1>1. Split!NewWriter = NewWriter /\ Split!Torn = Torn /\ Split!Packet = Packet
  BY Zenon DEF Split!NewWriter, NewWriter, Split!Torn, Torn, Split!Packet, Packet,
     Split!PacketKinds, PacketKinds
<1>2. ASSUME NEW w, NEW p
      PROVE  /\ Split!Pushed(w, p) = Pushed(w, p)
             /\ Split!AppendFails(w, p) => TornOrNot(w, p)
  BY <1>1, Zenon DEF Split!Pushed, Pushed, Split!Written, Written, Split!WithRecord,
     WithRecord, Split!RecordsWith, RecordsWith, Split!AppendFails, TornOrNot
<1>3. ASSUME NEW w
      PROVE  /\ Split!Synced(w) = Synced(w)
             /\ Split!Patched(w) = Patched(w)
             /\ Split!Finalizes(w) = Finalizes(w)
             /\ Split!Published(w) = Published(w)
             /\ Split!Finalized(w) = Finalized(w)
  BY Zenon DEF Split!Finalizes, Finalizes, Split!Published, Published, Split!Synced, Synced,
     Split!Patched, Patched, Split!WithHeader, WithHeader, Split!OnDisk, OnDisk,
     Split!Finalized, Finalized, Split!NoFile, NoFile
<1>4. ASSUME NEW w, NEW p
      PROVE  Split!FinalizeFails(w, p) = FinalizeFails(w, p)
  BY <1>3, Zenon DEF Split!FinalizeFails, FinalizeFails, Split!AfterFlushFails, AfterFlushFails,
     Split!AfterSyncFails, AfterSyncFails, Split!AfterRenameFails, AfterRenameFails
<1> QED BY <1>1, <1>2, <1>3, <1>4, Zenon
-----------------------------------------------------------------------------
(* Induction over the elements of a sequence: the packets of a file, and the
   files of a recording. *)

(* Every non-empty set of numbers has a least one... *)
LEMMA LeastNumber ==
    ASSUME NEW T, T \subseteq Nat, T # {}
    PROVE  \E x \in T : \A y \in T : x <= y
<1> DEFINE R == {ss \in Nat \X Nat : ss[1] < ss[2]}
<1>1. IsWellFoundedOn(R, Nat)
  BY NatLessThanWellFounded, Zenon DEF OpToRel
<1>2. PICK x \in T : \A y \in T : ~ (<<y, x>> \in R)
  <2> HIDE DEF R
  <2> QED BY <1>1, WFMin, Zenon
<1>3. \A y \in T : ~ (y < x)
  <2>1. SUFFICES ASSUME NEW y \in T, y < x PROVE FALSE
    OBVIOUS
  <2>2. <<y, x>> \in R
    BY <2>1
  <2> QED BY <1>2, <2>2
<1> QED BY <1>2, <1>3

(* ... so a set that holds 0, and n + 1 with every n below m, holds 0..m. *)
LEMMA InductionUpTo ==
    ASSUME NEW m \in Nat, NEW S, 0 \in S, \A n \in 0..(m - 1) : n \in S => n + 1 \in S
    PROVE  \A n \in 0..m : n \in S
<1> DEFINE T == (0..m) \ S
<1>1. SUFFICES ASSUME T # {} PROVE FALSE
  OBVIOUS
<1>2. T \subseteq Nat
  OBVIOUS
<1>3. PICK x \in T : \A y \in T : x <= y
  <2> HIDE DEF T
  <2> QED BY <1>1, <1>2, LeastNumber
<1>4. x - 1 \in 0..(m - 1) /\ x - 1 \in S
  BY <1>3
<1> QED BY <1>3, <1>4

(* A recursion over a sequence, from a and by the steps of g, has a solution. *)
Recursions(A, s, m, a, g) ==
    {f \in [0..m -> A] : f[0] = a /\ \A n \in 1..m : f[n] = g[<<f[n - 1], s[n]>>]}

LEMMA RecursionExists ==
    ASSUME NEW A, NEW E, NEW s \in Seq(E), NEW a \in A, NEW g \in [A \X E -> A]
    PROVE  Recursions(A, s, Len(s), a, g) # {}
<1> DEFINE S == {m \in 0..Len(s) : Recursions(A, s, m, a, g) # {}}
<1>1. Len(s) \in Nat /\ \A n \in 1..Len(s) : s[n] \in E
  BY LenProperties, ElementOfSeq
<1>2. 0 \in S
  <2>1. [n \in 0..0 |-> a] \in Recursions(A, s, 0, a, g)
    BY DEF Recursions
  <2> QED BY <1>1, <2>1
<1>3. ASSUME NEW n \in 0..(Len(s) - 1), n \in S PROVE n + 1 \in S
  <2>1. PICK f \in Recursions(A, s, n, a, g) : TRUE
    BY <1>3
  <2>2. /\ f \in [0..n -> A] /\ f[0] = a
        /\ \A k \in 1..n : f[k] = g[<<f[k - 1], s[k]>>]
    BY <2>1 DEF Recursions
  <2> DEFINE x == g[<<f[n], s[n + 1]>>]
             h == [k \in 0..(n + 1) |-> IF k <= n THEN f[k] ELSE x]
  <2>3. x \in A
    <3>1. f[n] \in A /\ s[n + 1] \in E
      BY <1>1, <2>2
    <3> QED BY <3>1
  <2> HIDE DEF x
  <2>4. h \in [0..(n + 1) -> A] /\ h[0] = a
    BY <1>1, <2>2, <2>3
  <2>5. \A k \in 1..(n + 1) : h[k] = g[<<h[k - 1], s[k]>>]
    <3>1. TAKE k \in 1..(n + 1)
    <3>2. CASE k <= n
      <4>1. h[k] = f[k] /\ h[k - 1] = f[k - 1] /\ k \in 1..n
        BY <1>1, <3>2
      <4> QED BY <2>2, <4>1
    <3>3. CASE k = n + 1
      <4>1. h[k] = x /\ h[k - 1] = f[n]
        BY <1>1, <3>3
      <4> QED BY <3>3, <4>1 DEF x
    <3> QED BY <1>1, <3>2, <3>3
  <2> HIDE DEF h
  <2>6. h \in Recursions(A, s, n + 1, a, g)
    BY <2>4, <2>5 DEF Recursions
  <2> QED BY <1>1, <2>6
<1>4. \A n \in 0..Len(s) : n \in S
  <2> HIDE DEF S
  <2> QED BY <1>1, <1>2, <1>3, InductionUpTo
<1> QED BY <1>1, <1>4

(* Solutions over a sequence and over one that goes on with x agree, and the
   last value of the one is a step from that of the other. *)
LEMMA RecursionGrows ==
    ASSUME NEW A, NEW E, NEW s \in Seq(E), NEW x \in E, NEW a \in A, NEW g,
           NEW f \in Recursions(A, s, Len(s), a, g),
           NEW h \in Recursions(A, Append(s, x), Len(Append(s, x)), a, g)
    PROVE  /\ f[Len(s)] \in A
           /\ h[Len(Append(s, x))] = g[<<f[Len(s)], x>>]
<1> DEFINE m == Len(s)
           t == Append(s, x)
<1>1. m \in Nat /\ Len(t) = m + 1 /\ t[m + 1] = x /\ \A n \in 1..m : t[n] = s[n]
  BY AppendProperties, LenProperties
<1>2. /\ f \in [0..m -> A] /\ f[0] = a
      /\ \A n \in 1..m : f[n] = g[<<f[n - 1], s[n]>>]
  BY DEF Recursions
<1> HIDE DEF t
<1>3. h \in Recursions(A, t, m + 1, a, g)
  BY <1>1 DEF t
<1> HIDE DEF m
<1>4. h[0] = a /\ \A n \in 1..(m + 1) : h[n] = g[<<h[n - 1], t[n]>>]
  BY <1>3 DEF Recursions
<1>5. \A n \in 0..m : f[n] = h[n]
  <2> DEFINE S == {n \in 0..m : f[n] = h[n]}
  <2>1. 0 \in S
    BY <1>1, <1>2, <1>4
  <2>2. ASSUME NEW n \in 0..(m - 1), n \in S PROVE n + 1 \in S
    <3>1. n + 1 \in 1..m /\ n + 1 \in 1..(m + 1) /\ n + 1 \in 0..m
          /\ (n + 1) - 1 = n /\ f[n] = h[n]
      BY <1>1, <2>2
    <3>2. f[n + 1] = g[<<f[n], s[n + 1]>>]
      BY <1>2, <3>1
    <3>3. h[n + 1] = g[<<h[n], t[n + 1]>>]
      BY <1>4, <3>1
    <3> QED BY <1>1, <3>1, <3>2, <3>3
  <2> HIDE DEF S
  <2>3. \A n \in 0..m : n \in S
    BY <1>1, <2>1, <2>2, InductionUpTo
  <2> QED BY <2>3 DEF S
<1>6. m + 1 \in 1..(m + 1) /\ (m + 1) - 1 = m /\ m \in 0..m
  BY <1>1
<1>7. h[m + 1] = g[<<f[m], x>>] /\ f[m] \in A
  BY <1>1, <1>2, <1>4, <1>5, <1>6
<1> QED BY <1>1, <1>7 DEF m, t

LEMMA RecursionStarts ==
    ASSUME NEW A, NEW s, Len(s) = 0, NEW a, NEW g, NEW f \in Recursions(A, s, Len(s), a, g)
    PROVE  f[Len(s)] = a
BY DEF Recursions

(* Packets computes what its recursion says, ... *)
PacketStep ==
    [x \in Seq(Packet) \X Record |-> IF x[2] = Torn THEN x[1] ELSE Append(x[1], x[2])]

LEMMA PacketsRecursion ==
    ASSUME NEW rs \in Seq(Record)
    PROVE  \E f \in Recursions(Seq(Packet), rs, Len(rs), <<>>, PacketStep) :
              Split!Packets(rs) = f[Len(rs)]
<1> DEFINE Solves(f) == f = [n \in 0..Len(rs) |->
                               IF n = 0 THEN <<>>
                               ELSE IF rs[n] = Torn THEN f[n - 1]
                               ELSE Append(f[n - 1], rs[n])]
           c == CHOOSE f : Solves(f)
<1>1. Len(rs) \in Nat /\ \A n \in 1..Len(rs) : rs[n] \in Record
  BY LenProperties, ElementOfSeq
<1>2. \A ps \in Seq(Packet), r \in Record :
         (IF r = Torn THEN ps ELSE Append(ps, r)) \in Seq(Packet)
  BY AppendProperties DEF Record
<1>3. PacketStep \in [Seq(Packet) \X Record -> Seq(Packet)]
  BY <1>2 DEF PacketStep
<1>4. <<>> \in Seq(Packet)
  OBVIOUS
<1>5. PICK h \in Recursions(Seq(Packet), rs, Len(rs), <<>>, PacketStep) : TRUE
  <2>1. Recursions(Seq(Packet), rs, Len(rs), <<>>, PacketStep) # {}
    BY <1>3, <1>4, RecursionExists, Zenon
  <2> QED BY <2>1
<1>6. h \in [0..Len(rs) -> Seq(Packet)] /\ h[0] = <<>>
  BY <1>5 DEF Recursions
<1>7. \A n \in 1..Len(rs) :
         h[n] = IF rs[n] = Torn THEN h[n - 1] ELSE Append(h[n - 1], rs[n])
  <2>1. TAKE n \in 1..Len(rs)
  <2>2. h[n - 1] \in Seq(Packet) /\ rs[n] \in Record
    BY <1>1, <1>6
  <2>3. h[n] = PacketStep[<<h[n - 1], rs[n]>>]
    BY <1>5 DEF Recursions
  <2> QED BY <2>2, <2>3 DEF PacketStep
<1>8. Solves(h)
  <2> DEFINE k == [n \in 0..Len(rs) |->
                     IF n = 0 THEN <<>>
                     ELSE IF rs[n] = Torn THEN h[n - 1]
                     ELSE Append(h[n - 1], rs[n])]
  <2>1. ASSUME NEW n \in 0..Len(rs) PROVE h[n] = k[n]
    <3>1. CASE n = 0
      BY <1>6, <3>1
    <3>2. CASE n \in 1..Len(rs)
      BY <1>7, <3>2
    <3> QED BY <1>1, <3>1, <3>2
  <2> HIDE DEF k
  <2>2. k = [n \in 0..Len(rs) |-> k[n]] /\ h = [n \in 0..Len(rs) |-> h[n]]
    BY <1>6 DEF k
  <2>3. h = k
    BY <2>1, <2>2
  <2> QED BY <2>3 DEF k
<1>9. Solves(c)
  <2> HIDE DEF Solves
  <2> QED BY <1>8, Zenon
<1>10. Split!Packets(rs) = c[Len(rs)]
  BY SameWriters DEF Split!Packets
<1> HIDE DEF c
<1>11. \A n \in 0..Len(rs) :
          c[n] = IF n = 0 THEN <<>>
                 ELSE IF rs[n] = Torn THEN c[n - 1]
                 ELSE Append(c[n - 1], rs[n])
  BY <1>9
<1> HIDE DEF Solves
<1>12. c[0] = <<>> /\ \A n \in 1..Len(rs) :
          c[n] = IF rs[n] = Torn THEN c[n - 1] ELSE Append(c[n - 1], rs[n])
  <2>1. \A n \in 1..Len(rs) : n \in 0..Len(rs) /\ n # 0
    BY <1>1
  <2> QED BY <1>1, <1>11, <2>1
<1>13. \A n \in 0..Len(rs) : c[n] = h[n]
  <2> DEFINE S == {n \in 0..Len(rs) : c[n] = h[n]}
  <2>1. 0 \in S
    BY <1>1, <1>6, <1>12
  <2>2. ASSUME NEW n \in 0..(Len(rs) - 1), n \in S PROVE n + 1 \in S
    <3>1. n + 1 \in 1..Len(rs) /\ n + 1 \in 0..Len(rs) /\ (n + 1) - 1 = n /\ c[n] = h[n]
      BY <1>1, <2>2
    <3> QED BY <1>7, <1>12, <3>1
  <2> HIDE DEF S
  <2>3. \A n \in 0..Len(rs) : n \in S
    BY <1>1, <2>1, <2>2, InductionUpTo
  <2> QED BY <2>3 DEF S
<1> QED BY <1>1, <1>5, <1>10, <1>13

(* ... so that a record more is a packet more, unless it is torn. *)
LEMMA PacketsGrow ==
    ASSUME NEW rs \in Seq(Record), NEW r \in Record
    PROVE  /\ Split!Packets(rs) \in Seq(Packet)
           /\ Split!Packets(Append(rs, r)) =
                 IF r = Torn THEN Split!Packets(rs) ELSE Append(Split!Packets(rs), r)
<1> DEFINE P == Seq(Packet)
           t == Append(rs, r)
<1>1. PICK f \in Recursions(P, rs, Len(rs), <<>>, PacketStep) : Split!Packets(rs) = f[Len(rs)]
  BY PacketsRecursion
<1>2. t \in Seq(Record)
  BY AppendProperties
<1>3. PICK h \in Recursions(P, t, Len(t), <<>>, PacketStep) : Split!Packets(t) = h[Len(t)]
  BY <1>2, PacketsRecursion
<1>4. <<>> \in P
  OBVIOUS
<1> HIDE DEF P
<1>5. f[Len(rs)] \in P /\ h[Len(t)] = PacketStep[<<f[Len(rs)], r>>]
  BY <1>4, RecursionGrows
<1> QED BY <1>1, <1>3, <1>5 DEF P, PacketStep

LEMMA PacketsOfNone == Split!Packets(<<>>) = <<>>
<1>1. <<>> \in Seq(Record) /\ Len(<<>>) = 0
  OBVIOUS
<1> QED BY <1>1, PacketsRecursion, RecursionStarts

LEMMA PacketsTyped == \A rs \in Seq(Record) : Split!Packets(rs) \in Seq(Packet)
<1>1. Torn \in Record
  BY DEF Record
<1> QED BY <1>1, PacketsGrow

(* And PacketsOf: a file more is its packets more. *)
PlusFile(ps, f) == ps \o Split!Packets(f.records)

FileStep == [x \in Seq(Packet) \X File |-> PlusFile(x[1], x[2])]

LEMMA PacketsOfRecursion ==
    ASSUME NEW fs \in Seq(File)
    PROVE  \E f \in Recursions(Seq(Packet), fs, Len(fs), <<>>, FileStep) :
              Split!PacketsOf(fs) = f[Len(fs)]
<1> DEFINE Solves(f) == f = [n \in 0..Len(fs) |->
                               IF n = 0 THEN <<>> ELSE PlusFile(f[n - 1], fs[n])]
           c == CHOOSE f : Solves(f)
<1>1. Len(fs) \in Nat /\ \A n \in 1..Len(fs) : fs[n] \in File
  BY LenProperties, ElementOfSeq
<1>2. \A ps \in Seq(Packet), f \in File :
         PlusFile(ps, f) \in Seq(Packet)
  BY PacketsTyped, ConcatProperties DEF File, PlusFile
<1>3. FileStep \in [Seq(Packet) \X File -> Seq(Packet)]
  BY <1>2 DEF FileStep
<1>4. <<>> \in Seq(Packet)
  OBVIOUS
<1>5. PICK h \in Recursions(Seq(Packet), fs, Len(fs), <<>>, FileStep) : TRUE
  <2>1. Recursions(Seq(Packet), fs, Len(fs), <<>>, FileStep) # {}
    BY <1>3, <1>4, RecursionExists, Zenon
  <2> QED BY <2>1
<1>6. h \in [0..Len(fs) -> Seq(Packet)] /\ h[0] = <<>>
  BY <1>5 DEF Recursions
<1>7. \A n \in 1..Len(fs) :
         h[n] = PlusFile(h[n - 1], fs[n])
  <2>1. TAKE n \in 1..Len(fs)
  <2>2. h[n - 1] \in Seq(Packet) /\ fs[n] \in File
    BY <1>1, <1>6
  <2>3. h[n] = FileStep[<<h[n - 1], fs[n]>>]
    BY <1>5 DEF Recursions
  <2> QED BY <2>2, <2>3 DEF FileStep
<1>8. Solves(h)
  <2> DEFINE k == [n \in 0..Len(fs) |->
                     IF n = 0 THEN <<>>
                     ELSE PlusFile(h[n - 1], fs[n])]
  <2>1. ASSUME NEW n \in 0..Len(fs) PROVE h[n] = k[n]
    <3>1. CASE n = 0
      BY <1>6, <3>1
    <3>2. CASE n \in 1..Len(fs)
      BY <1>7, <3>2
    <3> QED BY <1>1, <3>1, <3>2
  <2> HIDE DEF k
  <2>2. k = [n \in 0..Len(fs) |-> k[n]] /\ h = [n \in 0..Len(fs) |-> h[n]]
    BY <1>6 DEF k
  <2>3. h = k
    BY <2>1, <2>2
  <2> QED BY <2>3 DEF k
<1>9. Solves(c)
  <2> HIDE DEF Solves
  <2> QED BY <1>8, Zenon
<1>10. Split!PacketsOf(fs) = c[Len(fs)]
  BY SameWriters DEF Split!PacketsOf, PlusFile
<1> HIDE DEF c
<1>11. \A n \in 0..Len(fs) :
          c[n] = IF n = 0 THEN <<>>
                 ELSE PlusFile(c[n - 1], fs[n])
  BY <1>9
<1> HIDE DEF Solves
<1>12. c[0] = <<>> /\ \A n \in 1..Len(fs) :
          c[n] = PlusFile(c[n - 1], fs[n])
  <2>1. \A n \in 1..Len(fs) : n \in 0..Len(fs) /\ n # 0
    BY <1>1
  <2> QED BY <1>1, <1>11, <2>1
<1>13. \A n \in 0..Len(fs) : c[n] = h[n]
  <2> DEFINE S == {n \in 0..Len(fs) : c[n] = h[n]}
  <2>1. 0 \in S
    BY <1>1, <1>6, <1>12
  <2>2. ASSUME NEW n \in 0..(Len(fs) - 1), n \in S PROVE n + 1 \in S
    <3>1. n + 1 \in 1..Len(fs) /\ n + 1 \in 0..Len(fs) /\ (n + 1) - 1 = n /\ c[n] = h[n]
      BY <1>1, <2>2
    <3> QED BY <1>7, <1>12, <3>1
  <2> HIDE DEF S
  <2>3. \A n \in 0..Len(fs) : n \in S
    BY <1>1, <2>1, <2>2, InductionUpTo
  <2> QED BY <2>3 DEF S
<1> QED BY <1>1, <1>5, <1>10, <1>13

LEMMA PacketsOfGrow ==
    ASSUME NEW fs \in Seq(File), NEW x \in File
    PROVE  /\ Split!PacketsOf(fs) \in Seq(Packet)
           /\ Split!PacketsOf(Append(fs, x)) =
                 Split!PacketsOf(fs) \o Split!Packets(x.records)
<1> DEFINE P == Seq(Packet)
           t == Append(fs, x)
<1>1. PICK f \in Recursions(P, fs, Len(fs), <<>>, FileStep) : Split!PacketsOf(fs) = f[Len(fs)]
  BY PacketsOfRecursion
<1>2. t \in Seq(File)
  BY AppendProperties
<1>3. PICK h \in Recursions(P, t, Len(t), <<>>, FileStep) : Split!PacketsOf(t) = h[Len(t)]
  BY <1>2, PacketsOfRecursion
<1>4. <<>> \in P
  OBVIOUS
<1> HIDE DEF P
<1>5. f[Len(fs)] \in P /\ h[Len(t)] = FileStep[<<f[Len(fs)], x>>]
  BY <1>4, RecursionGrows
<1> QED BY <1>1, <1>3, <1>5 DEF P, FileStep, PlusFile

LEMMA PacketsOfNoFile == Split!PacketsOf(<<>>) = <<>>
<1>1. <<>> \in Seq(File) /\ Len(<<>>) = 0
  OBVIOUS
<1> QED BY <1>1, PacketsOfRecursion, RecursionStarts
-----------------------------------------------------------------------------
(* A writer at work: its stream, if it has one, is behind the last record, and
   it counts the packets of its file. *)
PacketsIn(w) == Split!Packets(w.file.records)

AtWork(w) ==
    /\ w \in Writer /\ Placed(w)
    /\ w.state = "Open"
    /\ w.stream => w.cursor = Len(w.file.records) + 1
    /\ w.count = Len(PacketsIn(w))

LEMMA NewWriterWorks == AtWork(NewWriter) /\ PacketsIn(NewWriter) = <<>>
<1>1. NewWriter \in Writer /\ Placed(NewWriter) /\ NewWriter.cursor = 1
      /\ NewWriter.file.records = <<>>
  BY InitialTypes
<1>2. NewWriter.state = "Open" /\ NewWriter.count = 0
  BY DEF NewWriter
<1>3. PacketsIn(NewWriter) = <<>>
  BY <1>1, PacketsOfNone DEF PacketsIn
<1> QED BY <1>1, <1>2, <1>3 DEF AtWork

LEMMA PushedWorks ==
    ASSUME NEW w, AtWork(w), NEW p \in Packet, w.stream
    PROVE  AtWork(Pushed(w, p)) /\ PacketsIn(Pushed(w, p)) = Append(PacketsIn(w), p)
<1> DEFINE rs == w.file.records
           y == Pushed(w, p)
<1>1. rs \in Seq(Record) /\ p \in Record /\ p # Torn
  BY DEF AtWork, Writer, File, Record, Torn, Packet, PacketKinds
<1>2. /\ y \in Writer /\ y.state = w.state /\ y.cursor = w.cursor + 1
      /\ y.count = w.count + 1 /\ Placed(y)
      /\ y.file.records = RecordsWith(rs, w.cursor, p)
  BY PushedFields DEF AtWork
<1>3. w.cursor = Len(rs) + 1 /\ w.state = "Open" /\ w.count = Len(PacketsIn(w))
  BY DEF AtWork
<1> HIDE DEF y
<1>4. y.file.records = Append(rs, p)
  BY <1>2, <1>3 DEF RecordsWith
<1>5. PacketsIn(w) \in Seq(Packet) /\ PacketsIn(y) = Append(PacketsIn(w), p)
  BY <1>1, <1>4, PacketsGrow DEF PacketsIn
<1>6. Len(Append(rs, p)) = Len(rs) + 1 /\ Len(Append(PacketsIn(w), p)) = Len(PacketsIn(w)) + 1
  BY <1>1, <1>5, AppendProperties
<1>7. AtWork(y)
  BY <1>2, <1>3, <1>4, <1>5, <1>6 DEF AtWork
<1> QED BY <1>5, <1>7 DEF y

(* A failed append and a failed finalization lose and add no packet. *)
LEMMA FailedWorks ==
    ASSUME NEW w, AtWork(w), NEW w2,
           \/ w.stream /\ TornOrNot(w, w2)
           \/ HeaderNeverFails /\ FinalizeFails(w, w2)
    PROVE  AtWork(w2) /\ PacketsIn(w2) = PacketsIn(w)
<1> DEFINE rs == w.file.records
<1>1. rs \in Seq(Record) /\ Torn \in Record
  BY DEF AtWork, Writer, File, Record
<1>2. CASE w2 = w
  BY <1>2
<1>3. CASE w.stream /\ TornOrNot(w, w2) /\ w2 # w
  <2>1. /\ w2 \in Writer /\ Placed(w2) /\ w2.state = w.state /\ w2.count = w.count
        /\ w2.cursor = w.cursor + 1 /\ w2.file.records = RecordsWith(rs, w.cursor, Torn)
    BY <1>3, AppendFailsKeeps DEF AtWork
  <2>2. w.cursor = Len(rs) + 1 /\ w.state = "Open" /\ w.count = Len(PacketsIn(w))
    BY <1>3 DEF AtWork
  <2>3. w2.file.records = Append(rs, Torn)
    BY <2>1, <2>2 DEF RecordsWith
  <2>4. PacketsIn(w2) = PacketsIn(w)
    BY <1>1, <2>3, PacketsGrow DEF PacketsIn
  <2>5. Len(Append(rs, Torn)) = Len(rs) + 1
    BY <1>1, AppendProperties
  <2> QED BY <2>1, <2>2, <2>3, <2>4, <2>5 DEF AtWork
<1>4. CASE HeaderNeverFails /\ FinalizeFails(w, w2) /\ w2 # w
  <2>1. /\ w2 \in Writer /\ Placed(w2) /\ w2.state = w.state /\ w2.count = w.count
        /\ w2.file.records = rs /\ w2.cursor = Len(w2.file.records) + 1
    BY <1>4, FinalizeFailsKeeps DEF AtWork, HeaderNeverFails
  <2> QED BY <2>1 DEF AtWork, PacketsIn
<1> QED BY <1>2, <1>3, <1>4

(* What the segment i of a recording is that has the packets ps, when h are the
   segments without their keyframe. *)
Begins(h, i, ps) == i \notin h \union {1} /\ ps # <<>> => ps[1].kind = "Key"

InTarget(ps) ==
    \A k \in 2..Len(ps) :
        ps[k].kind = "Key" =>
            k <= MaxSegmentPackets /\ ps[k].time - ps[1].time < MaxSegmentDuration

Playable(h, i, f) ==
    /\ f.synced = TRUE
    /\ f.header = Len(Split!Packets(f.records))
    /\ Begins(h, i, Split!Packets(f.records))
    /\ InTarget(Split!Packets(f.records))

OpenSegment ==
    /\ AtWork(current)
    /\ Split!PacketsOf(segments) \o PacketsIn(current) = acceptedBySegments
    /\ currentPackets = Len(PacketsIn(current))
    /\ PacketsIn(current) # <<>> => currentStart = PacketsIn(current)[1].time
    /\ PacketsIn(current) = <<>> => Len(segments) + 1 \in headless \union {1}
    /\ Begins(headless, Len(segments) + 1, PacketsIn(current))
    /\ InTarget(PacketsIn(current))
    /\ Len(segments) + 1 <= MaxSegments

SegInv ==
    /\ state \in {"Open", "Finalized", "Aborted"}
    /\ segments \in Seq(File)
    /\ acceptedBySegments \in Seq(Packet)
    /\ Len(segments) <= MaxSegments
    /\ \A i \in 1..Len(segments) : Playable(headless, i, segments[i])
    /\ state = "Open" => OpenSegment
    /\ state = "Finalized" => Split!PacketsOf(segments) = acceptedBySegments

LEMMA InTargetGrows ==
    ASSUME NEW ps \in Seq(Packet), NEW p \in Packet, InTarget(ps),
           ps # <<>> /\ p.kind = "Key" =>
               Len(ps) + 1 <= MaxSegmentPackets /\ p.time - ps[1].time < MaxSegmentDuration
    PROVE  InTarget(Append(ps, p))
<1> DEFINE t == Append(ps, p)
           m == Len(ps)
<1>1. /\ Len(t) = m + 1 /\ t[m + 1] = p /\ m \in Nat
      /\ \A n \in 1..m : t[n] = ps[n]
  BY AppendProperties, LenProperties
<1>2. ps # <<>> <=> m # 0
  BY EmptySeq
<1> HIDE DEF t, m
<1>3. ASSUME NEW k \in 2..(m + 1), t[k].kind = "Key"
      PROVE  k <= MaxSegmentPackets /\ t[k].time - t[1].time < MaxSegmentDuration
  <2>1. m # 0 /\ 1 \in 1..m /\ t[1] = ps[1]
    BY <1>1
  <2>2. CASE k = m + 1
    BY <1>1, <1>2, <1>3, <2>1, <2>2 DEF m
  <2>3. CASE k \in 2..m
    BY <1>1, <1>3, <2>1, <2>3 DEF InTarget, m
  <2> QED BY <1>1, <2>2, <2>3
<1> QED BY <1>1, <1>3 DEF InTarget, t

(* A publication adds the open segment to the ones that are published. *)
LEMMA PublishedJoins ==
    ASSUME SegInv, state = "Open", segments' = Append(segments, Published(current)),
           headless' = headless \/ headless' = headless \union {Len(segments) + 2}
    PROVE  /\ segments' \in Seq(File)
           /\ Len(segments') = Len(segments) + 1
           /\ \A i \in 1..Len(segments') : Playable(headless', i, segments'[i])
           /\ Split!PacketsOf(segments') = acceptedBySegments
<1> DEFINE f == Published(current)
           n == Len(segments)
<1>1. OpenSegment /\ segments \in Seq(File) /\ n \in Nat
  BY LenProperties DEF SegInv
<1>2. current \in Writer /\ current.count = Len(PacketsIn(current))
  BY <1>1 DEF OpenSegment, AtWork
<1>3. /\ f \in File /\ f.header = current.count
      /\ f.records = current.file.records /\ f.synced = TRUE
  BY <1>2, SyncedFields
<1> HIDE DEF f
<1>4. Split!Packets(f.records) = PacketsIn(current)
  BY <1>3 DEF PacketsIn
<1>5. /\ segments' \in Seq(File) /\ Len(segments') = n + 1 /\ segments'[n + 1] = f
      /\ \A i \in 1..n : segments'[i] = segments[i]
  BY <1>1, <1>3, AppendProperties DEF f
<1>6. Playable(headless, n + 1, f)
  BY <1>1, <1>2, <1>3, <1>4 DEF Playable, OpenSegment
<1>7. \A i, x : Playable(headless, i, x) => Playable(headless', i, x)
  BY DEF Playable, Begins
<1>8. \A i \in 1..n : Playable(headless, i, segments[i])
  BY DEF SegInv
<1> HIDE DEF n
<1>9. \A i \in 1..(n + 1) : Playable(headless', i, segments'[i])
  <2>1. TAKE i \in 1..(n + 1)
  <2>2. CASE i = n + 1
    BY <1>5, <1>6, <1>7, <2>2
  <2>3. CASE i \in 1..n
    BY <1>5, <1>7, <1>8, <2>3
  <2>4. i = n + 1 \/ i \in 1..n
    BY <1>1
  <2> QED BY <2>2, <2>3, <2>4
<1>10. Split!PacketsOf(segments') = Split!PacketsOf(segments) \o Split!Packets(f.records)
  BY <1>1, <1>3, PacketsOfGrow DEF f
<1>11. Split!PacketsOf(segments') = acceptedBySegments
  BY <1>1, <1>4, <1>10 DEF OpenSegment
<1> QED BY <1>5, <1>9, <1>11 DEF n

(* A step that leaves the published segments alone. *)
LEMMA PublishedStay ==
    ASSUME SegInv, UNCHANGED <<segments, headless>>,
           state' \in {"Open", "Finalized"},
           acceptedBySegments' \in Seq(Packet),
           state' = "Open" => OpenSegment',
           state' = "Finalized" => state = "Finalized" /\ UNCHANGED acceptedBySegments
    PROVE  SegInv'
<1>1. \A i \in 1..Len(segments') : Playable(headless', i, segments'[i])
  BY DEF SegInv
<1>2. \A i \in 1..Len(segments) : Playable(headless, i, segments[i])'
  BY <1>1
<1> QED BY <1>1 DEF SegInv

LEMMA PushSegment ==
    ASSUME SegInv, NEW p \in Packet, Split!Push(p)
    PROVE  SegInv'
<1> DEFINE ps == PacketsIn(current)
           n == Len(segments)
           all == Split!PacketsOf(segments)
<1>1. /\ state = "Open" /\ ~Split!ShouldRotate(p) /\ current.stream
      /\ current' = Pushed(current, p)
      /\ currentPackets' = currentPackets + 1
      /\ currentStart' = IF currentPackets = 0 THEN p.time ELSE currentStart
      /\ acceptedBySegments' = Append(acceptedBySegments, p)
      /\ UNCHANGED <<state, segments, headless>>
  BY SameWriters DEF Split!Push, Split!Arrives, Split!Takes, Split!Counters, Split!Accept
<1>2. OpenSegment /\ acceptedBySegments \in Seq(Packet) /\ all \in Seq(Packet)
  <2>1. Split!NewWriter.file \in File
    BY SameWriters, InitialTypes DEF Writer
  <2>2. segments \in Seq(File)
    BY DEF SegInv
  <2> QED BY <1>1, <2>1, <2>2, PacketsOfGrow DEF SegInv
<1>3. ps \in Seq(Packet) /\ currentPackets = Len(ps)
  BY <1>2, PacketsTyped DEF OpenSegment, AtWork, Writer, File, PacketsIn
<1>4. AtWork(current') /\ PacketsIn(current') = Append(ps, p)
  BY <1>1, <1>2, PushedWorks DEF OpenSegment
<1>5. all \o Append(ps, p) = Append(all \o ps, p)
  <2>1. <<p>> \in Seq(Packet)
    OBVIOUS
  <2>2. Append(ps, p) = ps \o <<p>> /\ Append(all \o ps, p) = (all \o ps) \o <<p>>
    BY <1>2, <1>3, AppendIsConcat, ConcatProperties
  <2> QED BY <1>2, <1>3, <2>1, <2>2, ConcatAssociative
<1>6. all \o ps = acceptedBySegments
  BY <1>2 DEF OpenSegment
<1>7. Split!PacketsOf(segments') \o PacketsIn(current') = acceptedBySegments'
  BY <1>1, <1>4, <1>5, <1>6
<1>8. currentPackets = 0 <=> ps = <<>>
  BY <1>3, EmptySeq
<1> HIDE DEF ps, all
<1> DEFINE t == Append(ps, p)
<1>9. /\ t \in Seq(Packet) /\ Len(t) = Len(ps) + 1 /\ t # <<>>
      /\ Len(ps) \in Nat /\ t[Len(ps) + 1] = p /\ \A i \in 1..Len(ps) : t[i] = ps[i]
  BY <1>3, AppendProperties, LenProperties
<1>10. ps # <<>> => t[1] = ps[1] /\ currentStart = ps[1].time
  BY <1>2, <1>3, <1>8, <1>9 DEF OpenSegment, ps
<1>11. ps = <<>> => t[1] = p /\ n + 1 \in headless \union {1}
  BY <1>2, <1>3, <1>8, <1>9 DEF OpenSegment, ps
<1> HIDE DEF t
<1>12. currentStart' = t[1].time
  BY <1>1, <1>8, <1>10, <1>11
<1>13. Begins(headless, n + 1, t)
  <2>1. Begins(headless, n + 1, ps)
    BY <1>2 DEF OpenSegment, ps
  <2> QED BY <2>1, <1>10, <1>11 DEF Begins
<1>14. InTarget(t)
  <2>1. InTarget(ps)
    BY <1>2 DEF OpenSegment, ps
  <2>2. ps # <<>> /\ p.kind = "Key" =>
           ~(currentPackets + 1 > MaxSegmentPackets \/ p.time - currentStart >= MaxSegmentDuration)
    BY <1>1, <1>8 DEF Split!ShouldRotate, Split!OverTarget
  <2>3. MaxSegmentPackets \in Nat /\ MaxSegmentDuration \in Nat
    BY SplitPolicyAssumption DEF Split!PolicyIsValid
  <2>4. p.time \in Nat /\ (ps # <<>> => ps[1].time \in Nat)
    <3>1. ps # <<>> => ps[1] \in Packet
      BY <1>3, <1>9, EmptySeq, ElementOfSeq
    <3> QED BY <3>1, TimesAssumption DEF Packet
  <2>5. ps # <<>> /\ p.kind = "Key" =>
           Len(ps) + 1 <= MaxSegmentPackets /\ p.time - ps[1].time < MaxSegmentDuration
    <3>1. SUFFICES ASSUME ps # <<>>, p.kind = "Key"
                   PROVE  Len(ps) + 1 <= MaxSegmentPackets
                          /\ p.time - ps[1].time < MaxSegmentDuration
      OBVIOUS
    <3> DEFINE m == Len(ps)
               b == ps[1].time
               e == p.time
    <3>2. ~(m + 1 > MaxSegmentPackets \/ e - b >= MaxSegmentDuration)
      BY <1>3, <1>10, <2>2, <3>1
    <3>3. m \in Nat /\ b \in Nat /\ e \in Nat
      BY <1>9, <2>4, <3>1
    <3> HIDE DEF m, b, e
    <3>4. m + 1 <= MaxSegmentPackets /\ e - b < MaxSegmentDuration
      BY <2>3, <3>2, <3>3
    <3> QED BY <3>4 DEF m, b, e
  <2> QED BY <1>3, <2>1, <2>5, InTargetGrows DEF t
<1>15. OpenSegment'
  <2>1. t = PacketsIn(current') /\ Len(t) = currentPackets' /\ n + 1 <= MaxSegments
    BY <1>1, <1>2, <1>3, <1>4, <1>9 DEF t, OpenSegment
  <2> QED BY <1>1, <1>4, <1>7, <1>9, <1>12, <1>13, <1>14, <2>1 DEF OpenSegment
<1> QED BY <1>1, <1>2, <1>15, AppendProperties, PublishedStay

(* What fails in the open segment leaves it the open one, with its packets. *)
LEMMA FailureSegment ==
    ASSUME SegInv, HeaderNeverFails,
           \/ \E p \in Packet : Split!PushFails(p) \/ Split!RotateFails(p)
           \/ Split!FinalizeError
    PROVE  SegInv'
<1>1. /\ state = "Open"
      /\ \/ current.stream /\ TornOrNot(current, current')
         \/ FinalizeFails(current, current')
      /\ UNCHANGED <<state, currentPackets, currentStart, segments, headless,
                     acceptedBySegments>>
  BY SameWriters DEF Split!PushFails, Split!RotateFails, Split!FinalizeError, Split!Arrives,
     Split!Takes
<1>2. OpenSegment
  BY <1>1 DEF SegInv
<1>3. AtWork(current') /\ PacketsIn(current') = PacketsIn(current)
  BY <1>1, <1>2, FailedWorks DEF OpenSegment
<1>4. OpenSegment'
  BY <1>1, <1>2, <1>3 DEF OpenSegment
<1> QED BY <1>1, <1>4, PublishedStay DEF SegInv

LEMMA RotateSegment ==
    ASSUME SegInv, NEW p \in Packet, Split!Rotate(p)
    PROVE  SegInv'
<1> DEFINE n == Len(segments)
<1>1. /\ state = "Open" /\ state' = state /\ p.kind = "Key" /\ n + 1 < MaxSegments
      /\ segments' = Append(segments, Published(current))
  BY SameWriters DEF Split!Rotate, Split!Arrives, Split!ShouldRotate, Split!MayRotate
<1>2. \/ /\ current' = Pushed(NewWriter, p)
         /\ currentPackets' = 1 /\ currentStart' = p.time
         /\ acceptedBySegments' = Append(acceptedBySegments, p)
         /\ headless' = headless
      \/ /\ TornOrNot(NewWriter, current')
         /\ currentPackets' = 0
         /\ headless' = headless \union {n + 2}
         /\ acceptedBySegments' = acceptedBySegments
  BY SameWriters DEF Split!Rotate, Split!Counters, Split!Accept
<1>3. headless' = headless \/ headless' = headless \union {n + 2}
  BY <1>2
<1>4. /\ segments' \in Seq(File) /\ Len(segments') = n + 1
      /\ \A i \in 1..Len(segments') : Playable(headless', i, segments'[i])
      /\ Split!PacketsOf(segments') = acceptedBySegments
  BY <1>1, <1>3, PublishedJoins
<1>5. acceptedBySegments \in Seq(Packet) /\ n \in Nat /\ MaxSegments \in Nat
  BY LenProperties, SplitPolicyAssumption DEF SegInv, Split!PolicyIsValid
<1> HIDE DEF n
<1>6. NewWriter.stream
  BY DEF NewWriter
<1>7. CASE /\ current' = Pushed(NewWriter, p)
           /\ currentPackets' = 1 /\ currentStart' = p.time
           /\ acceptedBySegments' = Append(acceptedBySegments, p)
           /\ headless' = headless
  <2> DEFINE t == Append(<<>>, p)
  <2>1. AtWork(current') /\ PacketsIn(current') = t
    BY <1>6, <1>7, NewWriterWorks, PushedWorks
  <2>2. t \in Seq(Packet) /\ Len(t) = 1 /\ t[1] = p /\ t # <<>> /\ t = <<p>>
    BY AppendProperties, EmptySeq
  <2>3. acceptedBySegments \o t = Append(acceptedBySegments, p)
    BY <1>5, <2>2, AppendIsConcat
  <2> HIDE DEF t
  <2>4. Begins(headless', n + 2, t) /\ InTarget(t)
    BY <1>1, <2>2 DEF Begins, InTarget
  <2>5. OpenSegment'
    <3>1. Split!PacketsOf(segments') \o PacketsIn(current') = acceptedBySegments'
      BY <1>4, <1>7, <2>1, <2>3
    <3>2. Len(segments') + 1 = n + 2 /\ n + 2 <= MaxSegments
      BY <1>1, <1>4, <1>5
    <3> QED BY <1>7, <2>1, <2>2, <2>4, <3>1, <3>2 DEF OpenSegment
  <2>6. acceptedBySegments' \in Seq(Packet)
    BY <1>5, <1>7, AppendProperties
  <2> QED BY <1>1, <1>4, <1>5, <2>5, <2>6 DEF SegInv
<1>8. CASE /\ TornOrNot(NewWriter, current')
           /\ currentPackets' = 0
           /\ headless' = headless \union {n + 2}
           /\ acceptedBySegments' = acceptedBySegments
  <2>1. AtWork(current') /\ PacketsIn(current') = <<>>
    BY <1>6, <1>8, NewWriterWorks, FailedWorks
  <2>2. Begins(headless', n + 2, <<>>) /\ InTarget(<<>>) /\ Len(<<>>) = 0
    BY EmptySeq DEF Begins, InTarget
  <2>3. acceptedBySegments \o <<>> = acceptedBySegments
    BY <1>5, ConcatEmptySeq
  <2>4. OpenSegment'
    <3>1. Split!PacketsOf(segments') \o PacketsIn(current') = acceptedBySegments'
      BY <1>4, <1>8, <2>1, <2>3
    <3>2. Len(segments') + 1 = n + 2 /\ n + 2 <= MaxSegments
      BY <1>1, <1>4, <1>5
    <3> QED BY <1>8, <2>1, <2>2, <3>1, <3>2 DEF OpenSegment
  <2>5. acceptedBySegments' \in Seq(Packet)
    BY <1>5, <1>8
  <2> QED BY <1>1, <1>4, <1>5, <2>4, <2>5 DEF SegInv
<1> QED BY <1>2, <1>7, <1>8

LEMMA FinalizeSegment == ASSUME SegInv, Split!Finalize PROVE SegInv'
<1>1. /\ state = "Open" /\ state' = "Finalized"
      /\ segments' = Append(segments, Published(current))
      /\ UNCHANGED <<headless, acceptedBySegments>>
  BY SameWriters DEF Split!Finalize
<1>2. /\ segments' \in Seq(File) /\ Len(segments') = Len(segments) + 1
      /\ \A i \in 1..Len(segments') : Playable(headless', i, segments'[i])
      /\ Split!PacketsOf(segments') = acceptedBySegments
  BY <1>1, PublishedJoins
<1>3. Len(segments) + 1 <= MaxSegments
  BY <1>1 DEF SegInv, OpenSegment
<1> QED BY <1>1, <1>2, <1>3 DEF SegInv

LEMMA AbortSegment == ASSUME SegInv, Split!Abort PROVE SegInv'
<1>1. segments' = <<>> /\ state' = "Aborted" /\ UNCHANGED <<headless, acceptedBySegments>>
  BY DEF Split!Abort
<1>2. <<>> \in Seq(File) /\ Len(<<>>) = 0 /\ 0 <= MaxSegments
  BY SplitPolicyAssumption DEF Split!PolicyIsValid
<1> QED BY <1>1, <1>2 DEF SegInv

LEMMA SegmentsInvariant ==
    ASSUME HeaderNeverFails
    PROVE  Split!Spec => []SegInv
<1>1. Split!Init => SegInv
  <2> SUFFICES ASSUME Split!Init PROVE SegInv
    OBVIOUS
  <2>1. /\ state = "Open" /\ current = NewWriter /\ currentPackets = 0
        /\ segments = <<>> /\ acceptedBySegments = <<>>
    BY SameWriters DEF Split!Init
  <2>2. <<>> \in Seq(File) /\ <<>> \in Seq(Packet) /\ Len(<<>>) = 0
        /\ 0 <= MaxSegments /\ 1 <= MaxSegments
    BY SplitPolicyAssumption DEF Split!PolicyIsValid
  <2>3. Begins(headless, 1, <<>>) /\ InTarget(<<>>)
    BY <2>2 DEF Begins, InTarget
  <2>4. Split!PacketsOf(<<>>) \o <<>> = <<>>
    BY <2>2, PacketsOfNoFile, ConcatEmptySeq
  <2>5. OpenSegment
    BY <2>1, <2>2, <2>3, <2>4, NewWriterWorks DEF OpenSegment
  <2>6. Len(segments) = 0 /\ \A i \in 1..Len(segments) : Playable(headless, i, segments[i])
    BY <2>1, <2>2
  <2> QED BY <2>1, <2>2, <2>5, <2>6 DEF SegInv
<1>2. SegInv /\ [Split!Next]_(Split!vars) => SegInv'
  <2> SUFFICES ASSUME SegInv, [Split!Next]_(Split!vars) PROVE SegInv'
    OBVIOUS
  <2>1. CASE UNCHANGED Split!vars
    <3>1. UNCHANGED <<state, current, currentPackets, currentStart, segments, headless,
                      acceptedBySegments>>
      BY <2>1 DEF Split!vars
    <3>2. OpenSegment => OpenSegment'
      BY <3>1 DEF OpenSegment
    <3> QED BY <3>1, <3>2 DEF SegInv
  <2> QED BY <2>1, SameWriters, PushSegment, FailureSegment, RotateSegment, FinalizeSegment,
             AbortSegment DEF Split!Next
<1> QED BY <1>1, <1>2, PTL DEF Split!Spec

(* The segments of a PacketRecordings behaviour are those of a split recording. *)
LEMMA SplitIsRecorded == RecordingsSpec => Split!Spec
<1>1. OpenRecording => Split!Init
  BY DEF OpenRecording
<1>2. [SingleFile \/ Segments]_<<split, vars, splitVars>> => [Split!Next]_(Split!vars)
  BY DEF SingleFile, Segments, splitVars, Split!vars
<1> QED BY <1>1, <1>2, PTL DEF RecordingsSpec, Split!Spec

(* Until it is aborted, a split recording holds every packet it accepted, in
   order and once, for any limits of the policy: rotations, failed writes and
   failed publications lose none and repeat none. *)
THEOREM SplitLosesNothing ==
    ASSUME HeaderNeverFails
    PROVE  RecordingsSpec => []NothingLost
<1>1. SegInv => NothingLost
  <2> SUFFICES ASSUME SegInv, state # "Aborted" PROVE Split!Recorded = acceptedBySegments
    BY DEF NothingLost, Split!NothingLost
  <2>1. CASE state = "Open"
    BY <2>1 DEF SegInv, OpenSegment, Split!Recorded, PacketsIn
  <2>2. CASE state = "Finalized"
    BY <2>2, ConcatEmptySeq DEF SegInv, Split!Recorded
  <2> QED BY <2>1, <2>2 DEF SegInv
<1> QED BY <1>1, SegmentsInvariant, SplitIsRecorded, PTL

(* Every published segment is on the disk, its header counts its packets, and it
   starts at a keyframe, unless it is the first or its keyframe was not written. *)
THEOREM SegmentsArePlayable ==
    ASSUME HeaderNeverFails
    PROVE  RecordingsSpec => []SegmentsPlayable
<1>1. SegInv => SegmentsPlayable
  BY DEF SegInv, Playable, Begins, SegmentsPlayable, Split!SegmentsPlayable
<1> QED BY <1>1, SegmentsInvariant, SplitIsRecorded, PTL

(* No keyframe is put in a segment that is over its size or its duration, and
   the policy's count bounds the files. *)
THEOREM SegmentsKeepTheirTarget ==
    ASSUME HeaderNeverFails
    PROVE  RecordingsSpec => []SegmentsWithinTarget
<1>1. SegInv => SegmentsWithinTarget
  <2> SUFFICES ASSUME SegInv PROVE Split!SegmentsWithinTarget
    BY DEF SegmentsWithinTarget
  <2>1. Len(segments) + (IF state = "Open" THEN 1 ELSE 0) <= MaxSegments
    BY LenProperties DEF SegInv, OpenSegment
  <2>2. \A i \in DOMAIN segments : InTarget(Split!Packets(segments[i].records))
    BY DEF SegInv, Playable
  <2> QED BY <2>1, <2>2 DEF InTarget, Split!SegmentsWithinTarget
<1> QED BY <1>1, SegmentsInvariant, SplitIsRecorded, PTL
=============================================================================
