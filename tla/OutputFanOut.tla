---------------------------- MODULE OutputFanOut ----------------------------
(* How an EngineSession hands the packets of a program frame to its outputs
   (session_media.rs, session_runtime.rs): first the audio blocks due before
   the frame, then the video, each packet to the replay history, to the
   recording and to the stream, and nothing further after the first error.
   What the recording's file and the stream's queue then do is the subject of
   RecordingFile and StreamSession; here they accept packets or refuse them. *)
EXTENDS ReplayBuffer

CONSTANTS StreamCapacity,   \* capacity of the stream's packet queue
          VideoSizes,       \* payload sizes of video packets; audio has size 1
          MaxAudio,         \* bound: audio blocks due before one frame
          MaxTime,          \* bound: timestamps
          MaxPackets        \* bound: packets encoded in one behaviour

LimitsAreValid ==
    /\ HistoryIsValid
    /\ StreamCapacity \in Nat \ {0}
    /\ VideoSizes \subseteq Nat
    /\ {MaxAudio, MaxTime, MaxPackets} \subseteq Nat

VARIABLES outputs,    \* replay, recording and stream, as the session holds them
          now,        \* timestamp of the last frame, accepted or not
          encoded     \* packets encoded so far: the next one's id

vars == <<outputs, now, encoded>>

(* `captured`, what a running replay has accepted, and `streamed`, what the
   stream took while the recording was open, are kept for the properties.
   `loses` are the packets the recording's file will fail to write: from some
   packet on or one here and there, for the disk is full, the frame limit is
   reached, or a failed rename could not reopen it. *)
NoReplay == [on |-> FALSE, buffer |-> EmptyReplay, captured |-> <<>>]
NoRecording ==
    [on |-> FALSE, loses |-> {}, packets |-> <<>>, last |-> 0, streamed |-> {}]
NoStream == [state |-> "None", packets |-> <<>>]

Init ==
    /\ outputs = [replay |-> NoReplay, recording |-> NoRecording, stream |-> NoStream]
    /\ now = 0
    /\ encoded = 0
-----------------------------------------------------------------------------
ReplayTakes(o, p) == o.replay.on => Captures(o.replay.buffer, p)
RecordingTakes(o, p) ==
    o.recording.on => p.id \notin o.recording.loses /\ p.time >= o.recording.last
StreamTakes(o, p) ==
    o.stream.state # "None" => o.stream.state = "Open" /\ p.bytes <= StreamCapacity

InReplay(o, p) ==
    IF o.replay.on /\ ReplayTakes(o, p)
    THEN [o EXCEPT !.replay.buffer = Captured(@, p), !.replay.captured = Append(@, p)]
    ELSE o
InRecording(o, p) ==
    IF o.recording.on /\ RecordingTakes(o, p)
    THEN [o EXCEPT !.recording.packets = Append(@, p), !.recording.last = p.time] ELSE o
InStream(o, p) ==
    IF o.stream.state # "None" /\ StreamTakes(o, p)
    THEN [o EXCEPT !.stream.packets = Append(@, p),
                   !.recording.streamed = IF o.recording.on THEN @ \union {p} ELSE @]
    ELSE o

(* Mutant: the stream is served before the recording. *)
EmitStreamFirst(o, p) ==
    IF ~ReplayTakes(o, p) THEN o
    ELSE IF ~StreamTakes(o, p) THEN InReplay(o, p)
    ELSE InRecording(InStream(InReplay(o, p), p), p)

(* emit_packet: each output in turn, up to the first that refuses. *)
Emit(o, p) ==
    IF ~ReplayTakes(o, p) THEN o
    ELSE IF ~RecordingTakes(o, p) THEN InReplay(o, p)
    ELSE InStream(InRecording(InReplay(o, p), p), p)

Emits(o, p) == ReplayTakes(o, p) /\ RecordingTakes(o, p) /\ StreamTakes(o, p)

(* push_program_frame: the packets in order, up to the first one refused. *)
Dispatched(d, p) ==
    IF d.ok THEN [outputs |-> Emit(d.outputs, p), ok |-> Emits(d.outputs, p)] ELSE d

Dispatch(o, ps) ==
    LET upTo[n \in 0..Len(ps)] ==
            IF n = 0 THEN [outputs |-> o, ok |-> TRUE] ELSE Dispatched(upTo[n - 1], ps[n])
    IN  upTo[Len(ps)]

(* Mutant: the frame goes out before its audio. *)
FramePacketsVideoFirst(audio, at, video) ==
    <<video>> \o [i \in 1..audio |->
                    [id |-> encoded + i, kind |-> "Audio", time |-> at, bytes |-> 1]]

FramePackets(audio, at, video) ==
    Append([i \in 1..audio |->
              [id |-> encoded + i, kind |-> "Audio", time |-> at, bytes |-> 1]], video)

ProgramFrame(audio, at, video) ==
    /\ encoded + audio + 1 <= MaxPackets
    /\ outputs' = Dispatch(outputs, FramePackets(audio, at, video)).outputs
    /\ now' = video.time
    /\ encoded' = encoded + audio + 1

(* Frames come in time order, after one that failed too: the renderer advances
   its clock with every frame.  One that the session finds older than the last
   it took (session_media.rs, 82) reaches no output. *)
Frame ==
    \E audio \in 0..MaxAudio, time \in now..MaxTime, size \in VideoSizes,
       kind \in {"Key", "Inter"} :
      \E at \in now..time :
        ProgramFrame(audio, at,
          [id |-> encoded + audio + 1, kind |-> kind, time |-> time, bytes |-> size])

StartReplay ==
    /\ ~outputs.replay.on
    /\ outputs' = [outputs EXCEPT !.replay.on = TRUE]
    /\ UNCHANGED <<now, encoded>>

StopReplay ==
    /\ outputs.replay.on
    /\ outputs' = [outputs EXCEPT !.replay = NoReplay]
    /\ UNCHANGED <<now, encoded>>

StartRecording ==
    /\ ~outputs.recording.on
    /\ \E loses \in SUBSET (encoded + 1 .. MaxPackets) :
           outputs' = [outputs EXCEPT
                          !.recording = [NoRecording EXCEPT !.on = TRUE, !.loses = loses]]
    /\ UNCHANGED <<now, encoded>>

StopRecording ==
    /\ outputs.recording.on
    /\ outputs' = [outputs EXCEPT !.recording = NoRecording]
    /\ UNCHANGED <<now, encoded>>

StartStreaming ==
    /\ outputs.stream.state = "None"
    /\ outputs' = [outputs EXCEPT !.stream.state = "Open"]
    /\ UNCHANGED <<now, encoded>>

(* The reconnect budget is spent: the session keeps the failed stream. *)
StreamFails ==
    /\ outputs.stream.state = "Open"
    /\ outputs' = [outputs EXCEPT !.stream.state = "Failed"]
    /\ UNCHANGED <<now, encoded>>

FinishStreaming ==
    /\ outputs.stream.state # "None"
    /\ outputs' = [outputs EXCEPT !.stream = NoStream]
    /\ UNCHANGED <<now, encoded>>

Next ==
    \/ Frame
    \/ StartReplay \/ StopReplay
    \/ StartRecording \/ StopRecording
    \/ StartStreaming \/ StreamFails \/ FinishStreaming

Spec == Init /\ [][Next]_vars
-----------------------------------------------------------------------------
replay == outputs.replay.buffer
recording == outputs.recording

(* A suffix of the captured packets that respects every bound of the history,
   the age of its oldest packet being measured at its newest one. *)
Within(s) ==
    /\ BytesOf(s) <= ReplayBytes
    /\ Len(s) <= ReplayPackets
    /\ s # <<>> => Last(s).time - Head(s).time <= ReplayDuration

Ends(s) == {SubSeq(s, n + 1, Len(s)) : n \in 0..Len(s)}

IsLongest(s, ends) == s \in ends /\ \A t \in ends : Len(t) <= Len(s)

(* replay.rs, push "evicts only the oldest history", and no more of it than the
   bounds ask for: the history is the longest end of what was captured that is
   within them, its byte counter is exact after any sequence of evictions, and
   what is saved is the longest such end that starts at a keyframe. *)
RetainsLongestEnd ==
    LET retained == {s \in Ends(outputs.replay.captured) : Within(s)}
    IN  /\ replay.bytes = BytesOf(replay.packets)
        /\ IsLongest(replay.packets, retained)
        /\ IsLongest(Snapshot(replay),
                     {s \in retained : s # <<>> => Head(s).kind = "Key"})

(* The recording is served before the stream: nothing is broadcast that an open
   recording does not have, whichever of them fails. *)
StreamedIsRecorded == recording.streamed \subseteq ToSet(recording.packets)

InOrder ==
    \A s \in {replay.packets, recording.packets, outputs.stream.packets} :
        \A i, j \in DOMAIN s : i < j => s[i].id < s[j].id /\ s[i].time <= s[j].time

PacketsAdded == encoded' - encoded

(* A step that encodes a frame while the recording is open records all of it. *)
RecordsWholeFrame ==
    recording.on /\ encoded' # encoded =>
        Len(recording'.packets) = Len(recording.packets) + PacketsAdded

VideoStreamed ==
    encoded' # encoded /\ encoded' \in {p.id : p \in ToSet(outputs'.stream.packets)}

(* No step gives an output a packet twice or out of order, and a frame whose
   video reaches the stream, the last output to be served, has reached the
   others whole, its audio included. *)
FramesInOrderAndWhole ==
    [][/\ InOrder'
       /\ VideoStreamed =>
             /\ RecordsWholeFrame
             /\ outputs.replay.on =>
                  Len(outputs'.replay.captured) = Len(outputs.replay.captured) + PacketsAdded]_vars
=============================================================================
