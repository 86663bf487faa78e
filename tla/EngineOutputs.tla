---------------------------- MODULE EngineOutputs ----------------------------
(* The three outputs an EngineSession owns (obs-rs-engine, session_output.rs):
   the recording, the replay buffer and the stream, each with the lifecycle
   the session reports for it.  The session lives on the worker thread and is
   driven through &mut self, so an operation is one step.  Media is left out:
   what the outputs contain is the subject of OutputFanOut.

   The stream is a connection as StreamConnection describes it. *)
EXTENDS StreamConnection

ASSUME MaxAttemptsAssumption == MaxAttempts \in Nat

VARIABLES
    recording,      \* recording.is_some()
    recPhase,       \* recording_lifecycle
    replay,         \* replay_buffer.is_some()
    repPhase,       \* replay_lifecycle
    saveStatus,     \* replay_save_status
    stream,         \* streaming: NoStream or [state, attempts]
    strPhase        \* streaming_lifecycle

recVars == <<recording, recPhase>>
repVars == <<replay, repPhase, saveStatus>>
strVars == <<stream, strPhase>>
outputVars == <<recVars, repVars, strVars>>

OutputLifecycle == {"Idle", "Starting", "Running", "Stopping", "Failed"}
ReplaySaveStatus == {"Idle", "Saving", "Saved", "Failed"}
IsStopped(phase) == phase \in {"Idle", "Failed"}

NoStream == [state |-> "None", attempts |-> 0]

(* The session holds outputs and phases of their types. *)
OutputsTypeOK ==
    /\ recording \in BOOLEAN
    /\ replay \in BOOLEAN
    /\ stream \in Connection \union {NoStream}
    /\ {recPhase, repPhase, strPhase} \subseteq OutputLifecycle
    /\ saveStatus \in ReplaySaveStatus

OutputsInit ==
    /\ recording = FALSE /\ recPhase = "Idle"
    /\ replay = FALSE /\ repPhase = "Idle" /\ saveStatus = "Idle"
    /\ stream = NoStream /\ strPhase = "Idle"

-----------------------------------------------------------------------------
(* Recording *)

(* Busy is refused before the lifecycle is touched. *)
StartRecording ==
    /\ \/ recording /\ UNCHANGED recVars
       \/ ~recording /\ recording' = TRUE /\ recPhase' = "Running"
       \/ ~recording /\ recording' = FALSE /\ recPhase' = "Failed"
    /\ UNCHANGED <<repVars, strVars>>

(* A failed finalization keeps the recording open. *)
FinishRecording ==
    /\ \/ ~recording /\ UNCHANGED recVars
       \/ recording /\ recording' = FALSE /\ recPhase' = "Idle"
       \/ recording /\ recording' = TRUE /\ recPhase' = "Failed"
    /\ UNCHANGED <<repVars, strVars>>

AbortRecording ==
    /\ recording' = FALSE /\ recPhase' = "Idle"
    /\ UNCHANGED <<repVars, strVars>>

-----------------------------------------------------------------------------
(* Replay buffer *)

(* Mutant: a refused configuration leaves the phase in flight. *)
StartReplayStuck ==
    /\ \/ replay /\ UNCHANGED repVars
       \/ /\ ~replay
          /\ saveStatus' = "Idle"
          /\ \/ replay' = TRUE /\ repPhase' = "Running"
             \/ replay' = FALSE /\ repPhase' = "Starting"
    /\ UNCHANGED <<recVars, strVars>>

StartReplay ==
    /\ \/ replay /\ UNCHANGED repVars
       \/ /\ ~replay
          /\ saveStatus' = "Idle"
          /\ \/ replay' = TRUE /\ repPhase' = "Running"
             \/ replay' = FALSE /\ repPhase' = "Failed"
    /\ UNCHANGED <<recVars, strVars>>

StopReplay ==
    /\ replay' = FALSE /\ repPhase' = "Idle" /\ saveStatus' = "Idle"
    /\ UNCHANGED <<recVars, strVars>>

SaveReplay ==
    /\ \/ replay /\ saveStatus' = "Saved"
       \/ saveStatus' = "Failed"
    /\ UNCHANGED <<recVars, replay, repPhase, strVars>>

-----------------------------------------------------------------------------
(* Stream *)

(* StreamOutput::connect connects once, outside the reconnect budget. *)
Connected == [state |-> "Connected", attempts |-> 0]

StartStreamingWorks ==
    /\ stream = NoStream
    /\ stream' = Connected /\ strPhase' = "Running"
    /\ UNCHANGED <<recVars, repVars>>

StartStreamingFails ==
    /\ IF stream = NoStream THEN strPhase' = "Failed" ELSE UNCHANGED strPhase
    /\ UNCHANGED <<stream, recVars, repVars>>

(* One pump of a connection: the batch goes out, or it does not and one
   reconnect follows at once.  <<connection, phase>> afterwards. *)
Pumps(s, phase) ==
    (IF s.state = "Connected" THEN {<<s, phase>>} ELSE {})
    \union
    {<<r[1], CASE r[2] = "Reconnected" -> "Running"
               [] r[2] = "Deferred" -> phase
               [] r[2] = "Error" -> "Failed">> :
        r \in Reconnects(IF s.state = "Connected" THEN Lost(s) ELSE s)}

(* Mutant: a stream that has reconnected keeps the phase of its failure. *)
PumpStreamSilentRecovery(s, phase) ==
    IF s.state = "Disconnected"
      THEN UNION {CASE r[2] = "Deferred" -> {<<r[1], phase>>}
                    [] r[2] = "Error" -> {<<r[1], "Failed">>}
                    [] r[2] = "Reconnected" -> Pumps(r[1], phase) :
                        r \in Reconnects(s)}
      ELSE Pumps(s, phase)

(* pump_stream: a disconnected stream reconnects before it is pumped. *)
PumpStream(s, phase) ==
    IF s.state = "Disconnected"
      THEN UNION {CASE r[2] = "Deferred" -> {<<r[1], phase>>}
                    [] r[2] = "Error" -> {<<r[1], "Failed">>}
                    [] r[2] = "Reconnected" -> Pumps(r[1], "Running") :
                        r \in Reconnects(s)}
      ELSE Pumps(s, phase)

(* What one call of the worker's pump_stream leaves behind. *)
StreamPumped ==
    /\ \/ stream = NoStream /\ UNCHANGED strVars
       \/ /\ stream # NoStream
          /\ \E p \in PumpStream(stream, strPhase) : stream' = p[1] /\ strPhase' = p[2]
    /\ UNCHANGED <<recVars, repVars>>

FinishStreaming ==
    /\ stream' = NoStream /\ strPhase' = "Idle"
    /\ UNCHANGED <<recVars, repVars>>

(* What the worker does with the session before it ends: finish_streaming,
   then abort_recording. *)
CloseOutputs ==
    /\ stream' = NoStream /\ strPhase' = "Idle"
    /\ recording' = FALSE /\ recPhase' = "Idle"
    /\ UNCHANGED repVars

(* All that can happen to the outputs of a session. *)
OutputsNext ==
    \/ StartRecording \/ FinishRecording \/ AbortRecording
    \/ StartReplay \/ StopReplay \/ SaveReplay
    \/ StartStreamingWorks \/ StartStreamingFails \/ StreamPumped \/ FinishStreaming
    \/ CloseOutputs

-----------------------------------------------------------------------------
(* Properties *)

(* A stream that carries media says so: leaving the phase at Failed after a
   recovery "would show a stopped stream in the UI while packets were
   flowing".  And one that has used up its reconnects says that. *)
FlowingMeansRunning ==
    /\ stream.state = "Connected" => strPhase = "Running"
    /\ stream.state = "Failed" => strPhase = "Failed"

(* The lifecycle the session reports never contradicts what it owns: a running
   output is open and an idle one is closed, whatever failed in between,
   and a stream that carries media is not shown as stopped. *)
PhaseMatchesOutput ==
    /\ recPhase = "Running" => recording
    /\ recPhase = "Idle" => ~recording
    /\ replay <=> repPhase = "Running"
    /\ strPhase = "Running" => stream # NoStream
    /\ strPhase = "Idle" => stream = NoStream
    /\ FlowingMeansRunning

(* "A failed finalization leaves the recording open and the phase `Failed`, so
   the captured packets are not silently discarded": only a commit or an abort
   closes a recording. *)
RecordingKeptUntilCommitted ==
    [][recording /\ ~recording' => recPhase' = "Idle"]_recVars
=============================================================================
