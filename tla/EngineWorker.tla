----------------------------- MODULE EngineWorker -----------------------------
(* The worker thread that owns an EngineSession (obs-rs-engine, worker.rs,
   worker_output.rs, worker_runtime.rs) and the handle its callers hold.

   A caller marks the published snapshot with the phase it asks for, then puts
   the command on a bounded channel, and takes the mark back when the channel
   is full; the worker receives a command, handles it, pumps the stream and
   overwrites the whole snapshot.  The snapshot, the event queue, the frame
   counter and the channel are each atomic, and the steps of the two sides
   interleave between any two of them. *)
EXTENDS EngineOutputs, Integers, Sequences, FiniteSets

CONSTANTS Callers,          \* threads that share the &EngineWorker
          QueueCapacity,    \* capacity of the command channel
          EventCapacity,    \* OUTPUT_EVENT_CAPACITY
          Requests          \* the requests each caller makes

ASSUME CallersAssumption == IsFiniteSet(Callers)
ASSUME QueueCapacityAssumption == QueueCapacity \in Nat \ {0}
ASSUME EventCapacityAssumption == EventCapacity \in Nat \ {0}

VARIABLES
    channel,    \* the sync_channel of WorkerCommands
    queued,     \* queued_frames
    snapshot,   \* EngineWorkerSnapshot, the lifecycles of it
    events,     \* output_events
    worker,     \* the worker thread: [pc, command]
    caller,     \* each caller: [pc, op, previous]
    lastEvent,  \* history: the event pushed last
    refused     \* history: a call was refused since the last publication

callerVars == <<channel, caller>>
vars == <<outputVars, channel, queued, snapshot, events, worker, caller,
          lastEvent, refused>>

NonBlocking == {"StartRecording", "FinishRecording", "StartReplay", "StopReplay",
                "SaveReplay", "StartStreaming", "StartStreamingTarget",
                "FinishStreaming", "PushFrame", "MonitorAudio"}
Blocking == {"AbortRecording", "Control", "Shutdown"}
Operations == NonBlocking \union Blocking

ASSUME RequestsAssumption == Requests \in [Callers -> SUBSET Operations]

NoOp == "None"
NoCommand == [op |-> NoOp]
AtRest == [pc |-> "idle", op |-> NoOp, previous |-> "Idle"]
Command == [op : Operations, from : Callers]
OutputEvent == {"Starting", "Running", "Failed", "Stopping", "Stopped"}
Snapshot == [rec : OutputLifecycle, rep : OutputLifecycle, save : ReplaySaveStatus,
             str : OutputLifecycle, alive : BOOLEAN]

(* The command channel and the event queue stay within their capacities, and the
   threads at points of their code. *)
TypeOK ==
    /\ OutputsTypeOK
    /\ channel \in Seq(Command) /\ Len(channel) <= QueueCapacity
    /\ queued \in Nat
    /\ snapshot \in Snapshot
    /\ events \in Seq(OutputEvent) /\ Len(events) <= EventCapacity
    /\ worker \in [pc : {"receive", "handle", "publish", "close", "done"},
                   command : Command \union {NoCommand}]
    /\ caller \in [Callers -> [pc : {"idle", "mark", "send", "reject", "reply", "dropped"},
                               op : Operations \union {NoOp},
                               previous : OutputLifecycle]]
    /\ lastEvent \in OutputEvent \union {NoOp}
    /\ refused \in BOOLEAN

Init ==
    /\ OutputsInit
    /\ channel = <<>>
    /\ queued = 0
    /\ snapshot = [rec |-> "Idle", rep |-> "Idle", save |-> "Idle", str |-> "Idle",
                   alive |-> TRUE]
    /\ events = <<>>
    /\ worker = [pc |-> "receive", command |-> NoCommand]
    /\ caller = [c \in Callers |-> AtRest]
    /\ lastEvent = NoOp
    /\ refused = FALSE

(* push_output_event: the oldest event makes room for a new one. *)
PushEvent(e) ==
    /\ events' = Append(IF Len(events) = EventCapacity THEN Tail(events) ELSE events, e)
    /\ lastEvent' = e

NoEvent == UNCHANGED <<events, lastEvent>>

-----------------------------------------------------------------------------
(* Callers *)

(* A request begins; try_stop_replay_buffer first reads the phase it will
   restore.  Dropping the handle needs every other caller to have returned. *)
Begin(c, op) ==
    /\ caller[c].pc = "idle"
    /\ op = "Shutdown" => \A d \in Callers : caller[d].pc = "idle"
    /\ \A d \in Callers : caller[d].op # "Shutdown"
    /\ caller' = [caller EXCEPT ![c] = [pc |-> "mark", op |-> op,
                                        previous |-> snapshot.rep]]
    /\ UNCHANGED <<outputVars, channel, queued, snapshot, events, worker, lastEvent, refused>>

(* The snapshot after the mark of a request. *)
Marked(op) ==
    CASE op = "StartRecording"  -> [snapshot EXCEPT !.rec = "Starting"]
      [] op = "FinishRecording" -> [snapshot EXCEPT !.rec = "Stopping"]
      [] op = "StartReplay"     -> [snapshot EXCEPT !.rep = "Starting"]
      [] op = "StopReplay"      -> [snapshot EXCEPT !.rep = "Stopping"]
      [] op = "SaveReplay"      -> [snapshot EXCEPT !.save = "Saving"]
      [] op \in {"StartStreaming", "StartStreamingTarget"}
                                -> [snapshot EXCEPT !.str = "Starting"]
      [] op = "FinishStreaming" -> [snapshot EXCEPT !.str = "Stopping"]
      [] OTHER                  -> snapshot

(* The phase is published and the frame counted before the command is sent. *)
Mark(c) ==
    LET op == caller[c].op
    IN  /\ caller[c].pc = "mark"
        /\ snapshot' = Marked(op)
        /\ CASE op \in {"StartStreaming", "StartStreamingTarget"} -> PushEvent("Starting")
             [] op = "FinishStreaming" -> PushEvent("Stopping")
             [] OTHER -> NoEvent
        /\ queued' = IF op = "PushFrame" THEN queued + 1 ELSE queued
        /\ caller' = [caller EXCEPT ![c].pc = "send"]
        /\ UNCHANGED <<outputVars, channel, worker, refused>>

AwaitsAnswer(op) == op \in {"Control", "Shutdown"}

Returned(c) == [caller EXCEPT ![c] = AtRest]

(* try_send, or the blocking send of a request that waits for room. *)
Send(c) ==
    /\ caller[c].pc = "send"
    /\ Len(channel) < QueueCapacity
    /\ channel' = Append(channel, [op |-> caller[c].op, from |-> c])
    /\ caller' = IF AwaitsAnswer(caller[c].op) THEN [caller EXCEPT ![c].pc = "reply"]
                 ELSE Returned(c)
    /\ UNCHANGED <<outputVars, queued, snapshot, events, worker, lastEvent, refused>>

SendRefused(c) ==
    /\ caller[c].pc = "send"
    /\ caller[c].op \in NonBlocking
    /\ Len(channel) = QueueCapacity
    /\ caller' = [caller EXCEPT ![c].pc = "reject"]
    /\ UNCHANGED <<outputVars, channel, queued, snapshot, events, worker, lastEvent, refused>>

(* The snapshot after a refused request. *)
Unmarked(c) ==
    LET op == caller[c].op
    IN  CASE op \in {"StartRecording", "FinishRecording"} -> [snapshot EXCEPT !.rec = "Failed"]
          [] op = "StartReplay" -> [snapshot EXCEPT !.rep = "Failed"]
          [] op = "StopReplay"  -> [snapshot EXCEPT !.rep = caller[c].previous]
          [] op = "SaveReplay"  -> [snapshot EXCEPT !.save = "Failed"]
          [] op \in {"StartStreaming", "FinishStreaming"} -> [snapshot EXCEPT !.str = "Failed"]
          [] OTHER -> snapshot

(* Mutant: a refused stream request tells no one. *)
RejectSilently(c) ==
    /\ caller[c].pc = "reject"
    /\ snapshot' = Unmarked(c)
    /\ NoEvent
    /\ queued' = IF caller[c].op = "PushFrame" THEN queued - 1 ELSE queued
    /\ caller' = Returned(c)
    /\ refused' = TRUE
    /\ UNCHANGED <<outputVars, channel, worker>>

(* A refused request takes its mark back.  start_streaming_target_configured
   does not: its Starting stays until the worker publishes again. *)
Reject(c) ==
    LET op == caller[c].op
    IN  /\ caller[c].pc = "reject"
        /\ snapshot' = Unmarked(c)
        /\ IF op \in {"StartStreaming", "FinishStreaming"} THEN PushEvent("Failed")
           ELSE NoEvent
        /\ queued' = IF op = "PushFrame" THEN queued - 1 ELSE queued
        /\ caller' = Returned(c)
        /\ refused' = TRUE
        /\ UNCHANGED <<outputVars, channel, worker>>

TakeEvents(c) ==
    /\ caller[c].pc = "idle"
    /\ \A d \in Callers : caller[d].op # "Shutdown"
    /\ events # <<>>
    /\ events' = <<>>
    /\ UNCHANGED <<outputVars, channel, queued, snapshot, worker, caller, lastEvent, refused>>

(* Drop returns when the worker thread has ended. *)
Join(c) ==
    /\ caller[c].pc = "reply"
    /\ caller[c].op = "Shutdown"
    /\ worker.pc = "done"
    /\ caller' = [caller EXCEPT ![c].pc = "dropped"]
    /\ UNCHANGED <<outputVars, channel, queued, snapshot, events, worker, lastEvent, refused>>

-----------------------------------------------------------------------------
(* The worker thread *)

Receive ==
    /\ worker.pc = "receive"
    /\ channel # <<>>
    /\ worker' = [pc |-> "handle", command |-> Head(channel)]
    /\ channel' = Tail(channel)
    /\ UNCHANGED <<outputVars, queued, snapshot, events, caller, lastEvent, refused>>

(* The session's part of a command, and the event that reports it. *)
Perform(op) ==
    \/ op = "StartRecording" /\ StartRecording /\ NoEvent
    \/ op = "FinishRecording" /\ FinishRecording /\ NoEvent
    \/ op = "AbortRecording" /\ AbortRecording /\ NoEvent
    \/ op = "StartReplay" /\ StartReplay /\ NoEvent
    \/ op = "StopReplay" /\ StopReplay /\ NoEvent
    \/ op = "SaveReplay" /\ SaveReplay /\ NoEvent
    \/ /\ op \in {"StartStreaming", "StartStreamingTarget"}
       /\ \/ StartStreamingWorks /\ PushEvent("Running")
          \/ StartStreamingFails /\ PushEvent("Failed")
    \/ op = "FinishStreaming" /\ FinishStreaming /\ PushEvent("Stopped")
    \/ /\ op \in {"PushFrame", "MonitorAudio", "Control", "Shutdown"}
       /\ UNCHANGED outputVars
       /\ NoEvent

(* Mutant: a frame leaves the counter twice. *)
HandleCountsAll ==
    /\ worker.pc = "handle"
    /\ Perform(worker.command.op)
    /\ queued' = IF queued > 0 THEN queued - 1 ELSE queued
    /\ worker' = [worker EXCEPT !.pc = "publish"]
    /\ caller' = IF worker.command.op = "Control"
                 THEN Returned(worker.command.from) ELSE caller
    /\ UNCHANGED <<channel, snapshot, refused>>

(* Mutant: a control command gets no answer. *)
HandleWithoutReply ==
    /\ worker.pc = "handle"
    /\ Perform(worker.command.op)
    /\ queued' = IF worker.command.op = "PushFrame" THEN queued - 1 ELSE queued
    /\ worker' = [worker EXCEPT !.pc = "publish"]
    /\ UNCHANGED <<channel, snapshot, caller, refused>>

(* The command is carried out and its caller answered. *)
Handle ==
    /\ worker.pc = "handle"
    /\ Perform(worker.command.op)
    /\ queued' = IF worker.command.op = "PushFrame" THEN queued - 1 ELSE queued
    /\ worker' = [worker EXCEPT !.pc = "publish"]
    /\ caller' = IF worker.command.op = "Control"
                 THEN Returned(worker.command.from) ELSE caller
    /\ UNCHANGED <<channel, snapshot, refused>>

(* publish_snapshot: the session's snapshot replaces the published one. *)
PublishSnapshot(alive) ==
    snapshot' = [rec |-> recPhase', rep |-> repPhase', save |-> saveStatus',
                 str |-> strPhase', alive |-> alive]

(* Mutant: the snapshot is taken before the stream is pumped. *)
PublishBeforePump ==
    /\ worker.pc = "publish"
    /\ StreamPumped
    /\ snapshot' = [rec |-> recPhase, rep |-> repPhase, save |-> saveStatus,
                    str |-> strPhase, alive |-> worker.command.op # "Shutdown"]
    /\ worker' = [pc |-> IF worker.command.op = "Shutdown" THEN "close" ELSE "receive",
                  command |-> NoCommand]
    /\ refused' = FALSE
    /\ UNCHANGED <<channel, queued, events, caller, lastEvent>>

(* pump_stream and publish_snapshot, after every command. *)
Publish ==
    /\ worker.pc = "publish"
    /\ StreamPumped
    /\ PublishSnapshot(worker.command.op # "Shutdown")
    /\ worker' = [pc |-> IF worker.command.op = "Shutdown" THEN "close" ELSE "receive",
                  command |-> NoCommand]
    /\ refused' = FALSE
    /\ UNCHANGED <<channel, queued, events, caller, lastEvent>>

(* After the loop: the stream is closed and an open recording aborted. *)
Close ==
    /\ worker.pc = "close"
    /\ CloseOutputs
    /\ PublishSnapshot(FALSE)
    /\ worker' = [worker EXCEPT !.pc = "done"]
    /\ refused' = FALSE
    /\ UNCHANGED <<channel, queued, events, caller, lastEvent>>

WorkerStep == Receive \/ Handle \/ Publish \/ Close
CallerStep(c) == Mark(c) \/ Send(c) \/ SendRefused(c) \/ Reject(c) \/ Join(c)

Next ==
    \/ WorkerStep
    \/ \E c \in Callers : CallerStep(c) \/ TakeEvents(c)
    \/ \E c \in Callers : \E op \in Requests[c] : Begin(c, op)

Spec == Init /\ [][Next]_vars

-----------------------------------------------------------------------------
(* Properties *)

(* QueuedFramesExact: the frame counter the UI shows is exact whatever the interleaving: every
   frame in the channel, those of calls between the increment and the answer
   of the channel, and the one the worker has taken but not yet counted off.
   In particular the unsigned counter never wraps below zero. *)
FramesIn(commands) == {i \in DOMAIN commands : commands[i].op = "PushFrame"}
FramesInCalls == {c \in Callers : /\ caller[c].op = "PushFrame"
                                  /\ caller[c].pc \in {"send", "reject"}}
FramesInWorker ==
    IF worker.pc = "handle" /\ worker.command.op = "PushFrame" THEN 1 ELSE 0

QueuedFramesExact ==
    queued = Cardinality(FramesIn(channel)) + Cardinality(FramesInCalls) + FramesInWorker

Quiet ==
    /\ channel = <<>>
    /\ worker.pc = "receive"
    /\ \A c \in Callers : caller[c].pc = "idle"

(* What a reader of the snapshot sees once nothing is under way is what the
   session does, unless a call was refused: its mark may land after the last
   publication. *)
QuietSnapshot == Quiet /\ ~refused =>
        snapshot = [rec |-> recPhase, rep |-> repPhase, save |-> saveStatus,
                    str |-> strPhase, alive |-> TRUE]

(* The last event agrees with the stream once nothing is under way, and no
   request is left without its conclusion. *)
EventsConclude ==
    Quiet => /\ lastEvent \notin {"Starting", "Stopping"}
             /\ lastEvent = "Running" => stream # NoStream
             /\ lastEvent = "Stopped" => stream = NoStream

(* An in-flight phase a caller published is settled by the worker. *)
PhasesSettle ==
    /\ snapshot.rec \in {"Starting", "Stopping"} ~> snapshot.rec \notin {"Starting", "Stopping"}
    /\ snapshot.rep \in {"Starting", "Stopping"} ~> snapshot.rep \notin {"Starting", "Stopping"}
    /\ snapshot.save = "Saving" ~> snapshot.save # "Saving"
    /\ snapshot.str \in {"Starting", "Stopping"} ~> snapshot.str \notin {"Starting", "Stopping"}

(* No caller blocks for ever, on a full channel, on a reply, or on joining the
   thread; and dropping the handle ends the worker. *)
CallsReturn == \A c \in Callers : caller[c].pc # "idle" ~> caller[c].pc \in {"idle", "dropped"}
=============================================================================
