-------------------------- MODULE EngineWorker_proofs --------------------------
(* Proofs about EngineWorker, the outputs its session owns and the desktop that
   calls it.  The outputs are treated first: their invariant is inductive over
   OutputsNext, and every step of the worker system is a step of OutputsNext or
   leaves them alone.

   What is proved of the worker is proved of WorkerSpec, whose callers may make
   any request at any time; Spec, with the requests of an instance, and the
   desktop, which requests what its buttons and its timer ask for, are both
   special cases of it. *)
EXTENDS DesktopOutput, FiniteSetTheorems, SequenceTheorems, TLAPS

OutputsInv == OutputsTypeOK /\ PhaseMatchesOutput /\ FlowingMeansRunning

ConnectionConsistent(s, phase) ==
    /\ s \in Connection
    /\ phase \in OutputLifecycle \ {"Idle"}
    /\ s.state = "Connected" => phase = "Running"
    /\ s.state = "Failed" => phase = "Failed"

(* What a reconnect leaves behind (StreamSession::reconnect_at): it connects
   or it does not, and a session that has failed stays so. *)
LEMMA ReconnectOutcome ==
    ASSUME NEW s \in Connection, s.state # "Connected", NEW r \in Reconnects(s)
    PROVE  /\ r[1] \in Connection
           /\ r[2] \in {"Reconnected", "Deferred", "Error"}
           /\ r[2] = "Reconnected" => r[1].state = "Connected"
           /\ r[2] = "Deferred" => r[1] = s /\ s.state = "Disconnected"
           /\ r[2] = "Error" => r[1].state # "Connected"
<1>1. CASE s.state = "Failed"
  BY <1>1 DEF Reconnects
<1>2. CASE s.state = "Disconnected" /\ s.attempts >= MaxAttempts
  BY <1>2, MaxAttemptsAssumption DEF Reconnects, Connection, ConnectionStates
<1>3. CASE s.state = "Disconnected" /\ ~(s.attempts >= MaxAttempts)
  <2> DEFINE n == s.attempts + 1
  <2>1. n \in 0..MaxAttempts
    BY <1>3, MaxAttemptsAssumption DEF Connection
  <2>2. r \in {<<s, "Deferred">>,
               <<[state |-> "Connected", attempts |-> n], "Reconnected">>,
               <<[state |-> IF n >= MaxAttempts THEN "Failed" ELSE s.state,
                  attempts |-> n], "Error">>}
    BY <1>3 DEF Reconnects
  <2> QED BY <2>1, <2>2, <1>3 DEF Connection, ConnectionStates
<1> QED BY <1>1, <1>2, <1>3 DEF Connection, ConnectionStates

(* A pump keeps the phase in line with the connection. *)
LEMMA PumpsConsistent ==
    ASSUME NEW s, NEW phase, ConnectionConsistent(s, phase), NEW p \in Pumps(s, phase)
    PROVE  ConnectionConsistent(p[1], p[2])
<1> DEFINE d == IF s.state = "Connected" THEN [s EXCEPT !.state = "Disconnected"] ELSE s
<1>1. d \in Connection /\ d.state # "Connected"
  BY DEF ConnectionConsistent, Connection, ConnectionStates
<1>2. CASE s.state = "Connected" /\ p = <<s, phase>>
  BY <1>2
<1>3. CASE \E r \in Reconnects(d) :
             p = <<r[1], CASE r[2] = "Reconnected" -> "Running"
                           [] r[2] = "Deferred" -> phase
                           [] r[2] = "Error" -> "Failed">>
  <2>1. PICK r \in Reconnects(d) :
             p = <<r[1], CASE r[2] = "Reconnected" -> "Running"
                           [] r[2] = "Deferred" -> phase
                           [] r[2] = "Error" -> "Failed">>
    BY <1>3
  <2>2. /\ r[1] \in Connection
        /\ r[2] \in {"Reconnected", "Deferred", "Error"}
        /\ r[2] = "Reconnected" => r[1].state = "Connected"
        /\ r[2] = "Deferred" => r[1] = d /\ d.state = "Disconnected"
        /\ r[2] = "Error" => r[1].state # "Connected"
    BY <1>1, ReconnectOutcome
  <2> HIDE DEF d
  <2>3. CASE r[2] = "Reconnected"
    BY <2>1, <2>2, <2>3 DEF ConnectionConsistent, OutputLifecycle
  <2>4. CASE r[2] = "Deferred"
    BY <2>1, <2>2, <2>4 DEF ConnectionConsistent, OutputLifecycle
  <2>5. CASE r[2] = "Error"
    BY <2>1, <2>2, <2>5 DEF ConnectionConsistent, OutputLifecycle
  <2> QED BY <2>2, <2>3, <2>4, <2>5
<1> QED BY <1>2, <1>3 DEF Pumps, Lost

(* pump_stream keeps the phase in line with the connection. *)
LEMMA PumpStreamConsistent ==
    ASSUME NEW s, NEW phase, ConnectionConsistent(s, phase), NEW p \in PumpStream(s, phase)
    PROVE  ConnectionConsistent(p[1], p[2])
<1>1. CASE s.state # "Disconnected"
  BY <1>1, PumpsConsistent DEF PumpStream
<1>2. CASE s.state = "Disconnected"
  <2>1. PICK r \in Reconnects(s) :
            p \in CASE r[2] = "Deferred" -> {<<r[1], phase>>}
                    [] r[2] = "Error" -> {<<r[1], "Failed">>}
                    [] r[2] = "Reconnected" -> Pumps(r[1], "Running")
    BY <1>2 DEF PumpStream
  <2>2. /\ r[1] \in Connection
        /\ r[2] \in {"Reconnected", "Deferred", "Error"}
        /\ r[2] = "Reconnected" => r[1].state = "Connected"
        /\ r[2] = "Deferred" => r[1] = s /\ s.state = "Disconnected"
        /\ r[2] = "Error" => r[1].state # "Connected"
    BY <1>2, ReconnectOutcome DEF ConnectionConsistent
  <2>3. CASE r[2] = "Reconnected"
    <3>1. ConnectionConsistent(r[1], "Running")
      BY <2>2, <2>3 DEF ConnectionConsistent, OutputLifecycle
    <3>2. p \in Pumps(r[1], "Running")
      BY <2>1, <2>3
    <3> QED BY <3>1, <3>2, PumpsConsistent
  <2>4. CASE r[2] = "Deferred"
    BY <2>1, <2>2, <2>4 DEF ConnectionConsistent
  <2>5. CASE r[2] = "Error"
    <3>1. p = <<r[1], "Failed">>
      BY <2>1, <2>5
    <3> QED BY <3>1, <2>2, <2>5 DEF ConnectionConsistent, OutputLifecycle
  <2> QED BY <2>2, <2>3, <2>4, <2>5
<1> QED BY <1>1, <1>2

-----------------------------------------------------------------------------

LEMMA OutputsInitInv == OutputsInit => OutputsInv
<1> SUFFICES ASSUME OutputsInit PROVE OutputsInv
  OBVIOUS
<1>1. OutputsTypeOK
  BY DEF OutputsInit, OutputsTypeOK, OutputLifecycle, ReplaySaveStatus
<1>2. PhaseMatchesOutput
  BY DEF OutputsInit, PhaseMatchesOutput, FlowingMeansRunning, NoStream
<1>3. FlowingMeansRunning
  BY DEF OutputsInit, FlowingMeansRunning, NoStream
<1> QED BY <1>1, <1>2, <1>3 DEF OutputsInv

(* Whatever happens to the outputs, and however it fails, keeps their phases
   in line with what is open. *)
LEMMA OutputsStep ==
    ASSUME OutputsInv, [OutputsNext]_outputVars
    PROVE  OutputsInv'
<1> USE DEF OutputsInv, OutputsTypeOK, PhaseMatchesOutput, FlowingMeansRunning,
            recVars, repVars, strVars
<1>1. CASE StartRecording
  BY <1>1 DEF StartRecording, OutputLifecycle
<1>2. CASE FinishRecording
  <2>1. UNCHANGED <<replay, repPhase, saveStatus, stream, strPhase>>
    BY <1>2 DEF FinishRecording
  <2>2. CASE ~recording /\ UNCHANGED <<recording, recPhase>>
    BY <2>1, <2>2
  <2>3. CASE recording /\ recording' = FALSE /\ recPhase' = "Idle"
    BY <2>1, <2>3 DEF OutputLifecycle
  <2>4. CASE recording /\ recording' = TRUE /\ recPhase' = "Failed"
    BY <2>1, <2>4 DEF OutputLifecycle
  <2> QED BY <1>2, <2>2, <2>3, <2>4 DEF FinishRecording
<1>3. CASE AbortRecording
  BY <1>3 DEF AbortRecording, OutputLifecycle
<1>4. CASE StartReplay
  BY <1>4 DEF StartReplay, OutputLifecycle, ReplaySaveStatus
<1>5. CASE StopReplay
  BY <1>5 DEF StopReplay, OutputLifecycle, ReplaySaveStatus
<1>6. CASE SaveReplay
  BY <1>6 DEF SaveReplay, ReplaySaveStatus
<1>7. CASE StartStreamingWorks
  BY <1>7, MaxAttemptsAssumption
     DEF StartStreamingWorks, Connected, Connection, ConnectionStates, NoStream, OutputLifecycle
<1>8. CASE StartStreamingFails
  BY <1>8 DEF StartStreamingFails, NoStream, OutputLifecycle
<1>9. CASE StreamPumped
  <2>1. CASE stream = NoStream /\ UNCHANGED strVars
    BY <1>9, <2>1 DEF StreamPumped
  <2>2. CASE stream # NoStream /\ \E p \in PumpStream(stream, strPhase) :
                                     stream' = p[1] /\ strPhase' = p[2]
    <3>1. ConnectionConsistent(stream, strPhase)
      BY <2>2 DEF ConnectionConsistent
    <3>2. ConnectionConsistent(stream', strPhase')
      BY <2>2, <3>1, PumpStreamConsistent
    <3>3. stream' # NoStream
      BY <3>2 DEF ConnectionConsistent, Connection, ConnectionStates, NoStream
    <3> QED BY <1>9, <3>2, <3>3 DEF StreamPumped, ConnectionConsistent
  <2> QED BY <1>9, <2>1, <2>2 DEF StreamPumped
<1>10. CASE FinishStreaming
  BY <1>10 DEF FinishStreaming, NoStream, OutputLifecycle
<1>11. CASE CloseOutputs
  BY <1>11 DEF CloseOutputs, NoStream, OutputLifecycle
<1>12. CASE UNCHANGED outputVars
  BY <1>12 DEF outputVars
<1> QED BY <1>1, <1>2, <1>3, <1>4, <1>5, <1>6, <1>7, <1>8, <1>9, <1>10, <1>11, <1>12
        DEF OutputsNext

WorkerNext ==
    \/ WorkerStep
    \/ \E c \in Callers : CallerStep(c) \/ TakeEvents(c)
    \/ \E c \in Callers : \E op \in Operations : Begin(c, op)

WorkerSpec == Init /\ [][WorkerNext]_vars

LEMMA AnyRequests == Spec => WorkerSpec
<1>1. [Next]_vars => [WorkerNext]_vars
  BY RequestsAssumption DEF Next, WorkerNext
<1> QED BY <1>1, PTL DEF Spec, WorkerSpec

(* Every step of the worker system does to the outputs what the session can
   do to them, and mostly nothing. *)
LEMMA WorkerDrivesOutputs == [WorkerNext]_vars => [OutputsNext]_outputVars
<1> SUFFICES ASSUME [WorkerNext]_vars PROVE [OutputsNext]_outputVars
  OBVIOUS
<1>1. ASSUME NEW c \in Callers, CallerStep(c) \/ TakeEvents(c)
      PROVE  UNCHANGED outputVars
  BY <1>1 DEF CallerStep, Mark, Send, SendRefused, Reject, Join, TakeEvents
<1>2. ASSUME NEW c \in Callers, NEW op \in Operations, Begin(c, op)
      PROVE  UNCHANGED outputVars
  BY <1>2 DEF Begin
<1>3. ASSUME Receive PROVE UNCHANGED outputVars
  BY <1>3 DEF Receive
<1>4. ASSUME Handle PROVE [OutputsNext]_outputVars
  BY <1>4 DEF Handle, Perform, OutputsNext
<1>5. ASSUME Publish PROVE OutputsNext
  BY <1>5 DEF Publish, OutputsNext
<1>6. ASSUME Close PROVE OutputsNext
  BY <1>6 DEF Close, OutputsNext
<1>7. ASSUME UNCHANGED vars PROVE UNCHANGED outputVars
  BY <1>7 DEF vars
<1> QED BY <1>1, <1>2, <1>3, <1>4, <1>5, <1>6, <1>7 DEF WorkerNext, WorkerStep

(* Every phase the session reports agrees with what it owns, under any
   interleaving of callers, failures and reconnects. *)
LEMMA OutputsConsistent == WorkerSpec => []OutputsInv
<1>1. Init => OutputsInv
  BY OutputsInitInv DEF Init
<1>2. OutputsInv /\ [WorkerNext]_vars => OutputsInv'
  BY OutputsStep, WorkerDrivesOutputs
<1> QED BY <1>1, <1>2, PTL DEF WorkerSpec

(* A running output is open and an idle one closed: PhaseMatchesOutput. *)
THEOREM PhasesAgree == Spec => []PhaseMatchesOutput
<1>1. OutputsInv => PhaseMatchesOutput
  BY DEF OutputsInv
<1> QED BY <1>1, OutputsConsistent, AnyRequests, PTL

(* A stream that carries media is reported as running: FlowingMeansRunning. *)
THEOREM FlowingIsReported == Spec => []FlowingMeansRunning
<1>1. OutputsInv => FlowingMeansRunning
  BY DEF OutputsInv
<1> QED BY <1>1, OutputsConsistent, AnyRequests, PTL

(* Only a commit or an abort closes a recording: RecordingKeptUntilCommitted. *)
THEOREM RecordingKept == Spec => RecordingKeptUntilCommitted
<1>1. [OutputsNext]_outputVars => [recording /\ ~recording' => recPhase' = "Idle"]_recVars
  <2> SUFFICES ASSUME [OutputsNext]_outputVars, recording, ~recording'
               PROVE  recPhase' = "Idle"
    OBVIOUS
  <2> QED BY DEF OutputsNext, outputVars, recVars, repVars, strVars, StartRecording,
                 FinishRecording, AbortRecording, StartReplay, StopReplay, SaveReplay,
                 StartStreamingWorks, StartStreamingFails, StreamPumped, FinishStreaming,
                 CloseOutputs
<1>2. [WorkerNext]_vars => [recording /\ ~recording' => recPhase' = "Idle"]_recVars
  BY <1>1, WorkerDrivesOutputs
<1> QED BY <1>2, AnyRequests, PTL DEF WorkerSpec, RecordingKeptUntilCommitted

-----------------------------------------------------------------------------
(* The worker system itself.  The inductive invariant adds to the types that a
   call under way has an operation, that a command being handled is one, and
   that a Control command is awaited by its caller and by no other command:
   answering it must not disturb a caller that is counting a frame. *)

Waits(calls, c) == calls[c].pc = "reply" /\ calls[c].op = "Control"

Types ==
    /\ channel \in Seq(Command) /\ Len(channel) <= QueueCapacity
    /\ snapshot \in Snapshot
    /\ events \in Seq(OutputEvent) /\ Len(events) <= EventCapacity
    /\ worker \in [pc : {"receive", "handle", "publish", "close", "done"},
                   command : Command \union {NoCommand}]
    /\ caller \in [Callers -> [pc : {"idle", "mark", "send", "reject", "reply", "dropped"},
                               op : Operations \union {NoOp},
                               previous : OutputLifecycle]]
    /\ lastEvent \in OutputEvent \union {NoOp}
    /\ refused \in BOOLEAN
    /\ \A c \in Callers :
         caller[c].pc \in {"mark", "send", "reject", "reply"} => caller[c].op \in Operations
    /\ worker.pc \in {"handle", "publish"} => worker.command \in Command

ControlsAwaited ==
    /\ \A i \in DOMAIN channel : channel[i].op = "Control" => Waits(caller, channel[i].from)
    /\ \A i, j \in DOMAIN channel :
         channel[i].op = "Control" /\ channel[j].op = "Control"
         /\ channel[i].from = channel[j].from => i = j
    /\ worker.pc = "handle" /\ worker.command.op = "Control" =>
         /\ Waits(caller, worker.command.from)
         /\ \A i \in DOMAIN channel :
              ~(channel[i].op = "Control" /\ channel[i].from = worker.command.from)

WorkerInv == OutputsInv /\ Types /\ ControlsAwaited /\ QueuedFramesExact

LEMMA PushEventTyped ==
    ASSUME Types, NEW e \in OutputEvent, PushEvent(e)
    PROVE  /\ events' \in Seq(OutputEvent) /\ Len(events') <= EventCapacity
           /\ lastEvent' \in OutputEvent \union {NoOp}
<1>1. CASE Len(events) = EventCapacity
  <2>1. events # <<>>
    BY <1>1, EventCapacityAssumption
  <2>2. Tail(events) \in Seq(OutputEvent) /\ Len(Tail(events)) = Len(events) - 1
    BY <2>1, HeadTailProperties DEF Types
  <2> QED BY <1>1, <2>2, EventCapacityAssumption DEF PushEvent, Types
<1>2. CASE Len(events) # EventCapacity
  BY <1>2, EventCapacityAssumption DEF PushEvent, Types
<1> QED BY <1>1, <1>2

(* The types hold after every step. *)
LEMMA TypesStep ==
    ASSUME OutputsInv, OutputsInv', Types, [WorkerNext]_vars
    PROVE  Types'
<1> USE DEF Types
<1>1. ASSUME NEW c \in Callers, NEW op \in Operations, Begin(c, op) PROVE Types'
  BY <1>1 DEF Begin, Snapshot
<1>2. ASSUME NEW c \in Callers, Mark(c) PROVE Types'
  <2>1. Marked(caller[c].op) \in Snapshot
    BY <1>2 DEF Marked, Snapshot, OutputLifecycle, ReplaySaveStatus
  <2>2. /\ events' \in Seq(OutputEvent) /\ Len(events') <= EventCapacity
        /\ lastEvent' \in OutputEvent \union {NoOp}
    BY <1>2, PushEventTyped DEF Mark, NoEvent, OutputEvent
  <2> QED BY <1>2, <2>1, <2>2 DEF Mark
<1>3. ASSUME NEW c \in Callers, Send(c) PROVE Types'
  <2>1. [op |-> caller[c].op, from |-> c] \in Command
    BY <1>3 DEF Send, Command
  <2>2. channel' \in Seq(Command) /\ Len(channel') <= QueueCapacity
    BY <1>3, <2>1, QueueCapacityAssumption DEF Send
  <2> QED BY <1>3, <2>2 DEF Send, Returned, AtRest, OutputLifecycle
<1>4. ASSUME NEW c \in Callers, SendRefused(c) PROVE Types'
  BY <1>4 DEF SendRefused
<1>5. ASSUME NEW c \in Callers, Reject(c) PROVE Types'
  <2>1. Unmarked(c) \in Snapshot
    BY <1>5 DEF Unmarked, Snapshot, OutputLifecycle, ReplaySaveStatus
  <2>2. /\ events' \in Seq(OutputEvent) /\ Len(events') <= EventCapacity
        /\ lastEvent' \in OutputEvent \union {NoOp}
    BY <1>5, PushEventTyped DEF Reject, NoEvent, OutputEvent
  <2> QED BY <1>5, <2>1, <2>2 DEF Reject, Returned, AtRest, OutputLifecycle
<1>6. ASSUME NEW c \in Callers, TakeEvents(c) PROVE Types'
  BY <1>6, EventCapacityAssumption DEF TakeEvents
<1>7. ASSUME NEW c \in Callers, Join(c) PROVE Types'
  BY <1>7 DEF Join
<1>8. ASSUME Receive PROVE Types'
  <2>1. /\ Head(channel) \in Command
        /\ Tail(channel) \in Seq(Command)
        /\ Len(Tail(channel)) = Len(channel) - 1
    BY <1>8, HeadTailProperties DEF Receive
  <2> QED BY <1>8, <2>1, QueueCapacityAssumption DEF Receive
<1>9. ASSUME Handle PROVE Types'
  <2>1. /\ events' \in Seq(OutputEvent) /\ Len(events') <= EventCapacity
        /\ lastEvent' \in OutputEvent \union {NoOp}
    BY <1>9, PushEventTyped DEF Handle, Perform, NoEvent, OutputEvent
  <2>2. worker.command \in Command
    BY <1>9 DEF Handle
  <2> QED BY <1>9, <2>1, <2>2 DEF Handle, Returned, AtRest, OutputLifecycle, Command
<1>10. ASSUME NEW alive \in BOOLEAN, PublishSnapshot(alive) PROVE snapshot' \in Snapshot
  BY <1>10 DEF PublishSnapshot, OutputsInv, OutputsTypeOK, Snapshot
<1>11. ASSUME Publish PROVE Types'
  <2>1. snapshot' \in Snapshot
    BY <1>10, <1>11 DEF Publish
  <2> QED BY <1>11, <2>1 DEF Publish
<1>12. ASSUME Close PROVE Types'
  <2>1. snapshot' \in Snapshot
    BY <1>10, <1>12 DEF Close
  <2> QED BY <1>12, <2>1 DEF Close
<1>13. ASSUME UNCHANGED vars PROVE Types'
  BY <1>13 DEF vars
<1> QED BY <1>1, <1>2, <1>3, <1>4, <1>5, <1>6, <1>7, <1>8, <1>9, <1>11, <1>12, <1>13
        DEF WorkerNext, WorkerStep, CallerStep

-----------------------------------------------------------------------------
(* Counting the frames of a channel *)

(* The frames of a channel are finitely many. *)
LEMMA FramesFinite ==
    ASSUME NEW ch \in Seq(Command)
    PROVE  IsFiniteSet(FramesIn(ch)) /\ Cardinality(FramesIn(ch)) \in Nat
<1>1. Len(ch) \in Nat /\ DOMAIN ch = 1..Len(ch)
  BY LenProperties
<1>2. IsFiniteSet(1..Len(ch))
  BY <1>1, FS_Interval
<1>3. FramesIn(ch) \in SUBSET (1..Len(ch))
  BY <1>1 DEF FramesIn
<1>4. IsFiniteSet(FramesIn(ch))
  BY <1>2, <1>3, FS_Subset
<1> QED BY <1>4, FS_CardinalityType

(* Sending a command adds one frame or none. *)
LEMMA FramesAppend ==
    ASSUME NEW ch \in Seq(Command), NEW e \in Command
    PROVE  Cardinality(FramesIn(Append(ch, e))) =
             Cardinality(FramesIn(ch)) + (IF e.op = "PushFrame" THEN 1 ELSE 0)
<1> DEFINE n == Len(ch) + 1
<1>1. /\ Len(ch) \in Nat /\ DOMAIN ch = 1..Len(ch)
      /\ DOMAIN Append(ch, e) = 1..n
      /\ \A i \in 1..Len(ch) : Append(ch, e)[i] = ch[i]
      /\ Append(ch, e)[n] = e
  OBVIOUS
<1>2. FramesIn(Append(ch, e)) =
        IF e.op = "PushFrame" THEN FramesIn(ch) \union {n} ELSE FramesIn(ch)
  BY <1>1 DEF FramesIn
<1>3. n \notin FramesIn(ch)
  BY <1>1 DEF FramesIn
<1>4. IsFiniteSet(FramesIn(ch)) /\ Cardinality(FramesIn(ch)) \in Nat
  BY FramesFinite
<1>5. Cardinality(FramesIn(ch) \union {n}) = Cardinality(FramesIn(ch)) + 1
  BY <1>3, <1>4, FS_AddElement
<1> HIDE DEF n
<1> QED BY <1>2, <1>4, <1>5

(* Receiving a command takes one frame away or none. *)
LEMMA FramesTail ==
    ASSUME NEW ch \in Seq(Command), ch # <<>>
    PROVE  Cardinality(FramesIn(ch)) =
             Cardinality(FramesIn(Tail(ch))) + (IF Head(ch).op = "PushFrame" THEN 1 ELSE 0)
<1> DEFINE rest == FramesIn(ch) \ {1}
           shift == [i \in rest |-> i - 1]
<1>1. /\ Len(ch) \in Nat \ {0} /\ DOMAIN ch = 1..Len(ch)
      /\ Head(ch) = ch[1]
      /\ Tail(ch) \in Seq(Command)
      /\ DOMAIN Tail(ch) = 1..(Len(ch) - 1)
      /\ \A i \in 1..(Len(ch) - 1) : Tail(ch)[i] = ch[i + 1]
  OBVIOUS
<1>2. shift \in Bijection(rest, FramesIn(Tail(ch)))
  <2>1. \A i \in rest : i \in 2..Len(ch) /\ ch[i].op = "PushFrame"
    BY <1>1 DEF FramesIn
  <2>2. \A i \in rest : shift[i] \in FramesIn(Tail(ch))
    BY <1>1, <2>1 DEF FramesIn
  <2>3. \A j \in FramesIn(Tail(ch)) : j + 1 \in rest /\ shift[j + 1] = j
    BY <1>1 DEF FramesIn
  <2>4. \A i, j \in rest : shift[i] = shift[j] => i = j
    BY <1>1, <2>1
  <2>5. shift \in [rest -> FramesIn(Tail(ch))]
    BY <2>2
  <2> HIDE DEF shift
  <2>6. \A j \in FramesIn(Tail(ch)) : \E i \in rest : shift[i] = j
    BY <2>3
  <2>7. shift \in Injection(rest, FramesIn(Tail(ch)))
    BY <2>4, <2>5 DEF Injection, IsInjective
  <2>8. shift \in Surjection(rest, FramesIn(Tail(ch)))
    BY <2>5, <2>6 DEF Surjection
  <2> QED BY <2>7, <2>8 DEF Bijection
<1>3. IsFiniteSet(FramesIn(ch)) /\ Cardinality(FramesIn(ch)) \in Nat
  BY FramesFinite
<1>4. IsFiniteSet(rest)
  BY <1>3, FS_RemoveElement
<1>5. Cardinality(FramesIn(Tail(ch))) = Cardinality(rest)
  <2>1. ExistsBijection(rest, FramesIn(Tail(ch)))
    BY <1>2 DEF ExistsBijection
  <2> QED BY <1>4, <2>1, FS_Bijection
<1>6. Cardinality(rest) =
        IF 1 \in FramesIn(ch) THEN Cardinality(FramesIn(ch)) - 1 ELSE Cardinality(FramesIn(ch))
  BY <1>3, FS_RemoveElement
<1>7. 1 \in FramesIn(ch) <=> Head(ch).op = "PushFrame"
  BY <1>1 DEF FramesIn
<1> HIDE DEF rest
<1> QED BY <1>3, <1>5, <1>6, <1>7

-----------------------------------------------------------------------------

(* A Control command stays awaited by its caller, and is the caller's only one. *)
LEMMA ControlsStep ==
    ASSUME Types, ControlsAwaited, [WorkerNext]_vars
    PROVE  ControlsAwaited'
<1> USE DEF ControlsAwaited, Waits
<1>0. /\ Len(channel) \in Nat /\ DOMAIN channel = 1..Len(channel)
      /\ channel \in Seq(Command)
      /\ \A i \in DOMAIN channel : channel[i] \in Command /\ channel[i].from \in Callers
  <2>1. channel \in Seq(Command)
    BY DEF Types
  <2>2. Len(channel) \in Nat /\ DOMAIN channel = 1..Len(channel)
    BY <2>1, LenProperties
  <2>3. \A i \in DOMAIN channel : channel[i] \in Command
    BY <2>1, <2>2, ElementOfSeq
  <2> QED BY <2>1, <2>2, <2>3 DEF Command
<1>1. ASSUME NEW c \in Callers, NEW op \in Operations, Begin(c, op) PROVE ControlsAwaited'
  <2>1. /\ UNCHANGED <<channel, worker>>
        /\ ~Waits(caller, c)
    BY <1>1 DEF Begin
  <2>2. \A d \in Callers : Waits(caller, d) => Waits(caller', d)
    BY <1>1 DEF Begin, Types
  <2>3. worker.pc = "handle" => worker.command.from \in Callers
    BY DEF Types, Command
  <2> HIDE DEF Waits
  <2> QED BY <1>0, <2>1, <2>2, <2>3
<1>2. ASSUME NEW c \in Callers, Mark(c) PROVE ControlsAwaited'
  BY <1>0, <1>2 DEF Mark, Types, Command
<1>3. ASSUME NEW c \in Callers, Send(c) PROVE ControlsAwaited'
  <2> DEFINE e == [op |-> caller[c].op, from |-> c]
             n == Len(channel) + 1
  <2>1. /\ channel' = Append(channel, e)
        /\ e.from = c /\ e.op = caller[c].op
        /\ worker' = worker
    BY <1>3 DEF Send
  <2>2. /\ DOMAIN channel' = 1..n
        /\ channel'[n] = e
        /\ \A i \in 1..Len(channel) : channel'[i] = channel[i]
    BY <1>0, <2>1
  <2>3. ~Waits(caller, c)
    BY <1>3 DEF Send
  <2>4. e.op = "Control" => Waits(caller', c)
    BY <1>3 DEF Send, AwaitsAnswer, Types
  <2>5. \A d \in Callers \ {c} : Waits(caller', d) <=> Waits(caller, d)
    BY <1>3 DEF Send, Types, Returned
  <2> HIDE DEF e, Waits
  <2>6. \A i \in 1..Len(channel) : channel[i].op = "Control" => channel[i].from # c
    BY <1>0, <2>3
  <2>7. worker.pc = "handle" /\ worker.command.op = "Control" =>
           /\ worker.command.from \in Callers \ {c}
           /\ Waits(caller', worker.command.from)
    BY <2>3, <2>5 DEF Types, Command
  <2>8. \A i \in 1..n : channel'[i].op = "Control" => Waits(caller', channel'[i].from)
    <3>1. ASSUME NEW i \in 1..n, channel'[i].op = "Control" PROVE Waits(caller', channel'[i].from)
      <4>1. CASE i = n
        BY <2>1, <2>2, <2>4, <3>1, <4>1
      <4>2. CASE i \in 1..Len(channel)
        <5>1. channel[i].from \in Callers \ {c} /\ Waits(caller, channel[i].from)
          BY <1>0, <2>2, <2>6, <3>1, <4>2
        <5>2. channel'[i] = channel[i]
          BY <2>2, <4>2
        <5> QED BY <2>5, <5>1, <5>2
      <4> QED BY <1>0, <4>1, <4>2
    <3> QED BY <3>1
  <2>9. \A i, j \in 1..n : channel'[i].op = "Control" /\ channel'[j].op = "Control"
                          /\ channel'[i].from = channel'[j].from => i = j
    BY <1>0, <2>1, <2>2, <2>6
  <2>10. worker.pc = "handle" /\ worker.command.op = "Control" =>
           \A i \in 1..n :
              ~(channel'[i].op = "Control" /\ channel'[i].from = worker.command.from)
    BY <1>0, <2>1, <2>2, <2>7
  <2> HIDE DEF n
  <2> QED BY <2>1, <2>2, <2>7, <2>8, <2>9, <2>10
<1>4. ASSUME NEW c \in Callers, SendRefused(c) PROVE ControlsAwaited'
  BY <1>0, <1>4 DEF SendRefused, Types, Command
<1>5. ASSUME NEW c \in Callers, Reject(c) PROVE ControlsAwaited'
  BY <1>0, <1>5 DEF Reject, Returned, AtRest, Types, Command
<1>6. ASSUME NEW c \in Callers, TakeEvents(c) PROVE ControlsAwaited'
  BY <1>6 DEF TakeEvents
<1>7. ASSUME NEW c \in Callers, Join(c) PROVE ControlsAwaited'
  BY <1>0, <1>7 DEF Join, Types, Command
<1>8. ASSUME Receive PROVE ControlsAwaited'
  <2>1. /\ Head(channel) = channel[1] /\ 1 \in DOMAIN channel
        /\ DOMAIN Tail(channel) = 1..(Len(channel) - 1)
        /\ \A i \in 1..(Len(channel) - 1) :
             Tail(channel)[i] = channel[i + 1] /\ i + 1 \in DOMAIN channel
    BY <1>0, <1>8 DEF Receive
  <2>2. /\ worker'.pc = "handle" /\ worker'.command = channel[1]
        /\ channel' = Tail(channel) /\ caller' = caller
    BY <1>8, <2>1 DEF Receive
  <2> QED BY <1>0, <2>1, <2>2
<1>9. ASSUME Handle PROVE ControlsAwaited'
  <2>1. worker'.pc = "publish" /\ channel' = channel
    BY <1>9 DEF Handle, Types
  <2>2. CASE worker.command.op = "Control"
    <3>1. caller' = [caller EXCEPT ![worker.command.from] = AtRest]
      BY <1>9, <2>2 DEF Handle, Returned
    <3>2. \A d \in Callers : d # worker.command.from => caller'[d] = caller[d]
      BY <3>1 DEF Types
    <3>3. \A i \in DOMAIN channel :
             channel[i].op = "Control" => channel[i].from # worker.command.from
      BY <1>9, <2>2 DEF Handle
    <3> QED BY <1>0, <2>1, <3>2, <3>3
  <2>3. CASE worker.command.op # "Control"
    BY <1>9, <2>1, <2>3 DEF Handle
  <2> QED BY <2>2, <2>3
<1>10. ASSUME Publish PROVE ControlsAwaited'
  BY <1>10 DEF Publish, Types
<1>11. ASSUME Close PROVE ControlsAwaited'
  BY <1>11 DEF Close, Types
<1>12. ASSUME UNCHANGED vars PROVE ControlsAwaited'
  BY <1>12 DEF vars
<1> QED BY <1>1, <1>2, <1>3, <1>4, <1>5, <1>6, <1>7, <1>8, <1>9, <1>10, <1>11, <1>12
        DEF WorkerNext, WorkerStep, CallerStep

-----------------------------------------------------------------------------

Counts(c, calls) == calls[c].op = "PushFrame" /\ calls[c].pc \in {"send", "reject"}

LEMMA CallsFinite == IsFiniteSet(FramesInCalls) /\ Cardinality(FramesInCalls) \in Nat
<1>1. FramesInCalls \in SUBSET Callers
  BY DEF FramesInCalls
<1>2. IsFiniteSet(FramesInCalls)
  BY <1>1, CallersAssumption, FS_Subset
<1> QED BY <1>2, FS_CardinalityType

(* A step of one call moves at most that call in or out of the count. *)
LEMMA CallsStep ==
    ASSUME NEW c \in Callers,
           \A d \in Callers \ {c} : Counts(d, caller') <=> Counts(d, caller)
    PROVE  Cardinality(FramesInCalls') =
             Cardinality(FramesInCalls)
             + (IF Counts(c, caller') THEN 1 ELSE 0) - (IF Counts(c, caller) THEN 1 ELSE 0)
<1>1. /\ FramesInCalls = {d \in Callers : Counts(d, caller)}
      /\ FramesInCalls' = {d \in Callers : Counts(d, caller')}
  BY DEF FramesInCalls, Counts
<1>2. IsFiniteSet(FramesInCalls) /\ Cardinality(FramesInCalls) \in Nat
  BY CallsFinite
<1>3. CASE Counts(c, caller) <=> Counts(c, caller')
  <2>1. FramesInCalls' = FramesInCalls
    BY <1>1, <1>3
  <2> QED BY <1>2, <1>3, <2>1
<1>4. CASE Counts(c, caller) /\ ~Counts(c, caller')
  <2>1. FramesInCalls' = FramesInCalls \ {c} /\ c \in FramesInCalls
    BY <1>1, <1>4
  <2>2. Cardinality(FramesInCalls \ {c}) = Cardinality(FramesInCalls) - 1
    BY <1>2, <2>1, FS_RemoveElement
  <2> QED BY <1>2, <1>4, <2>1, <2>2
<1>5. CASE ~Counts(c, caller) /\ Counts(c, caller')
  <2>1. FramesInCalls' = FramesInCalls \union {c} /\ c \notin FramesInCalls
    BY <1>1, <1>5
  <2>2. Cardinality(FramesInCalls \union {c}) = Cardinality(FramesInCalls) + 1
    BY <1>2, <2>1, FS_AddElement
  <2> QED BY <1>2, <1>5, <2>1, <2>2
<1> QED BY <1>3, <1>4, <1>5

(* The counter follows every frame on its way through the system. *)
LEMMA FramesStep ==
    ASSUME Types, ControlsAwaited, QueuedFramesExact, [WorkerNext]_vars
    PROVE  QueuedFramesExact'
<1> DEFINE F == Cardinality(FramesIn(channel))
           C == Cardinality(FramesInCalls)
<1>0. F \in Nat /\ C \in Nat /\ FramesInWorker \in {0, 1} /\ queued = F + C + FramesInWorker
  BY FramesFinite, CallsFinite DEF Types, QueuedFramesExact, FramesInWorker
<1>a. ASSUME UNCHANGED caller PROVE C' = C
  BY <1>a DEF FramesInCalls
<1>b. ASSUME UNCHANGED channel PROVE F' = F
  BY <1>b DEF FramesIn
<1>c. ASSUME UNCHANGED worker PROVE FramesInWorker' = FramesInWorker
  BY <1>c DEF FramesInWorker
<1>d. QueuedFramesExact' <=> queued' = F' + C' + FramesInWorker'
  BY DEF QueuedFramesExact
<1> HIDE DEF F, C
<1>1. ASSUME NEW c \in Callers, NEW op \in Operations, Begin(c, op) PROVE QueuedFramesExact'
  <2>1. /\ \A d \in Callers \ {c} : Counts(d, caller') <=> Counts(d, caller)
        /\ ~Counts(c, caller) /\ ~Counts(c, caller')
    BY <1>1 DEF Begin, Types, Counts
  <2>2. C' = C
    BY <1>0, <2>1, CallsStep DEF C
  <2> QED BY <1>0, <1>b, <1>c, <1>d, <1>1, <2>2 DEF Begin
<1>2. ASSUME NEW c \in Callers, Mark(c) PROVE QueuedFramesExact'
  <2>1. /\ \A d \in Callers \ {c} : Counts(d, caller') <=> Counts(d, caller)
        /\ ~Counts(c, caller)
        /\ Counts(c, caller') <=> caller[c].op = "PushFrame"
    BY <1>2 DEF Mark, Types, Counts
  <2>2. C' = C + (IF caller[c].op = "PushFrame" THEN 1 ELSE 0)
    BY <1>0, <2>1, CallsStep DEF C
  <2> QED BY <1>0, <1>b, <1>c, <1>d, <1>2, <2>2 DEF Mark
<1>3. ASSUME NEW c \in Callers, Send(c) PROVE QueuedFramesExact'
  <2>1. /\ \A d \in Callers \ {c} : Counts(d, caller') <=> Counts(d, caller)
        /\ Counts(c, caller) <=> caller[c].op = "PushFrame"
        /\ ~Counts(c, caller')
    BY <1>3 DEF Send, Types, Counts, Returned, AtRest
  <2>2. C' = C - (IF caller[c].op = "PushFrame" THEN 1 ELSE 0)
    BY <1>0, <2>1, CallsStep DEF C
  <2>3. [op |-> caller[c].op, from |-> c] \in Command
    BY <1>3 DEF Send, Types, Command
  <2>4. F' = F + (IF caller[c].op = "PushFrame" THEN 1 ELSE 0)
    <3>1. channel' = Append(channel, [op |-> caller[c].op, from |-> c])
      BY <1>3 DEF Send
    <3> QED BY <2>3, <3>1, FramesAppend DEF F, Types
  <2> QED BY <1>0, <1>c, <1>d, <1>3, <2>2, <2>4 DEF Send
<1>4. ASSUME NEW c \in Callers, SendRefused(c) PROVE QueuedFramesExact'
  <2>1. /\ \A d \in Callers \ {c} : Counts(d, caller') <=> Counts(d, caller)
        /\ Counts(c, caller') <=> Counts(c, caller)
    BY <1>4 DEF SendRefused, Types, Counts
  <2>2. C' = C
    BY <1>0, <2>1, CallsStep DEF C
  <2> QED BY <1>0, <1>b, <1>c, <1>d, <1>4, <2>2 DEF SendRefused
<1>5. ASSUME NEW c \in Callers, Reject(c) PROVE QueuedFramesExact'
  <2>1. /\ \A d \in Callers \ {c} : Counts(d, caller') <=> Counts(d, caller)
        /\ Counts(c, caller) <=> caller[c].op = "PushFrame"
        /\ ~Counts(c, caller')
    BY <1>5 DEF Reject, Types, Counts, Returned, AtRest
  <2>2. C' = C - (IF caller[c].op = "PushFrame" THEN 1 ELSE 0)
    BY <1>0, <2>1, CallsStep DEF C
  <2> QED BY <1>0, <1>b, <1>c, <1>d, <1>5, <2>2 DEF Reject
<1>6. ASSUME NEW c \in Callers, TakeEvents(c) PROVE QueuedFramesExact'
  BY <1>0, <1>a, <1>b, <1>c, <1>d, <1>6 DEF TakeEvents
<1>7. ASSUME NEW c \in Callers, Join(c) PROVE QueuedFramesExact'
  <2>1. /\ \A d \in Callers \ {c} : Counts(d, caller') <=> Counts(d, caller)
        /\ ~Counts(c, caller) /\ ~Counts(c, caller')
    BY <1>7 DEF Join, Types, Counts
  <2>2. C' = C
    BY <1>0, <2>1, CallsStep DEF C
  <2> QED BY <1>0, <1>b, <1>c, <1>d, <1>7, <2>2 DEF Join
<1>8. ASSUME Receive PROVE QueuedFramesExact'
  <2>1. F = F' + (IF Head(channel).op = "PushFrame" THEN 1 ELSE 0)
    BY <1>8, FramesTail DEF F, Receive, Types
  <2>2. F' \in Nat
    <3>1. channel' \in Seq(Command)
      BY <1>8, HeadTailProperties DEF Receive, Types
    <3> QED BY <3>1, FramesFinite DEF F
  <2>3. FramesInWorker = 0 /\ FramesInWorker' = (IF Head(channel).op = "PushFrame" THEN 1 ELSE 0)
    BY <1>8 DEF Receive, FramesInWorker
  <2> QED BY <1>0, <1>a, <1>d, <1>8, <2>1, <2>2, <2>3 DEF Receive
<1>9. ASSUME Handle PROVE QueuedFramesExact'
  <2>1. FramesInWorker = (IF worker.command.op = "PushFrame" THEN 1 ELSE 0) /\ FramesInWorker' = 0
    BY <1>9 DEF Handle, FramesInWorker, Types
  <2>2. C' = C
    <3>1. CASE worker.command.op = "Control"
      <4> DEFINE c == worker.command.from
      <4>1. c \in Callers /\ Waits(caller, c)
        BY <1>9, <3>1 DEF Handle, ControlsAwaited, Types, Command
      <4>2. caller' = [caller EXCEPT ![c] = AtRest]
        BY <1>9, <3>1 DEF Handle, Returned
      <4> HIDE DEF c
      <4>3. /\ \A d \in Callers \ {c} : Counts(d, caller') <=> Counts(d, caller)
            /\ ~Counts(c, caller) /\ ~Counts(c, caller')
        BY <4>1, <4>2 DEF Types, Counts, AtRest, Waits
      <4> QED BY <1>0, <4>1, <4>3, CallsStep DEF C
    <3>2. CASE worker.command.op # "Control"
      BY <1>a, <1>9, <3>2 DEF Handle
    <3> QED BY <3>1, <3>2
  <2> QED BY <1>0, <1>b, <1>d, <1>9, <2>1, <2>2 DEF Handle
<1>10. ASSUME Publish PROVE QueuedFramesExact'
  <2>1. worker.pc = "publish" /\ worker'.pc \in {"close", "receive"}
    BY <1>10 DEF Publish
  <2>2. FramesInWorker = 0 /\ FramesInWorker' = 0
    BY <2>1 DEF FramesInWorker
  <2> QED BY <1>0, <1>a, <1>b, <1>d, <1>10, <2>2 DEF Publish
<1>11. ASSUME Close PROVE QueuedFramesExact'
  <2>1. worker.pc = "close" /\ worker'.pc = "done"
    BY <1>11 DEF Close, Types
  <2>2. FramesInWorker = 0 /\ FramesInWorker' = 0
    BY <2>1 DEF FramesInWorker
  <2> QED BY <1>0, <1>a, <1>b, <1>d, <1>11, <2>2 DEF Close
<1>12. ASSUME UNCHANGED vars PROVE QueuedFramesExact'
  BY <1>0, <1>a, <1>b, <1>c, <1>d, <1>12 DEF vars
<1> QED BY <1>1, <1>2, <1>3, <1>4, <1>5, <1>6, <1>7, <1>8, <1>9, <1>10, <1>11, <1>12
        DEF WorkerNext, WorkerStep, CallerStep

LEMMA WorkerInvInit == Init => WorkerInv
<1> SUFFICES ASSUME Init PROVE WorkerInv
  OBVIOUS
<1>1. OutputsInv
  BY OutputsInitInv DEF Init
<1>2. Types
  <2>1. snapshot \in Snapshot
    BY DEF Init, Snapshot, OutputLifecycle, ReplaySaveStatus
  <2>2. caller \in [Callers -> [pc : {"idle", "mark", "send", "reject", "reply", "dropped"},
                               op : Operations \union {NoOp},
                               previous : OutputLifecycle]]
    BY DEF Init, AtRest, OutputLifecycle
  <2>3. \A c \in Callers : caller[c].pc = "idle"
    BY DEF Init, AtRest
  <2>4. channel \in Seq(Command) /\ Len(channel) <= QueueCapacity
    BY QueueCapacityAssumption DEF Init
  <2>5. events \in Seq(OutputEvent) /\ Len(events) <= EventCapacity
    BY EventCapacityAssumption DEF Init
  <2>6. /\ worker \in [pc : {"receive", "handle", "publish", "close", "done"},
                      command : Command \union {NoCommand}]
        /\ worker.pc = "receive"
    BY DEF Init
  <2> QED BY <2>1, <2>2, <2>3, <2>4, <2>5, <2>6 DEF Init, Types
<1>3. ControlsAwaited
  BY DEF Init, ControlsAwaited
<1>4. QueuedFramesExact
  <2>1. FramesIn(channel) = {}
    BY DEF Init, FramesIn
  <2>2. FramesInCalls = {}
    BY DEF Init, FramesInCalls, AtRest
  <2>3. FramesInWorker = 0 /\ queued = 0
    BY DEF Init, FramesInWorker
  <2>4. Cardinality({}) = 0
    BY FS_EmptySet
  <2> QED BY <2>1, <2>2, <2>3, <2>4 DEF QueuedFramesExact
<1> QED BY <1>1, <1>2, <1>3, <1>4 DEF WorkerInv

LEMMA WorkerInvariant == WorkerSpec => []WorkerInv
<1>1. WorkerInv /\ [WorkerNext]_vars => WorkerInv'
  BY OutputsStep, WorkerDrivesOutputs, TypesStep, ControlsStep, FramesStep DEF WorkerInv
<1> QED BY <1>1, WorkerInvInit, PTL DEF WorkerSpec

(* Every variable keeps its type; in particular the unsigned frame counter
   never goes below zero: TypeOK. *)
THEOREM TypeCorrect == Spec => []TypeOK
<1>1. WorkerInv => TypeOK
  BY FramesFinite, CallsFinite
     DEF WorkerInv, OutputsInv, Types, QueuedFramesExact, FramesInWorker, TypeOK
<1> QED BY <1>1, WorkerInvariant, AnyRequests, PTL

(* The frame counter is exact under any interleaving: QueuedFramesExact. *)
THEOREM CounterExact == Spec => []QueuedFramesExact
<1>1. WorkerInv => QueuedFramesExact
  BY DEF WorkerInv
<1> QED BY <1>1, WorkerInvariant, AnyRequests, PTL

-----------------------------------------------------------------------------
(* What a reader of the worker sees once nothing is under way.  The snapshot is
   the session's from each publication on, until a caller writes its mark: from
   then on the call, its command or the worker is busy until the worker
   publishes again, or the call was refused. *)

SnapshotCurrent ==
    /\ worker.pc = "receive"
    /\ channel = <<>>
    /\ \A c \in Callers : caller[c].pc \notin {"send", "reject"}
    /\ ~refused
    => snapshot = [rec |-> recPhase, rep |-> repPhase, save |-> saveStatus,
                   str |-> strPhase, alive |-> TRUE]

LEMMA SnapshotStep ==
    ASSUME Types, SnapshotCurrent, [WorkerNext]_vars
    PROVE  SnapshotCurrent'
<1>1. ASSUME NEW c \in Callers, NEW op \in Operations, Begin(c, op) PROVE SnapshotCurrent'
  <2>1. /\ \A d \in Callers : caller[d].pc \in {"send", "reject"} => caller'[d].pc = caller[d].pc
        /\ UNCHANGED <<channel, snapshot, worker, refused, recPhase, repPhase, saveStatus, strPhase>>
    BY <1>1 DEF Begin, Types, outputVars, recVars, repVars, strVars
  <2> QED BY <2>1 DEF SnapshotCurrent
<1>2. ASSUME NEW c \in Callers, Mark(c) PROVE SnapshotCurrent'
  <2>1. caller'[c].pc = "send"
    BY <1>2 DEF Mark, Types
  <2> QED BY <2>1 DEF SnapshotCurrent
<1>3. ASSUME NEW c \in Callers, Send(c) PROVE SnapshotCurrent'
  <2>1. channel' # <<>>
    <3> DEFINE m == [op |-> caller[c].op, from |-> c]
    <3>1. m \in Command /\ channel \in Seq(Command) /\ channel' = Append(channel, m)
      BY <1>3 DEF Send, Types, Command
    <3> HIDE DEF m
    <3> QED BY <3>1, AppendProperties
  <2> QED BY <2>1 DEF SnapshotCurrent
<1>4. ASSUME NEW c \in Callers, SendRefused(c) PROVE SnapshotCurrent'
  <2>1. caller'[c].pc = "reject"
    BY <1>4 DEF SendRefused, Types
  <2> QED BY <2>1 DEF SnapshotCurrent
<1>5. ASSUME NEW c \in Callers, Reject(c) PROVE SnapshotCurrent'
  BY <1>5 DEF Reject, SnapshotCurrent
<1>6. ASSUME NEW c \in Callers, TakeEvents(c) PROVE SnapshotCurrent'
  BY <1>6 DEF TakeEvents, SnapshotCurrent, outputVars, recVars, repVars, strVars
<1>7. ASSUME NEW c \in Callers, Join(c) PROVE SnapshotCurrent'
  BY <1>7 DEF Join, SnapshotCurrent
<1>8. ASSUME Receive PROVE SnapshotCurrent'
  BY <1>8 DEF Receive, SnapshotCurrent
<1>9. ASSUME Handle PROVE SnapshotCurrent'
  BY <1>9 DEF Handle, Types, SnapshotCurrent
<1>10. ASSUME Publish PROVE SnapshotCurrent'
  <2>1. CASE worker.command.op = "Shutdown"
    BY <1>10, <2>1 DEF Publish, SnapshotCurrent
  <2>2. CASE worker.command.op # "Shutdown"
    BY <1>10, <2>2 DEF Publish, PublishSnapshot, SnapshotCurrent
  <2> QED BY <2>1, <2>2
<1>11. ASSUME Close PROVE SnapshotCurrent'
  BY <1>11 DEF Close, Types, SnapshotCurrent
<1>12. ASSUME UNCHANGED vars PROVE SnapshotCurrent'
  BY <1>12 DEF vars, outputVars, recVars, repVars, strVars, SnapshotCurrent
<1> QED BY <1>1, <1>2, <1>3, <1>4, <1>5, <1>6, <1>7, <1>8, <1>9, <1>10, <1>11, <1>12
        DEF WorkerNext, WorkerStep, CallerStep

LEMMA QuietSnapshotAlways == WorkerSpec => []QuietSnapshot
<1>1. Init => SnapshotCurrent
  BY DEF Init, OutputsInit, SnapshotCurrent
<1>2. WorkerInv /\ SnapshotCurrent /\ [WorkerNext]_vars => SnapshotCurrent'
  BY SnapshotStep DEF WorkerInv
<1>3. SnapshotCurrent => QuietSnapshot
  BY DEF SnapshotCurrent, QuietSnapshot, Quiet
<1> QED BY <1>1, <1>2, <1>3, WorkerInvariant, PTL DEF WorkerSpec

(* Once nothing is under way and no call was refused since the last publication,
   the published snapshot is the session's, however many callers there are and
   however long the channel is: QuietSnapshot. *)
THEOREM SnapshotIsCurrent == Spec => []QuietSnapshot
  BY QuietSnapshotAlways, AnyRequests, PTL

(* start_streaming_target_configured, which the desktop calls, announces Starting
   and gives no conclusion when it is refused: what follows is about callers
   that start a stream with the other requests. *)
NoTargetRequests == \A c \in Callers : "StartStreamingTarget" \notin Requests[c]

StreamRequests == {"StartStreaming", "FinishStreaming"}

(* A stream request that has announced itself and whose conclusion is due. *)
ConclusionDue ==
    \/ \E c \in Callers : caller[c].pc \in {"send", "reject"} /\ caller[c].op \in StreamRequests
    \/ \E i \in DOMAIN channel : channel[i].op \in StreamRequests
    \/ worker.pc = "handle" /\ worker.command.op \in StreamRequests

EventsInv ==
    /\ \A c \in Callers : caller[c].op # "StartStreamingTarget"
    /\ \A i \in DOMAIN channel : channel[i].op # "StartStreamingTarget"
    /\ worker.command.op # "StartStreamingTarget"
    /\ lastEvent \in {"Starting", "Stopping"} => ConclusionDue
    /\ lastEvent = "Running" /\ worker.pc # "done" => stream # NoStream
    /\ lastEvent = "Stopped" => stream = NoStream

(* A step that leaves the events and the stream alone keeps what is due. *)
LEMMA EventsKept ==
    ASSUME EventsInv, UNCHANGED <<lastEvent, stream>>,
           \A c \in Callers : caller'[c].op # "StartStreamingTarget",
           \A i \in DOMAIN channel' : channel'[i].op # "StartStreamingTarget",
           worker'.command.op # "StartStreamingTarget",
           ConclusionDue => ConclusionDue', worker.pc = "done" => worker'.pc = "done"
    PROVE  EventsInv'
BY DEF EventsInv

(* Pumping a stream never ends it. *)
LEMMA PumpKeepsStream ==
    ASSUME OutputsInv, StreamPumped
    PROVE  stream' = NoStream <=> stream = NoStream
<1>1. CASE stream = NoStream /\ UNCHANGED strVars
  BY <1>1 DEF strVars
<1>2. CASE stream # NoStream /\ \E p \in PumpStream(stream, strPhase) :
                                   stream' = p[1] /\ strPhase' = p[2]
  <2>1. ConnectionConsistent(stream, strPhase)
    BY <1>2 DEF ConnectionConsistent, OutputsInv, OutputsTypeOK, PhaseMatchesOutput,
       FlowingMeansRunning
  <2>2. ConnectionConsistent(stream', strPhase')
    BY <1>2, <2>1, PumpStreamConsistent
  <2>3. stream' # NoStream
    BY <2>2 DEF ConnectionConsistent, Connection, ConnectionStates, NoStream
  <2> QED BY <1>2, <2>3
<1> QED BY <1>1, <1>2 DEF StreamPumped

LEMMA EventsStep ==
    ASSUME NoTargetRequests, OutputsInv, Types, ControlsAwaited, EventsInv, [Next]_vars
    PROVE  EventsInv'
<1> USE DEF Types
<1>1. ASSUME NEW c \in Callers, NEW op \in Requests[c], Begin(c, op) PROVE EventsInv'
  <2>1. /\ \A d \in Callers : caller[d].pc \in {"send", "reject"} => caller'[d] = caller[d]
        /\ UNCHANGED <<channel, worker, lastEvent, stream>>
    BY <1>1 DEF Begin, outputVars, strVars
  <2>2. \A d \in Callers : caller'[d].op # "StartStreamingTarget"
    BY <1>1 DEF Begin, NoTargetRequests, EventsInv
  <2>3. ConclusionDue => ConclusionDue'
    BY <2>1 DEF ConclusionDue
  <2> QED BY <2>1, <2>2, <2>3, EventsKept DEF EventsInv
<1>2. ASSUME NEW c \in Callers, Mark(c) PROVE EventsInv'
  <2>1. /\ caller'[c].pc = "send" /\ caller'[c].op = caller[c].op
        /\ \A d \in Callers : caller'[d].op = caller[d].op
        /\ \A d \in Callers \ {c} : caller'[d] = caller[d]
        /\ UNCHANGED <<channel, worker, stream>>
    BY <1>2 DEF Mark, outputVars, strVars
  <2>2. CASE caller[c].op \in StreamRequests
    <3>1. ConclusionDue'
      BY <2>1, <2>2 DEF ConclusionDue
    <3>2. lastEvent' \in {"Starting", "Stopping"}
      BY <1>2, <2>2 DEF Mark, PushEvent, StreamRequests
    <3> QED BY <2>1, <3>1, <3>2 DEF EventsInv
  <2>3. CASE caller[c].op \notin StreamRequests
    <3>1. lastEvent' = lastEvent
      BY <1>2, <2>3 DEF Mark, NoEvent, StreamRequests, EventsInv
    <3>2. ConclusionDue => ConclusionDue'
      BY <1>2, <2>1 DEF ConclusionDue, Mark
    <3> QED BY <2>1, <3>1, <3>2, EventsKept DEF EventsInv
  <2> QED BY <2>2, <2>3
<1>3. ASSUME NEW c \in Callers, Send(c) PROVE EventsInv'
  <2> DEFINE m == [op |-> caller[c].op, from |-> c]
  <2>1. m \in Command /\ m.op = caller[c].op /\ channel' = Append(channel, m)
    BY <1>3 DEF Send, Command
  <2> HIDE DEF m
  <2>2. /\ DOMAIN channel' = 1..(Len(channel) + 1) /\ channel'[Len(channel) + 1] = m
        /\ DOMAIN channel = 1..Len(channel) /\ Len(channel) \in Nat
        /\ \A i \in 1..Len(channel) : channel'[i] = channel[i]
    BY <2>1, AppendProperties, LenProperties
  <2>3. \A i \in DOMAIN channel' : i \in DOMAIN channel \/ i = Len(channel) + 1
    BY <2>2
  <2>4. \A d \in Callers : caller'[d].op \in {caller[d].op, NoOp}
    BY <1>3 DEF Send, Returned, AtRest
  <2>5. \A d \in Callers \ {c} : caller'[d] = caller[d]
    BY <1>3 DEF Send, Returned
  <2>6. UNCHANGED <<worker, lastEvent, stream>>
    BY <1>3 DEF Send, outputVars, strVars
  <2>7. ConclusionDue => ConclusionDue'
    <3>1. CASE caller[c].op \in StreamRequests
      <4>1. Len(channel) + 1 \in DOMAIN channel' /\ channel'[Len(channel) + 1].op \in StreamRequests
        BY <2>1, <2>2, <3>1
      <4> QED BY <4>1 DEF ConclusionDue
    <3>2. CASE caller[c].op \notin StreamRequests
      <4>1. \A i \in DOMAIN channel : i \in DOMAIN channel' /\ channel'[i] = channel[i]
        BY <2>2
      <4> QED BY <2>5, <2>6, <3>2, <4>1 DEF ConclusionDue
    <3> QED BY <3>1, <3>2
  <2>8. \A i \in DOMAIN channel' : channel'[i].op # "StartStreamingTarget"
    BY <2>1, <2>2, <2>3 DEF EventsInv
  <2> QED BY <2>4, <2>6, <2>7, <2>8, EventsKept DEF EventsInv, NoOp
<1>4. ASSUME NEW c \in Callers, SendRefused(c) PROVE EventsInv'
  <2>1. /\ \A d \in Callers : caller'[d].op = caller[d].op
        /\ \A d \in Callers : caller[d].pc \in {"send", "reject"} => caller'[d].pc \in {"send", "reject"}
        /\ UNCHANGED <<channel, worker, lastEvent, stream>>
    BY <1>4 DEF SendRefused, outputVars, strVars
  <2>2. ConclusionDue => ConclusionDue'
    BY <2>1 DEF ConclusionDue
  <2> QED BY <2>1, <2>2, EventsKept DEF EventsInv
<1>5. ASSUME NEW c \in Callers, Reject(c) PROVE EventsInv'
  <2>1. /\ \A d \in Callers : caller'[d].op \in {caller[d].op, NoOp}
        /\ \A d \in Callers \ {c} : caller'[d] = caller[d]
        /\ UNCHANGED <<channel, worker, stream>>
    BY <1>5 DEF Reject, Returned, AtRest, outputVars, strVars
  <2>2. CASE caller[c].op \in StreamRequests
    <3>1. lastEvent' = "Failed"
      BY <1>5, <2>2 DEF Reject, PushEvent, StreamRequests
    <3> QED BY <2>1, <3>1 DEF EventsInv, NoOp
  <2>3. CASE caller[c].op \notin StreamRequests
    <3>1. lastEvent' = lastEvent
      BY <1>5, <2>3 DEF Reject, NoEvent, StreamRequests
    <3>2. ConclusionDue => ConclusionDue'
      BY <2>1, <2>3 DEF ConclusionDue
    <3> QED BY <2>1, <3>1, <3>2, EventsKept DEF EventsInv, NoOp
  <2> QED BY <2>2, <2>3
<1>6. ASSUME NEW c \in Callers, TakeEvents(c) PROVE EventsInv'
  BY <1>6 DEF TakeEvents, EventsInv, ConclusionDue, outputVars, strVars
<1>7. ASSUME NEW c \in Callers, Join(c) PROVE EventsInv'
  <2>1. /\ \A d \in Callers : caller'[d].op = caller[d].op
        /\ \A d \in Callers : caller[d].pc \in {"send", "reject"} => caller'[d].pc = caller[d].pc
        /\ UNCHANGED <<channel, worker, lastEvent, stream>>
    BY <1>7 DEF Join, outputVars, strVars
  <2>2. ConclusionDue => ConclusionDue'
    BY <2>1 DEF ConclusionDue
  <2> QED BY <2>1, <2>2, EventsKept DEF EventsInv
<1>8. ASSUME Receive PROVE EventsInv'
  <2>1. /\ channel # <<>> /\ worker'.pc = "handle" /\ worker'.command = Head(channel)
        /\ channel' = Tail(channel) /\ worker.pc = "receive"
        /\ UNCHANGED <<caller, lastEvent, stream>>
    BY <1>8 DEF Receive, outputVars, strVars
  <2>2. /\ DOMAIN channel = 1..Len(channel) /\ DOMAIN channel' = 1..(Len(channel) - 1)
        /\ Len(channel) \in Nat \ {0} /\ Head(channel) = channel[1]
        /\ \A i \in 1..(Len(channel) - 1) : channel'[i] = channel[i + 1]
    BY <2>1, HeadTailProperties, LenProperties, EmptySeq
  <2>3. /\ 1 \in DOMAIN channel
        /\ \A i \in DOMAIN channel : i = 1 \/ (i - 1 \in DOMAIN channel' /\ channel'[i - 1] = channel[i])
        /\ \A i \in DOMAIN channel' : i + 1 \in DOMAIN channel /\ channel'[i] = channel[i + 1]
    BY <2>2
  <2>4. ConclusionDue => ConclusionDue'
    BY <2>1, <2>2, <2>3 DEF ConclusionDue
  <2>5. \A i \in DOMAIN channel' : channel'[i].op # "StartStreamingTarget"
    BY <2>3 DEF EventsInv
  <2>6. worker'.command.op # "StartStreamingTarget"
    BY <2>1, <2>2, <2>3 DEF EventsInv
  <2> QED BY <2>1, <2>4, <2>5, <2>6, EventsKept DEF EventsInv
<1>9. ASSUME Handle PROVE EventsInv'
  <2> DEFINE op == worker.command.op
  <2>1. /\ Perform(op) /\ worker.pc = "handle" /\ op \in Operations /\ channel' = channel
        /\ worker'.pc = "publish" /\ worker'.command = worker.command
        /\ \A d \in Callers : caller'[d].op \in {caller[d].op, NoOp}
    BY <1>9 DEF Handle, Command, Returned, AtRest
  <2>2. op # "StartStreamingTarget" /\ op \notin {NoOp}
    BY <2>1 DEF EventsInv, NoOp, Operations, NonBlocking, Blocking
  <2>3. CASE op \in StreamRequests
    <3>1. \/ lastEvent' = "Running" /\ stream' # NoStream
          \/ lastEvent' = "Failed"
          \/ lastEvent' = "Stopped" /\ stream' = NoStream
      BY <2>1, <2>3 DEF Perform, StreamRequests, PushEvent, StartStreamingWorks,
         StartStreamingFails, FinishStreaming, Connected, NoStream
    <3> QED BY <2>1, <2>2, <3>1 DEF EventsInv, NoOp
  <2>4. CASE op \notin StreamRequests
    <3>1. UNCHANGED <<lastEvent, stream>>
      BY <2>1, <2>2, <2>4 DEF Perform, StreamRequests, NoEvent, StartRecording,
         FinishRecording, AbortRecording, StartReplay, StopReplay, SaveReplay, outputVars, strVars
    <3>2. ConclusionDue => ConclusionDue'
      <4>1. \A d \in Callers : caller[d].pc \in {"send", "reject"} => caller'[d] = caller[d]
        BY <1>9 DEF Handle, Returned, ControlsAwaited, Waits
      <4> QED BY <2>1, <2>4, <4>1 DEF ConclusionDue
    <3> QED BY <2>1, <2>2, <3>1, <3>2, EventsKept DEF EventsInv, NoOp
  <2> QED BY <2>3, <2>4
<1>10. ASSUME Publish PROVE EventsInv'
  <2>1. /\ worker.pc = "publish" /\ worker'.pc \in {"close", "receive"} /\ worker'.command = NoCommand
        /\ UNCHANGED <<channel, caller, lastEvent>>
    BY <1>10 DEF Publish
  <2>2. stream' = NoStream <=> stream = NoStream
    BY <1>10, PumpKeepsStream DEF Publish
  <2>3. ConclusionDue => ConclusionDue'
    BY <2>1 DEF ConclusionDue
  <2> QED BY <2>1, <2>2, <2>3 DEF EventsInv, NoCommand, NoOp
<1>11. ASSUME Close PROVE EventsInv'
  <2>1. /\ worker.pc = "close" /\ worker'.pc = "done" /\ worker'.command = worker.command
        /\ stream' = NoStream
        /\ UNCHANGED <<channel, caller, lastEvent>>
    BY <1>11 DEF Close, CloseOutputs
  <2>2. ConclusionDue => ConclusionDue'
    BY <2>1 DEF ConclusionDue
  <2> QED BY <2>1, <2>2 DEF EventsInv
<1>12. ASSUME UNCHANGED vars PROVE EventsInv'
  BY <1>12 DEF vars, outputVars, strVars, EventsInv, ConclusionDue
<1> QED BY <1>1, <1>2, <1>3, <1>4, <1>5, <1>6, <1>7, <1>8, <1>9, <1>10, <1>11, <1>12
        DEF Next, WorkerStep, CallerStep

(* Once nothing is under way, the last event is a conclusion and agrees with the
   stream, whatever the callers do but ask for a configured target:
   EventsConclude. *)
THEOREM EventsAreConcluded ==
    ASSUME NoTargetRequests
    PROVE  Spec => []EventsConclude
<1>1. Init => EventsInv
  BY DEF Init, OutputsInit, EventsInv, AtRest, NoOp, NoCommand
<1>2. WorkerInv /\ EventsInv /\ [Next]_vars => EventsInv'
  BY EventsStep, NoTargetRequests DEF WorkerInv
<1>3. WorkerInv /\ EventsInv => EventsConclude
  BY DEF EventsInv, EventsConclude, Quiet, ConclusionDue
<1> QED BY <1>1, <1>2, <1>3, WorkerInvariant, AnyRequests, PTL DEF Spec

(* What needs no such assumption: a last event that tells how a request ended is
   right about the stream, for all callers, the desktop included. *)
EventsTrue ==
    /\ lastEvent = "Running" /\ worker.pc # "done" => stream # NoStream
    /\ lastEvent = "Stopped" => stream = NoStream

LEMMA EventsTrueStep ==
    ASSUME OutputsInv, Types, EventsTrue, [WorkerNext]_vars
    PROVE  EventsTrue'
<1>1. ASSUME NEW c \in Callers,
             CallerStep(c) \/ TakeEvents(c) \/ \E op \in Operations : Begin(c, op)
      PROVE  EventsTrue'
  <2>1. UNCHANGED stream
    BY <1>1 DEF CallerStep, Begin, Mark, Send, SendRefused, Reject, TakeEvents, Join,
       outputVars, strVars
  <2>2. lastEvent' = lastEvent \/ lastEvent' \notin {"Running", "Stopped"}
    BY <1>1 DEF CallerStep, Begin, Mark, Send, SendRefused, Reject, TakeEvents, Join,
       PushEvent, NoEvent
  <2>3. UNCHANGED worker
    BY <1>1 DEF CallerStep, Begin, Mark, Send, SendRefused, Reject, TakeEvents, Join
  <2> QED BY <2>1, <2>2, <2>3 DEF EventsTrue
<1>2. CASE Receive
  BY <1>2 DEF Receive, EventsTrue, outputVars, strVars
<1>3. CASE Handle
  <2> DEFINE op == worker.command.op
  <2>1. Perform(op) /\ worker.pc = "handle"
    BY <1>3 DEF Handle
  <2>2. \/ lastEvent' = "Running" /\ stream' # NoStream
        \/ lastEvent' = "Failed"
        \/ lastEvent' = "Stopped" /\ stream' = NoStream
        \/ UNCHANGED <<lastEvent, stream>>
    BY <2>1 DEF Perform, PushEvent, NoEvent, StartStreamingWorks, StartStreamingFails,
       FinishStreaming, Connected, NoStream, StartRecording, FinishRecording,
       AbortRecording, StartReplay, StopReplay, SaveReplay, outputVars, strVars
  <2> QED BY <2>1, <2>2 DEF EventsTrue
<1>4. CASE Publish
  <2>1. worker.pc = "publish" /\ UNCHANGED lastEvent
    BY <1>4 DEF Publish
  <2>2. stream' = NoStream <=> stream = NoStream
    BY <1>4, PumpKeepsStream DEF Publish
  <2> QED BY <2>1, <2>2 DEF EventsTrue
<1>5. CASE Close
  <2>1. worker'.pc = "done" /\ stream' = NoStream /\ UNCHANGED lastEvent
    BY <1>5 DEF Close, CloseOutputs, Types
  <2> QED BY <2>1 DEF EventsTrue
<1>6. CASE UNCHANGED vars
  BY <1>6 DEF vars, outputVars, strVars, EventsTrue
<1> QED BY <1>1, <1>2, <1>3, <1>4, <1>5, <1>6 DEF WorkerNext, WorkerStep, CallerStep

LEMMA EventsTrueAlways == WorkerSpec => []EventsTrue
<1>1. Init => EventsTrue
  BY DEF Init, OutputsInit, EventsTrue, NoOp
<1>2. WorkerInv /\ EventsTrue /\ [WorkerNext]_vars => EventsTrue'
  BY EventsTrueStep DEF WorkerInv
<1> QED BY <1>1, <1>2, WorkerInvariant, PTL DEF WorkerSpec

(* A last event that says running means that there is a stream, unless the worker
   has ended, and one that says stopped that there is none. *)
THEOREM EventsAreTrue == Spec => []EventsTrue
  BY EventsTrueAlways, AnyRequests, PTL

-----------------------------------------------------------------------------
(* The desktop *)

(* Whatever the buttons and the timer do is done to the worker by a caller. *)
LEMMA DesktopCalls ==
    ASSUME [DesktopNext]_desktopVars
    PROVE  [WorkerNext]_vars
<1>1. CASE WorkerStep
  BY <1>1 DEF WorkerNext
<1>2. ASSUME NEW c \in Callers, CallStep(c) PROVE WorkerNext
  BY <1>2 DEF CallStep, SendAndClaim, CallerStep, WorkerNext
<1>3. ASSUME NEW c \in Callers, Drain(c) PROVE [WorkerNext]_vars
  BY <1>3 DEF Drain, WorkerNext
<1>4. ASSUME NEW c \in Callers, HandleEvent(c) PROVE [WorkerNext]_vars
  <2>1. Begin(c, "StartRecording") \/ UNCHANGED vars
    BY <1>4 DEF HandleEvent
  <2> QED BY <2>1 DEF WorkerNext, Operations, NonBlocking
<1>5. ASSUME NEW c \in Callers, EventsHandled(c) \/ TickBlank(c) \/ Observe PROVE UNCHANGED vars
  BY <1>5 DEF EventsHandled, TickBlank, Observe
<1>6. ASSUME NEW c \in Callers,
             \/ TickFrame(c) \/ ToggleRecording(c) \/ ToggleStreaming(c) \/ ToggleReplay(c)
             \/ SaveReplayBuffer(c) \/ ControlMixer(c) \/ CloseWindow(c)
      PROVE  WorkerNext
  <2>1. \E op \in Operations : Begin(c, op)
    BY <1>6 DEF TickFrame, ToggleRecording, ToggleStreaming, ToggleReplay, SaveReplayBuffer,
       ControlMixer, CloseWindow, Operations, NonBlocking, Blocking
  <2> QED BY <2>1 DEF WorkerNext
<1>7. CASE UNCHANGED desktopVars
  BY <1>7 DEF desktopVars
<1> QED BY <1>1, <1>2, <1>3, <1>4, <1>5, <1>6, <1>7 DEF DesktopNext, Reconcile

(* The desktop is a caller of the worker like any other: all that holds of the
   worker for any requests holds under the window's buttons, its timer and its
   automatic recording (callbacks/output.rs and callbacks/mod.rs). *)
THEOREM DesktopIsACaller == DesktopSpec => WorkerSpec
<1>1. DesktopInit => Init
  BY DEF DesktopInit
<1>2. [DesktopNext]_desktopVars => [WorkerNext]_vars
  BY DesktopCalls
<1> QED BY <1>1, <1>2, PTL DEF DesktopSpec, WorkerSpec

(* An output that is not open is reported as stopped. *)
ClosedIsStopped ==
    /\ ~recording => IsStopped(recPhase)
    /\ stream = NoStream => IsStopped(strPhase)

LEMMA ClosedStep ==
    ASSUME OutputsInv, ClosedIsStopped, [OutputsNext]_outputVars
    PROVE  ClosedIsStopped'
<1> USE DEF ClosedIsStopped, IsStopped, recVars, repVars, strVars
<1>1. CASE StartRecording \/ FinishRecording \/ AbortRecording
  BY <1>1 DEF StartRecording, FinishRecording, AbortRecording
<1>2. CASE StartReplay \/ StopReplay \/ SaveReplay
  BY <1>2 DEF StartReplay, StopReplay, SaveReplay
<1>3. CASE StartStreamingWorks
  BY <1>3 DEF StartStreamingWorks, Connected, NoStream
<1>4. CASE StartStreamingFails \/ FinishStreaming \/ CloseOutputs
  BY <1>4 DEF StartStreamingFails, FinishStreaming, CloseOutputs
<1>5. CASE StreamPumped
  <2>1. stream' = NoStream => stream = NoStream
    BY <1>5, PumpKeepsStream
  <2>2. stream = NoStream => strPhase' = strPhase
    BY <1>5 DEF StreamPumped
  <2> QED BY <1>5, <2>1, <2>2 DEF StreamPumped
<1>6. CASE UNCHANGED outputVars
  BY <1>6 DEF outputVars
<1> QED BY <1>1, <1>2, <1>3, <1>4, <1>5, <1>6 DEF OutputsNext

LEMMA ClosedAlways == WorkerSpec => []ClosedIsStopped
<1>1. Init => ClosedIsStopped
  BY DEF Init, OutputsInit, ClosedIsStopped, IsStopped
<1>2. OutputsInv /\ ClosedIsStopped /\ [WorkerNext]_vars => ClosedIsStopped'
  BY ClosedStep, WorkerDrivesOutputs
<1> QED BY <1>1, <1>2, OutputsConsistent, PTL DEF WorkerSpec

(* Only the end of a tick goes from its observation back to waiting. *)
LEMMA TickEnds ==
    ASSUME [DesktopNext]_desktopVars, gui = "observe", gui' = "free"
    PROVE  Observe
<1>1. ASSUME UNCHANGED deskVars PROVE FALSE
  BY <1>1 DEF deskVars
<1>2. ASSUME NEW c \in Callers, CallStep(c) PROVE FALSE
  BY <1>1, <1>2 DEF CallStep, SendAndClaim
<1>3. ASSUME NEW c \in Callers, Drain(c) \/ HandleEvent(c) \/ EventsHandled(c) PROVE FALSE
  BY <1>3 DEF Drain, HandleEvent, EventsHandled
<1>4. ASSUME NEW c \in Callers, TickFrame(c) \/ TickBlank(c) PROVE FALSE
  BY <1>4 DEF TickFrame, TickBlank
<1>5. ASSUME NEW c \in Callers,
             \/ ToggleRecording(c) \/ ToggleStreaming(c) \/ ToggleReplay(c)
             \/ SaveReplayBuffer(c) \/ ControlMixer(c) \/ CloseWindow(c)
      PROVE  FALSE
  BY <1>5 DEF ToggleRecording, ToggleStreaming, ToggleReplay, SaveReplayBuffer,
     ControlMixer, CloseWindow, Pressed
<1> QED BY <1>1, <1>2, <1>3, <1>4, <1>5 DEF DesktopNext, Reconcile, desktopVars

(* A tick that ends while nothing is under way leaves no claim on an output that
   is not there: the snapshot it goes by is then the session's, whose phases say
   of each closed output that it is stopped: ReconciledClaimsHold. *)
THEOREM TicksReconcileClaims == DesktopSpec => ReconciledClaimsHold
<1>1. ASSUME QuietSnapshot, ClosedIsStopped, [DesktopNext]_desktopVars
      PROVE  [gui = "observe" /\ gui' = "free" /\ Quiet /\ ~refused =>
                 /\ claimRec' => recording
                 /\ claimStr' => stream # NoStream]_desktopVars
  <2>1. SUFFICES ASSUME gui = "observe", gui' = "free", Quiet, ~refused
                 PROVE  (claimRec' => recording) /\ (claimStr' => stream # NoStream)
    OBVIOUS
  <2>2. Observe
    BY <1>1, <2>1, TickEnds
  <2>3. snapshot.rec = recPhase /\ snapshot.str = strPhase
    BY <1>1, <2>1 DEF QuietSnapshot
  <2> QED BY <1>1, <2>2, <2>3 DEF Observe, ClosedIsStopped
<1> QED BY <1>1, DesktopIsACaller, QuietSnapshotAlways, ClosedAlways, PTL
        DEF DesktopSpec, ReconciledClaimsHold

(* The newest of what the desktop has yet to hear is the last event there was:
   the queue drops its oldest, and a tick takes all of it. *)
NewsIsLast ==
    /\ batch \in Seq(OutputEvent)
    /\ events # <<>> => events[Len(events)] = lastEvent
    /\ events = <<>> /\ batch # <<>> => batch[Len(batch)] = lastEvent

(* But for being taken, the queue only changes by a push. *)
LEMMA EventsPushed ==
    ASSUME Types,
           \/ WorkerStep
           \/ \E c \in Callers : CallerStep(c) \/ \E op \in Operations : Begin(c, op)
    PROVE  NoEvent \/ \E e \in OutputEvent : PushEvent(e)
<1>1. CASE Receive \/ Publish \/ Close
  BY <1>1 DEF Receive, Publish, Close, NoEvent
<1>2. CASE Handle
  BY <1>2 DEF Handle, Perform, OutputEvent
<1>3. ASSUME NEW c \in Callers, Mark(c) \/ Reject(c)
      PROVE  NoEvent \/ \E e \in OutputEvent : PushEvent(e)
  BY <1>3 DEF Mark, Reject, OutputEvent
<1>4. ASSUME NEW c \in Callers,
             Send(c) \/ SendRefused(c) \/ Join(c) \/ \E op \in Operations : Begin(c, op)
      PROVE  NoEvent
  BY <1>4 DEF Send, SendRefused, Join, Begin, NoEvent
<1> QED BY <1>1, <1>2, <1>3, <1>4 DEF WorkerStep, CallerStep

LEMMA NewsKept ==
    ASSUME Types, NewsIsLast, UNCHANGED batch, NoEvent \/ \E e \in OutputEvent : PushEvent(e)
    PROVE  NewsIsLast'
<1>1. CASE NoEvent
  BY <1>1 DEF NoEvent, NewsIsLast
<1>2. CASE \E e \in OutputEvent : PushEvent(e)
  <2>1. PICK e \in OutputEvent : PushEvent(e)
    BY <1>2
  <2> DEFINE rest == IF Len(events) = EventCapacity THEN Tail(events) ELSE events
  <2>2. rest \in Seq(OutputEvent)
    <3>1. Len(events) = EventCapacity => events # <<>>
      BY EventCapacityAssumption
    <3> QED BY <3>1, HeadTailProperties DEF Types
  <2>3. events' = Append(rest, e) /\ lastEvent' = e
    BY <2>1 DEF PushEvent
  <2> HIDE DEF rest
  <2>4. events' # <<>> /\ events'[Len(events')] = e
    BY <2>1, <2>2, <2>3, AppendProperties
  <2> QED BY <2>3, <2>4 DEF NewsIsLast
<1> QED BY <1>1, <1>2

LEMMA NewsStep ==
    ASSUME Types, NewsIsLast, [DesktopNext]_desktopVars
    PROVE  NewsIsLast'
<1>1. CASE WorkerStep /\ UNCHANGED deskVars
  BY <1>1, EventsPushed, NewsKept DEF deskVars
<1>2. ASSUME NEW c \in Callers, CallStep(c) PROVE NewsIsLast'
  <2>1. CallerStep(c) /\ UNCHANGED batch
    BY <1>2 DEF CallStep, SendAndClaim, CallerStep, deskVars
  <2> QED BY <2>1, EventsPushed, NewsKept
<1>3. ASSUME NEW c \in Callers, Drain(c) PROVE NewsIsLast'
  <2>1. batch' = events /\ events' = <<>> /\ UNCHANGED lastEvent
    BY <1>3 DEF Drain, TakeEvents, vars
  <2> QED BY <2>1 DEF NewsIsLast, Types
<1>4. ASSUME NEW c \in Callers, HandleEvent(c) PROVE NewsIsLast'
  <2>1. batch # <<>> /\ batch' = Tail(batch) /\ UNCHANGED <<events, lastEvent>>
    BY <1>4 DEF HandleEvent, Begin, vars
  <2>2. /\ batch' \in Seq(OutputEvent) /\ Len(batch') = Len(batch) - 1
        /\ Len(batch) \in Nat /\ \A i \in 1..(Len(batch) - 1) : batch'[i] = batch[i + 1]
    BY <2>1, HeadTailProperties, LenProperties DEF NewsIsLast
  <2>3. batch' # <<>> => batch'[Len(batch')] = batch[Len(batch)]
    <3>1. batch' # <<>> => Len(batch') # 0
      BY <2>2, EmptySeq
    <3> QED BY <2>2, <3>1
  <2> QED BY <2>1, <2>2, <2>3 DEF NewsIsLast
<1>5. ASSUME NEW c \in Callers, EventsHandled(c) \/ TickBlank(c) \/ Observe PROVE NewsIsLast'
  BY <1>5 DEF EventsHandled, TickBlank, Observe, vars, NewsIsLast
<1>6. ASSUME NEW c \in Callers,
             \/ TickFrame(c) \/ ToggleRecording(c) \/ ToggleStreaming(c) \/ ToggleReplay(c)
             \/ SaveReplayBuffer(c) \/ ControlMixer(c) \/ CloseWindow(c)
      PROVE  NewsIsLast'
  BY <1>6 DEF TickFrame, ToggleRecording, ToggleStreaming, ToggleReplay, SaveReplayBuffer,
     ControlMixer, CloseWindow, Begin, NewsIsLast
<1>7. CASE UNCHANGED desktopVars
  BY <1>7 DEF desktopVars, deskVars, vars, NewsIsLast
<1> QED BY <1>1, <1>2, <1>3, <1>4, <1>5, <1>6, <1>7 DEF DesktopNext, Reconcile

LEMMA LastNews ==
    ASSUME Types, NewsIsLast, EventsTrue
    PROVE  NewsIsTrue
<1> DEFINE news == batch \o events
<1>1. SUFFICES ASSUME news # <<>>
               PROVE  news[Len(news)] = lastEvent
  BY DEF NewsIsTrue, EventsTrue
<1>2. /\ batch \in Seq(OutputEvent) /\ events \in Seq(OutputEvent)
      /\ Len(batch) \in Nat /\ Len(events) \in Nat
  BY LenProperties DEF NewsIsLast, Types
<1>3. /\ news \in Seq(OutputEvent) /\ Len(news) = Len(batch) + Len(events)
      /\ \A i \in 1..(Len(batch) + Len(events)) :
            news[i] = IF i <= Len(batch) THEN batch[i] ELSE events[i - Len(batch)]
  BY <1>2, ConcatProperties
<1>4. Len(news) # 0
  BY <1>1, <1>3, EmptySeq
<1> HIDE DEF news
<1>5. CASE events # <<>>
  <2>1. Len(events) # 0
    BY <1>2, <1>5, EmptySeq
  <2>2. news[Len(news)] = events[Len(events)]
    BY <1>2, <1>3, <2>1
  <2> QED BY <1>5, <2>2 DEF NewsIsLast
<1>6. CASE events = <<>>
  <2>1. Len(events) = 0
    BY <1>6
  <2>2. batch # <<>> /\ news[Len(news)] = batch[Len(batch)]
    BY <1>2, <1>3, <1>4, <2>1
  <2> QED BY <1>6, <2>2 DEF NewsIsLast
<1> QED BY <1>5, <1>6

(* The last event the desktop has still to handle is true of the stream, whatever
   the queue has dropped: a Running that claims the stream and starts the
   recording finds a stream, unless the worker has ended: NewsIsTrue. *)
THEOREM NewsIsAlwaysTrue == DesktopSpec => []NewsIsTrue
<1>1. DesktopInit => NewsIsLast
  BY DEF DesktopInit, Init, NewsIsLast
<1>2. WorkerInv /\ NewsIsLast /\ [DesktopNext]_desktopVars => NewsIsLast'
  BY NewsStep DEF WorkerInv
<1>3. WorkerInv /\ NewsIsLast /\ EventsTrue => NewsIsTrue
  BY LastNews DEF WorkerInv
<1> QED BY <1>1, <1>2, <1>3, DesktopIsACaller, WorkerInvariant, EventsTrueAlways, PTL
        DEF DesktopSpec
=============================================================================
