---------------------------- MODULE DesktopOutput ----------------------------
(* The desktop's side of the outputs (obs-rs-gui: callbacks/output.rs and the
   preview timer of callbacks/mod.rs) on top of EngineWorker.  The GUI thread
   is the worker's only caller.  It claims an output in its own state when it
   asks for it or hears that it runs, and every timer tick sends media and
   then reconciles the claims with the events and phases the worker published. *)
EXTENDS EngineWorker

CONSTANTS AutoRecord,   \* auto_record_when_streaming
          Toggles,      \* the buttons the user presses
          MaxPresses    \* bound: how often he presses them

ASSUME AutoRecordAssumption == AutoRecord \in BOOLEAN
ASSUME TogglesAssumption ==
    Toggles \subseteq {"Recording", "Streaming", "Replay", "SaveReplay", "Mixer", "Close"}
ASSUME MaxPressesAssumption == MaxPresses \in Nat

(* For Requests: the GUI thread makes no others than the ones below. *)
NoRequests == [c \in Callers |-> {}]

VARIABLES
    claimRec,   \* DesktopState::recording
    claimStr,   \* DesktopState::streaming
    gui,        \* where the GUI thread is
    batch,      \* events drained but not yet handled
    presses     \* history: how often a button was pressed

deskVars == <<claimRec, claimStr, gui, batch, presses>>
desktopVars == <<vars, deskVars>>

DesktopInit ==
    /\ Init
    /\ claimRec = FALSE /\ claimStr = FALSE
    /\ gui = "free"
    /\ batch = <<>>
    /\ presses = 0

OutputActive == claimRec \/ claimStr

-----------------------------------------------------------------------------
(* The buttons *)

Pressed(button) ==
    /\ gui = "free"
    /\ button \in Toggles
    /\ presses < MaxPresses
    /\ presses' = presses + 1

(* on_toggle_recording goes by the desktop's claim... *)
ToggleRecording(c) ==
    /\ Pressed("Recording")
    /\ Begin(c, IF claimRec THEN "FinishRecording" ELSE "StartRecording")
    /\ UNCHANGED <<claimRec, claimStr, gui, batch>>

(* ... and on_toggle_streaming by the published lifecycle. *)
ToggleStreaming(c) ==
    /\ Pressed("Streaming")
    /\ Begin(c, IF IsStopped(snapshot.str) THEN "StartStreamingTarget" ELSE "FinishStreaming")
    /\ UNCHANGED <<claimRec, claimStr, gui, batch>>

(* replay_controls: the replay counts as buffering in any phase that is not
   stopped... *)
Buffering == snapshot.alive /\ ~IsStopped(snapshot.rep)

ToggleReplay(c) ==
    /\ Pressed("Replay")
    /\ Begin(c, IF Buffering THEN "StopReplay" ELSE "StartReplay")
    /\ UNCHANGED <<claimRec, claimStr, gui, batch>>

(* ... and one save is asked for at a time. *)
SaveReplayBuffer(c) ==
    /\ Pressed("SaveReplay")
    /\ Buffering
    /\ ~(snapshot.alive /\ snapshot.save = "Saving")
    /\ Begin(c, "SaveReplay")
    /\ UNCHANGED <<claimRec, claimStr, gui, batch>>

(* A fader or another control of the mixer, which waits for its answer. *)
ControlMixer(c) ==
    /\ Pressed("Mixer")
    /\ Begin(c, "Control")
    /\ UNCHANGED <<claimRec, claimStr, gui, batch>>

(* The window closes and drops the worker's handle. *)
CloseWindow(c) ==
    /\ Pressed("Close")
    /\ Begin(c, "Shutdown")
    /\ UNCHANGED <<claimRec, claimStr, gui, batch>>

(* A recording is claimed as soon as its request is accepted. *)
SendAndClaim(c) ==
    /\ Send(c)
    /\ claimRec' = (claimRec \/ caller[c].op = "StartRecording")
    /\ UNCHANGED <<claimStr, gui, batch, presses>>

-----------------------------------------------------------------------------
(* The preview timer *)

(* A tick with a frame to send: media while an output is claimed, a sample for
   the meters otherwise. *)
TickFrame(c) ==
    /\ gui = "free"
    /\ Begin(c, IF OutputActive THEN "PushFrame" ELSE "MonitorAudio")
    /\ gui' = "drain"
    /\ UNCHANGED <<claimRec, claimStr, batch, presses>>

(* A tick for which the preview worker has no frame. *)
TickBlank(c) ==
    /\ gui = "free"
    /\ caller[c].pc = "idle"
    /\ gui' = "drain"
    /\ UNCHANGED <<vars, claimRec, claimStr, batch, presses>>

(* take_output_events *)
Drain(c) ==
    /\ gui = "drain"
    /\ caller[c].pc = "idle"
    /\ \/ TakeEvents(c)
       \/ events = <<>> /\ UNCHANGED vars
    /\ batch' = events
    /\ gui' = "events"
    /\ UNCHANGED <<claimRec, claimStr, presses>>

Claimed(event) ==
    CASE event = "Running" -> TRUE
      [] event \in {"Failed", "Stopped"} -> FALSE
      [] OTHER -> claimStr

(* One event of the batch.  A stream that runs may start the recording. *)
HandleEvent(c) ==
    LET event == Head(batch)
    IN  /\ gui = "events"
        /\ caller[c].pc = "idle"
        /\ batch # <<>>
        /\ batch' = Tail(batch)
        /\ claimStr' = Claimed(event)
        /\ IF event = "Running" /\ AutoRecord /\ ~claimRec THEN Begin(c, "StartRecording")
           ELSE UNCHANGED vars
        /\ UNCHANGED <<claimRec, gui, presses>>

EventsHandled(c) ==
    /\ gui = "events"
    /\ caller[c].pc = "idle"
    /\ batch = <<>>
    /\ gui' = "observe"
    /\ UNCHANGED <<vars, claimRec, claimStr, batch, presses>>

(* Mutant: a failed recording stays claimed. *)
ObserveIdleOnly ==
    /\ gui = "observe"
    /\ claimRec' = (claimRec /\ snapshot.rec # "Idle")
    /\ claimStr' = (claimStr /\ snapshot.str # "Idle")
    /\ gui' = "free"
    /\ UNCHANGED <<vars, batch, presses>>

(* The end of reconcile_output_lifecycle: a claimed output whose phase is
   stopped is no longer claimed. *)
Observe ==
    /\ gui = "observe"
    /\ claimRec' = (claimRec /\ ~IsStopped(snapshot.rec))
    /\ claimStr' = (claimStr /\ ~IsStopped(snapshot.str))
    /\ gui' = "free"
    /\ UNCHANGED <<vars, batch, presses>>

(* The call under way, if there is one. *)
CallStep(c) ==
    \/ SendAndClaim(c)
    \/ (Mark(c) \/ SendRefused(c) \/ Reject(c) \/ Join(c)) /\ UNCHANGED deskVars

Reconcile(c) == Drain(c) \/ HandleEvent(c) \/ EventsHandled(c) \/ Observe

DesktopNext ==
    \/ WorkerStep /\ UNCHANGED deskVars
    \/ \E c \in Callers :
         \/ CallStep(c) \/ Reconcile(c)
         \/ TickFrame(c) \/ TickBlank(c)
         \/ ToggleRecording(c) \/ ToggleStreaming(c)
         \/ ToggleReplay(c) \/ SaveReplayBuffer(c) \/ ControlMixer(c) \/ CloseWindow(c)

DesktopSpec == DesktopInit /\ [][DesktopNext]_desktopVars

(* The worker and the GUI thread run, the timer is a repeating one, and the
   preview worker keeps delivering frames. *)
DesktopFairSpec ==
    /\ DesktopSpec
    /\ WF_desktopVars(WorkerStep /\ UNCHANGED deskVars)
    /\ \A c \in Callers : /\ WF_desktopVars(CallStep(c))
                          /\ WF_desktopVars(Reconcile(c))
                          /\ SF_desktopVars(TickFrame(c))

-----------------------------------------------------------------------------
(* Properties *)

(* Once the user leaves the buttons alone, an output the engine refused or that
   has stopped does not stay claimed: the window does not show "recording" for
   ever, unless it is closed first. *)
StaleClaimsClear ==
    /\ claimRec ~> (~claimRec \/ recording \/ worker.pc = "done")
    /\ claimStr ~> (~claimStr \/ stream # NoStream \/ worker.pc = "done")

(* A tick that ends while nothing is under way leaves no claim on an output that
   is not there, whatever was refused, failed or stopped since the claim was
   made: all it goes by is a snapshot that may be of another moment. *)
ReconciledClaimsHold ==
    [][gui = "observe" /\ gui' = "free" /\ Quiet /\ ~refused =>
          /\ claimRec' => recording
          /\ claimStr' => stream # NoStream]_desktopVars

(* The last event the desktop has still to handle is true of the stream when it
   is handled, however late that is and whatever the queue has dropped: one that
   claims the stream and starts the recording finds a stream. *)
NewsIsTrue ==
    LET news == batch \o events
    IN  news # <<>> =>
          /\ news[Len(news)] = "Running" => stream # NoStream \/ worker.pc = "done"
          /\ news[Len(news)] = "Stopped" => stream = NoStream
=============================================================================
