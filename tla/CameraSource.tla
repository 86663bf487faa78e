---------------------------- MODULE CameraSource ----------------------------
(***************************************************************************)
(* A camera in the scene (obs-rs-capture/src/factories.rs, threaded.rs).   *)
(* Each opening of the camera has a thread of its own, the only one that   *)
(* calls the driver; it leaves its newest frame and its end in a mailbox   *)
(* that the rendering thread reads without waiting.  Before the camera is  *)
(* opened again the old thread is asked to stop and waited for, one second *)
(* at most, because a driver call cannot be interrupted.                   *)
(*                                                                         *)
(* The rendering thread is one process: it creates, updates, renders and   *)
(* removes the source, and waits inside those calls.  Which second is over *)
(* and which driver call returns first is left open.                       *)
(***************************************************************************)
EXTENDS Naturals

CONSTANTS Formats,      \* sizes and rates of the canvas and of a camera
          Devices,      \* cameras, each in one of its modes
          Threads,      \* capture threads that may live at the same time
          RetryFrames,  \* renders between two attempts to open a lost camera
          MaxChanges,   \* bound: updates and removals of one run
          NULL

ASSUME CameraAssumption ==
    /\ RetryFrames \in Nat \ {0}
    /\ MaxChanges \in Nat
    /\ NULL \notin Threads

\* What a source is given: the format it delivers, and the camera.
Settings == [format : Formats, device : Devices]

ASSUME SettingsAssumption == NULL \notin Settings

\* A capture thread: its mailbox (stop, ready, finished and failure), where it is,
\* and whether its source has walked away from it.  The frame in the mailbox is
\* left out: it is one of the thread's settings.
Workers ==
    [settings : Settings,
     pc : {"opening", "opened", "starting", "started", "running", "reading",
           "stopping", "stopped", "failed", "dropping", "exited"},
     stop : BOOLEAN, ready : BOOLEAN, finished : BOOLEAN,
     failure : {NULL, "error", "denied"}, abandoned : BOOLEAN]

ASSUME NoWorkerAssumption == NULL \notin Workers

VARIABLES
    canvas,            \* the format its renderer asks for
    settings,          \* the source's settings, NULL while there is no source
    device,            \* its capture thread
    retry_countdown,
    shutdown_blocked,  \* the thread could not be waited for
    call,              \* what the rendering thread is in: "update", "render", "retry" or "remove"
    waits,             \* where it is: "idle", "shutting", "joining" or "tail"
    workers,           \* thread |-> what it does and its mailbox, NULL for none
    changes

sourceVars == <<canvas, settings, device, retry_countdown, shutdown_blocked, call, waits, changes>>
vars == <<sourceVars, workers>>

TypeOK ==
    /\ canvas \in Formats
    /\ settings \in Settings \cup {NULL}
    /\ device \in Threads \cup {NULL}
    /\ retry_countdown \in Nat
    /\ shutdown_blocked \in BOOLEAN
    /\ call \in {NULL, "update", "render", "retry", "remove"}
    /\ waits \in {"idle", "shutting", "joining", "tail"}
    /\ workers \in [Threads -> Workers \cup {NULL}]
    /\ changes \in 0..MaxChanges

Init ==
    /\ canvas \in Formats
    /\ settings = NULL
    /\ device = NULL
    /\ retry_countdown = RetryFrames
    /\ shutdown_blocked = FALSE
    /\ call = NULL
    /\ waits = "idle"
    /\ workers = [t \in Threads |-> NULL]
    /\ changes = 0

Worker(pc, s) ==
    [settings |-> s, pc |-> pc, stop |-> FALSE, ready |-> FALSE, finished |-> FALSE,
     failure |-> NULL, abandoned |-> FALSE]

\* A thread that cannot be started has ended with a failure.
Unstarted(s) == [Worker("exited", s) EXCEPT !.finished = TRUE, !.failure = "error"]

\* CaptureLifecycleState.
State(worker) ==
    IF worker.finished THEN IF worker.failure = "denied" THEN "Denied" ELSE "Lost"
    ELSE IF worker.ready THEN "Ready" ELSE "Opening"

-----------------------------------------------------------------------------
(* The rendering thread *)

\* ThreadedCaptureDevice::open in place of the thread that has been joined.
Open(s) ==
    \E t \in Threads, worker \in {Worker("opening", s), Unstarted(s)} :
        /\ workers[t] = NULL \/ t = device
        /\ workers' = [u \in Threads |->
                           IF u = t THEN worker ELSE IF u = device THEN NULL ELSE workers[u]]
        /\ device' = t
        /\ shutdown_blocked' = FALSE

Shutdown(c) ==
    /\ workers' = [workers EXCEPT ![device].stop = TRUE]
    /\ call' = c
    /\ waits' = "shutting"

\* reopen, up to the wait for the old thread.
Reopen(c) ==
    /\ retry_countdown' = RetryFrames
    /\ Shutdown(c)
    /\ UNCHANGED <<device, shutdown_blocked>>

\* A renderer keeps its canvas: for another one all sources are created anew.
Create ==
    /\ waits = "idle" /\ settings = NULL
    /\ canvas' \in Formats
    /\ \E s \in Settings : settings' = s /\ Open(s)
    /\ retry_countdown' = RetryFrames
    /\ UNCHANGED <<call, waits, changes>>

\* Settings that change nothing leave the camera alone.
Update ==
    /\ waits = "idle" /\ settings # NULL
    /\ changes < MaxChanges /\ changes' = changes + 1
    /\ \E s \in Settings \ {settings} : settings' = s
    /\ Reopen("update")
    /\ UNCHANGED canvas

\* The source is dropped, and its device with it.
Remove ==
    /\ waits = "idle" /\ settings # NULL
    /\ changes < MaxChanges /\ changes' = changes + 1
    /\ settings' = NULL
    /\ Shutdown("remove")
    /\ UNCHANGED <<canvas, device, retry_countdown, shutdown_blocked>>

CountDownDenied ==
    /\ State(workers[device]) \in {"Lost", "Denied"}
    /\ IF retry_countdown <= 1 THEN Reopen("retry")
       ELSE /\ retry_countdown' = retry_countdown - 1
            /\ waits' = "idle"
            /\ UNCHANGED <<device, shutdown_blocked, call, workers>>

\* A lost camera counts down to the next attempt.
CountDown ==
    /\ State(workers[device]) = "Lost"
    /\ IF retry_countdown <= 1 THEN Reopen("retry")
       ELSE /\ retry_countdown' = retry_countdown - 1
            /\ waits' = "idle"
            /\ UNCHANGED <<device, shutdown_blocked, call, workers>>

\* poll_frame: a live thread's newest frame is returned.
PollFrame ==
    /\ State(workers[device]) \in {"Opening", "Ready"}
    /\ waits' = "idle"
    /\ UNCHANGED <<device, retry_countdown, shutdown_blocked, call, workers>>

\* A refused permission is left to the user.
StayDenied ==
    /\ State(workers[device]) = "Denied"
    /\ waits' = "idle"
    /\ UNCHANGED <<device, retry_countdown, shutdown_blocked, call, workers>>

MatchState == CountDown \/ PollFrame \/ StayDenied

\* A source whose format is not the canvas's only says so: it neither counts
\* down nor looks for the end of a thread.
Fits == settings.format = canvas

RenderBlockedForever ==
    /\ waits = "idle" /\ settings # NULL
    /\ IF Fits /\ ~shutdown_blocked THEN MatchState
       ELSE UNCHANGED <<device, retry_countdown, shutdown_blocked, call, waits, workers>>
    /\ UNCHANGED <<canvas, settings, changes>>

\* render: a blocked source waits until the old thread is over, and only says so until then.
Render ==
    /\ waits = "idle" /\ settings # NULL
    /\ IF Fits /\ ~shutdown_blocked THEN MatchState
       ELSE IF Fits /\ State(workers[device]) = "Lost" THEN Reopen("render")
       ELSE UNCHANGED <<device, retry_countdown, shutdown_blocked, call, waits, workers>>
    /\ UNCHANGED <<canvas, settings, changes>>

\* The rest of a render that has opened the camera first.
RenderOn ==
    /\ waits = "tail"
    /\ MatchState
    /\ UNCHANGED <<canvas, settings, changes>>

AfterCall == IF call = "render" THEN "tail" ELSE "idle"

ShutdownEnds ==
    /\ waits = "shutting"
    /\ workers[device].finished
    /\ waits' = "joining"
    /\ UNCHANGED <<canvas, settings, device, retry_countdown, shutdown_blocked, call, workers,
                   changes>>

GiveUpAndOpen ==
    /\ waits = "shutting"
    /\ ~workers[device].finished
    /\ call # "remove"
    /\ \E t \in Threads :
           /\ workers[t] = NULL
           /\ workers' = [workers EXCEPT ![t] = Worker("opening", settings)]
           /\ device' = t
    /\ waits' = AfterCall
    /\ UNCHANGED <<canvas, settings, retry_countdown, shutdown_blocked, call, changes>>

\* The second is over.  A source keeps the thread; one that goes walks away from it.
GiveUp ==
    /\ waits = "shutting"
    /\ ~workers[device].finished
    /\ IF call = "remove"
       THEN /\ workers' = [workers EXCEPT ![device].abandoned = TRUE]
            /\ device' = NULL
            /\ shutdown_blocked' = FALSE
       ELSE /\ shutdown_blocked' = TRUE
            /\ UNCHANGED <<device, workers>>
    /\ waits' = AfterCall
    /\ UNCHANGED <<canvas, settings, retry_countdown, call, changes>>

\* join returns when the thread is over, its device dropped.
Join ==
    /\ waits = "joining"
    /\ workers[device].pc = "exited"
    /\ IF call = "remove"
       THEN /\ workers' = [workers EXCEPT ![device] = NULL]
            /\ device' = NULL
            /\ shutdown_blocked' = FALSE
       ELSE Open(settings)
    /\ waits' = AfterCall
    /\ UNCHANGED <<canvas, settings, retry_countdown, call, changes>>

Renderer == Create \/ Update \/ Remove \/ Render \/ RenderOn \/ ShutdownEnds \/ GiveUp \/ Join

-----------------------------------------------------------------------------
(* The capture thread, from one driver call or flag to the next *)

Becomes(t, worker) ==
    /\ workers' = [workers EXCEPT ![t] = worker]
    /\ UNCHANGED sourceVars

At(t, pc) == workers[t] # NULL /\ workers[t].pc = pc

GoTo(t, pc) == Becomes(t, [workers[t] EXCEPT !.pc = pc])

\* finish stores the error before it says that the thread is over.
Fails(t) ==
    \E error \in {"error", "denied"} :
        Becomes(t, [workers[t] EXCEPT !.pc = "failed", !.failure = error])

OpenerReturns(t) == At(t, "opening") /\ (GoTo(t, "opened") \/ Fails(t))

StartReturns(t) == At(t, "starting") /\ (GoTo(t, "started") \/ Fails(t))

\* An owner that left during the opening finds nothing started.
CheckOpened(t) ==
    /\ At(t, "opened")
    /\ GoTo(t, IF workers[t].stop THEN "stopping" ELSE "starting")

CheckStarted(t) ==
    /\ At(t, "started")
    /\ IF workers[t].stop THEN GoTo(t, "stopping")
       ELSE Becomes(t, [workers[t] EXCEPT !.pc = "running", !.ready = TRUE])

CheckRunning(t) ==
    /\ At(t, "running")
    /\ GoTo(t, IF workers[t].stop THEN "stopping" ELSE "reading")

NextFrame(t) ==
    /\ At(t, "reading")
    /\ GoTo(t, "running") \/ Fails(t)

StopReturns(t) == At(t, "stopping") /\ GoTo(t, "stopped")

Finish(t) ==
    /\ At(t, "failed") \/ At(t, "stopped")
    /\ Becomes(t, [workers[t] EXCEPT !.pc = "dropping", !.finished = TRUE])

\* The device is dropped behind the mailbox's back; nobody joins an abandoned thread.
DropReturns(t) ==
    /\ At(t, "dropping")
    /\ IF workers[t].abandoned THEN Becomes(t, NULL) ELSE GoTo(t, "exited")

CaptureThread(t) ==
    \/ OpenerReturns(t) \/ CheckOpened(t) \/ StartReturns(t) \/ CheckStarted(t)
    \/ CheckRunning(t) \/ NextFrame(t) \/ StopReturns(t) \/ Finish(t) \/ DropReturns(t)

Next == Renderer \/ \E t \in Threads : CaptureThread(t)

(***************************************************************************)
(* Scenes are rendered for ever, a wait of one second ends, a thread runs  *)
(* and the calls of the driver return.                                     *)
(***************************************************************************)
Fairness ==
    /\ WF_vars(Render \/ RenderOn)
    /\ WF_vars(ShutdownEnds \/ GiveUp \/ Join)
    /\ \A t \in Threads : WF_vars(CaptureThread(t))

Spec == Init /\ [][Next]_vars /\ Fairness

-----------------------------------------------------------------------------
(* Properties *)

Holds(t) == workers[t] # NULL /\ workers[t].pc # "exited"

(***************************************************************************)
(* No two threads of one source are in the driver, however often shutdown  *)
(* gave up on the old one ("must not start the replacement when this       *)
(* returns false", threaded.rs:182), and what a source that is not blocked *)
(* renders is captured with its current settings.                          *)
(***************************************************************************)
DeviceIsCurrent ==
    /\ \A t \in Threads : Holds(t) /\ ~workers[t].abandoned => t = device
    /\ waits \in {"idle", "tail"} /\ settings # NULL /\ ~shutdown_blocked
           => workers[device].settings = settings

(***************************************************************************)
(* A camera whose permission was refused is opened again by an update and  *)
(* never by the retries of render: "that is a dialog the user cannot       *)
(* escape" (factories.rs:443).                                             *)
(***************************************************************************)
DenialStands ==
    waits \in {"shutting", "joining"} /\ call \in {"render", "retry"}
        => workers[device].failure # "denied"

(***************************************************************************)
(* While drivers answer, a source in the format of the canvas is never     *)
(* given up: again and again its camera is open or being opened with its   *)
(* current settings, unless it is denied; and a thread that was walked     *)
(* away from ends.  A source in another format is not asked for: render    *)
(* returns before it looks at the camera (factories.rs:417).               *)
(***************************************************************************)
Trying ==
    /\ ~shutdown_blocked
    /\ workers[device].settings = settings
    /\ Holds(device) \/ retry_countdown = RetryFrames

CameraComesBack ==
    /\ []<>(settings # NULL /\ Fits => Trying \/ State(workers[device]) = "Denied")
    /\ \A t \in Threads :
           (workers[t] # NULL /\ workers[t].abandoned) ~> workers[t] = NULL

=============================================================================
