--------------------------- MODULE PreviewWorker ---------------------------
(***************************************************************************)
(* The studio window and the thread that renders its preview               *)
(* (obs-rs-gui/src/callbacks/mod.rs and preview_worker.rs).  Every 16 ms   *)
(* the window's tick reads the control room, may ask for a render and      *)
(* shows the newest result.  Requests and results go through one-place     *)
(* slots in which the newer replaces the older.  A request carries the     *)
(* project only while the revision the worker has applied is another one.  *)
(***************************************************************************)
EXTENDS PreviewRenderer

CONSTANT Gpus   \* whether a GPU may be found when a renderer is built: {TRUE}, {FALSE} or both

VARIABLES
    latest,            \* the request slot
    result,            \* the result slot
    applied_revision,  \* the revision the renderer has applied; 0 is none
    renderer,          \* the renderer, NULL while it could not be built
    request,           \* the request the worker is at
    step,              \* "start", "wait", "sync" or "render": where the worker is
    last_render_key,   \* what the last request of the window was made for
    preview_image,     \* the picture on screen
    failed             \* whether the last result shown was an error

workerVars == <<latest, result, applied_revision, renderer, request, step>>
windowVars == <<last_render_key, preview_image, failed>>
vars == <<roomVars, workerVars, windowVars>>

Init ==
    /\ RoomInit
    /\ latest = NULL /\ result = NULL
    /\ request = [project |-> document, revision |-> revision]
    /\ applied_revision = 0
    /\ renderer = NULL
    /\ step = "start"
    /\ last_render_key = NULL
    /\ preview_image = NULL
    /\ failed = FALSE

-----------------------------------------------------------------------------
(* The window *)

RenderKey == <<revision, preview_scene, program_scene, active_transition>>

WithProjectOnce ==
    /\ applied_revision # revision
    /\ last_render_key = NULL \/ last_render_key[1] # revision

\* The project goes with every request until the worker reports its revision.
WithProject == applied_revision # revision

StaticOnly == IsStatic(document, preview_scene) /\ active_transition = NULL

Request(poll_only) ==
    [project |-> IF WithProject THEN document ELSE NULL, revision |-> revision,
     preview_scene |-> preview_scene, poll_only |-> poll_only]

\* refresh_preview_frames_for_view: takes the result and shows its frame.
\* A result without one clears the picture only when no scene was asked for.
ShowResult ==
    /\ result' = NULL
    /\ IF result = NULL THEN UNCHANGED <<preview_image, failed>>
       ELSE /\ preview_image' = IF result.frame # NULL \/ result.preview_scene = NULL
                                THEN result.frame ELSE preview_image
            /\ failed' = result.failed

\* A tick before the interval of the last request is over.
TickEarly ==
    /\ result # NULL
    /\ ShowResult
    /\ UNCHANGED <<roomVars, latest, applied_revision, renderer, request, step,
                   last_render_key>>

\* A tick that asks for a render or, when a still picture has been asked for
\* already, polls for it.  The request replaces one the worker has not taken.
Tick ==
    /\ latest' = Request(StaticOnly /\ last_render_key = RenderKey)
    /\ last_render_key' = RenderKey
    /\ ShowResult
    /\ UNCHANGED <<roomVars, applied_revision, renderer, request, step>>

TickSeesFrame ==
    /\ result # NULL
    /\ result.frame # NULL
    /\ Tick

\* transition_snapshot retires a transition whose time is over.
TransitionEnds ==
    /\ active_transition # NULL
    /\ active_transition' = NULL
    /\ UNCHANGED <<document, revision, preview_scene, program_scene, commands,
                   workerVars, windowVars>>

Command == RoomNext /\ UNCHANGED <<workerVars, windowVars>>

-----------------------------------------------------------------------------
(* The worker *)

\* publish_result: an untaken result is replaced.
Publish(scene, frame, error) ==
    result' = [preview_scene |-> scene, frame |-> frame, failed |-> error]

SyncFailed ==
    /\ Publish(NULL, NULL, TRUE)
    /\ step' = "wait"
    /\ request' = NULL
    /\ UNCHANGED applied_revision

\* PreviewRenderer::new, with or without a GPU.
Build(d, rev) ==
    \E gpu \in Gpus :
        /\ CanSync(EmptyRenderer(d, gpu), d)
        /\ renderer' = Applied(EmptyRenderer(d, gpu), d)
        /\ applied_revision' = rev

\* There is no renderer, or every source has to adapt to another canvas.
Rebuilds(d) == IF renderer = NULL THEN TRUE ELSE renderer.canvas # d.canvas

Needed == request.revision # applied_revision

BuildFails(d) == ~CanSync(EmptyRenderer(d, FALSE), d)

\* The thread starts with the project the window opened with.
Start ==
    /\ step = "start"
    /\ step' = "wait"
    /\ request' = NULL
    /\ \/ Build(request.project, request.revision)
       \/ BuildFails(request.project) /\ UNCHANGED <<renderer, applied_revision>>
    /\ UNCHANGED <<roomVars, windowVars, latest, result>>

\* wait_for_request.
TakeRequest ==
    /\ step = "wait"
    /\ latest # NULL
    /\ request' = latest
    /\ latest' = NULL
    /\ step' = IF latest.project = NULL THEN "render" ELSE "sync"
    /\ UNCHANGED <<roomVars, windowVars, result, applied_revision, renderer>>

\* sync_project, or the renderer built anew where there is none.  A revision
\* that is applied already, by an earlier request, needs no sync.
SyncProject ==
    /\ step = "sync"
    /\ LET d == request.project IN
       \/ /\ request.revision = applied_revision
          /\ step' = "render"
          /\ UNCHANGED <<request, result, renderer, applied_revision>>
       \/ /\ Needed /\ Rebuilds(d)
          /\ Build(d, request.revision)
          /\ step' = "render"
          /\ UNCHANGED <<request, result>>
       \/ /\ Needed /\ Rebuilds(d)
          /\ BuildFails(d)
          /\ SyncFailed
          /\ UNCHANGED renderer
       \/ /\ Needed /\ ~Rebuilds(d)
          /\ CanSync(renderer, d)
          /\ renderer' = Applied(renderer, d)
          /\ applied_revision' = request.revision
          /\ step' = "render"
          /\ UNCHANGED <<request, result>>
       \/ /\ Needed /\ ~Rebuilds(d)
          /\ ~CanSync(renderer, d)
          /\ \E runtime \in LeftByFailure(renderer, d) :
                 renderer' = [renderer EXCEPT !.runtime = runtime]
          /\ SyncFailed
    /\ UNCHANGED <<roomVars, windowVars, latest>>

\* render_request for the Preview view.  Without a GPU no frame is an error.
RenderRequest ==
    /\ step = "render"
    /\ step' = "wait"
    /\ request' = NULL
    /\ LET scene == request.preview_scene
           frame == IF request.poll_only THEN PolledFrame(renderer)
                    ELSE RenderedFrame(renderer, scene)
       IN  /\ renderer' = IF request.poll_only THEN AfterPoll(renderer)
                          ELSE AfterRender(renderer, scene)
           /\ Publish(scene, frame, frame = NULL /\ scene # NULL /\ ~renderer.gpu)
    /\ UNCHANGED <<roomVars, windowVars, latest, applied_revision>>

\* A composition the GPU refuses is an error, and the processor takes over.
GpuFails ==
    /\ step = "render"
    /\ renderer.gpu
    /\ ~request.poll_only
    /\ request.preview_scene \notin DOMAIN renderer.cache \cup {NULL}
    /\ renderer.visible[request.preview_scene] # {}
    /\ renderer' = [renderer EXCEPT !.gpu = FALSE, !.in_flight = NULL, !.completed = NULL]
    /\ Publish(request.preview_scene, NULL, TRUE)
    /\ step' = "wait"
    /\ request' = NULL
    /\ UNCHANGED <<roomVars, windowVars, latest, applied_revision>>

\* The GPU finishes the copy in flight.
CopyArrives ==
    /\ renderer # NULL
    /\ renderer.in_flight # NULL
    /\ ~renderer.in_flight.arrived
    /\ renderer' = [renderer EXCEPT !.in_flight.arrived = TRUE]
    /\ UNCHANGED <<roomVars, windowVars, latest, result, applied_revision, request, step>>

Worker == Start \/ TakeRequest \/ SyncProject \/ RenderRequest \/ GpuFails

Next == Command \/ TransitionEnds \/ TickEarly \/ Tick \/ Worker \/ CopyArrives

(***************************************************************************)
(* The timer fires for ever, the worker is a running thread, the GPU       *)
(* completes what was submitted, and a transition's time passes.  The      *)
(* timer fires twice as often as renders are asked for, so the worker does *)
(* not for ever replace every result with a picture before a tick sees it. *)
(***************************************************************************)
Fairness ==
    /\ WF_vars(Tick)
    /\ SF_vars(TickSeesFrame)
    /\ WF_vars(Worker)
    /\ WF_vars(CopyArrives)
    /\ WF_vars(TransitionEnds)

Spec == Init /\ [][Next]_vars /\ Fairness

-----------------------------------------------------------------------------
(* Properties *)

(***************************************************************************)
(* What the worker renders for the current revision is the current         *)
(* project: whichever requests were replaced, and however far an earlier   *)
(* sync got, the instances behind every scene run on its settings.         *)
(***************************************************************************)
RendersCurrentProject ==
    step = "render" /\ request.revision = revision
        => renderer # NULL /\ Mirrors(renderer, document)

(***************************************************************************)
(* When the user leaves a live scene in Preview alone, the screen comes to *)
(* show it with the settings of the current project, or reports an error:  *)
(* no lost request, late copy or dropped result leaves an old picture up   *)
(* for good.                                                               *)
(***************************************************************************)
Live == preview_scene # NULL
            /\ \E s \in document.visible[preview_scene] :
                   document.sources[s].kind # "color_source"

Shows(scene) == preview_image = Picture(document, scene)

PreviewCatchesUp ==
    <>[][UNCHANGED roomVars]_roomVars /\ <>[]Live
        => <>[](Live => Shows(preview_scene) \/ failed)

=============================================================================
