------------------------ MODULE PreviewWorker_proofs ------------------------
(***************************************************************************)
(* Proofs about PreviewWorker, for every set of documents and any number   *)
(* of commands: what is on view is in the document, and the worker renders *)
(* a revision only with the project of that revision applied.              *)
(***************************************************************************)
EXTENDS PreviewWorker, WellFoundedInduction, TLAPS

-----------------------------------------------------------------------------
(* The selections *)

RoomInv == document \in Documents /\ SelectionsHold

\* What a selection may be in a document.
OnView(scene, d) ==
    IF d.scenes = <<>> THEN scene = NULL ELSE scene \in SceneIds(d)

LEMMA EmptyHasNoScenes ==
    ASSUME NEW d \in Documents
    PROVE  d.scenes = <<>> <=> SceneIds(d) = {}
<1>1. d.scenes \in Seq(ToSet(d.scenes))
  BY DocumentsAssumption
<1>2. d.scenes # <<>> => Head(d.scenes) \in SceneIds(d)
  BY <1>1 DEF SceneIds, ToSet
<1>3. d.scenes = <<>> => SceneIds(d) = {}
  BY DEF SceneIds, ToSet
<1> QED
  BY <1>2, <1>3

LEMMA ExistingIsOnView ==
    ASSUME NEW d \in Documents, NEW scene
    PROVE  OnView(Existing(scene, d), d)
<1>1. d.scenes \in Seq(ToSet(d.scenes))
  BY DocumentsAssumption
<1>2. CASE d.scenes = <<>>
  <2>1. SceneIds(d) = {}
    BY <1>2, EmptyHasNoScenes
  <2> QED
    BY <1>2, <2>1 DEF OnView, Existing, FirstScene
<1>3. CASE d.scenes # <<>>
  <2>1. Head(d.scenes) \in SceneIds(d)
    BY <1>1, <1>3 DEF SceneIds, ToSet
  <2> QED
    BY <1>3, <2>1 DEF OnView, Existing, FirstScene
<1> QED
  BY <1>2, <1>3

\* A running transition ends in Program and starts from another scene.
TransitionHolds(d, program, transition) ==
    transition # NULL =>
        /\ transition.destination = program
        /\ transition.source \in SceneIds(d) \ {program}

LEMMA SelectionsAre ==
    SelectionsHold <=>
        /\ OnView(preview_scene, document) /\ OnView(program_scene, document)
        /\ TransitionHolds(document, program_scene, active_transition)
  BY DEF SelectionsHold, OnView, TransitionHolds

LEMMA CommandKeepsRoom ==
    ASSUME RoomInv, RoomNext
    PROVE  RoomInv'
<1> DEFINE Goal == /\ document' \in Documents
                   /\ OnView(preview_scene', document') /\ OnView(program_scene', document')
                   /\ TransitionHolds(document', program_scene', active_transition')
<1> SUFFICES Goal
  BY DEF RoomInv, SelectionsHold, OnView, TransitionHolds
<1>0. /\ document \in Documents
      /\ OnView(preview_scene, document) /\ OnView(program_scene, document)
      /\ TransitionHolds(document, program_scene, active_transition)
  BY SelectionsAre DEF RoomInv
<1>1. ASSUME document' \in Documents, Reconciled \/ Restored
      PROVE  OnView(preview_scene', document') /\ OnView(program_scene', document')
  BY <1>1, ExistingIsOnView DEF Reconciled, Restored
<1>2. active_transition' = NULL => TransitionHolds(document', program_scene', active_transition')
  BY DEF TransitionHolds
<1>3. ASSUME NEW d \in Documents, ChangeDocument(d) \/ LoadProject(d)
      PROVE  Goal
  BY <1>1, <1>2, <1>3 DEF ChangeDocument, LoadProject
<1>4. ASSUME NEW d \in Documents, PasteSource(d)
      PROVE  Goal
  <2>1. document' = d /\ SceneIds(d) = SceneIds(document) /\ d.scenes = document.scenes
    BY <1>4 DEF PasteSource, SceneIds
  <2>2. OnView(preview_scene', document') /\ OnView(program_scene', document')
    BY <1>1, <1>4, <2>1 DEF PasteSource
  <2>3. program_scene' = program_scene \/ document.scenes = <<>>
    BY <1>0, <1>4, <2>1 DEF PasteSource, Reconciled, Existing, OnView
  <2>4. document.scenes = <<>> => SceneIds(document) = {}
    BY <1>0, EmptyHasNoScenes
  <2>5. active_transition' = active_transition
    BY <1>4 DEF PasteSource
  <2> QED
    BY <1>0, <2>1, <2>2, <2>3, <2>4, <2>5 DEF TransitionHolds
<1>5. ASSUME NEW scene \in AllScenes, SelectPreviewScene(scene) \/ SelectProgramScene(scene)
      PROVE  Goal
  <2>1. document.scenes # <<>>
    BY <1>0, <1>5, EmptyHasNoScenes DEF SelectPreviewScene, SelectProgramScene
  <2> QED
    BY <1>0, <1>2, <1>5, <2>1 DEF SelectPreviewScene, SelectProgramScene, OnView
<1>6. CASE SwapPreviewProgram
  BY <1>0, <1>2, <1>6 DEF SwapPreviewProgram, OnView
<1>7. ASSUME NEW cut \in BOOLEAN, TakePreview(cut)
      PROVE  Goal
  <2>1. document' = document /\ preview_scene' = preview_scene /\ program_scene' = preview_scene
    BY <1>7 DEF TakePreview
  <2>2. program_scene # NULL => program_scene \in SceneIds(document)
    BY <1>0 DEF OnView
  <2>3. TransitionHolds(document, preview_scene, active_transition')
    BY <1>7, <2>2 DEF TakePreview, TransitionHolds
  <2> QED
    BY <1>0, <2>1, <2>3
<1> QED
  BY <1>3, <1>4, <1>5, <1>6, <1>7 DEF RoomNext

LEMMA RoomStays ==
    ASSUME RoomInv, UNCHANGED <<document, preview_scene, program_scene>>,
           active_transition' \in {NULL, active_transition}
    PROVE  RoomInv'
  BY DEF RoomInv, SelectionsHold

(* The scenes on view are scenes of the document, whatever commands move them
   or the document, and a running transition ends in Program. *)
THEOREM SelectionsStay == Spec => []SelectionsHold
<1>1. Init => RoomInv
  <2> SUFFICES ASSUME Init PROVE RoomInv
    OBVIOUS
  <2>1. document \in Documents /\ active_transition = NULL
    BY DEF Init, RoomInit
  <2>2. OnView(preview_scene, document) /\ OnView(program_scene, document)
    BY <2>1, ExistingIsOnView DEF Init, RoomInit
  <2> QED
    BY <2>1, <2>2, SelectionsAre DEF RoomInv, TransitionHolds
<1>2. RoomInv /\ [Next]_vars => RoomInv'
  <2> SUFFICES ASSUME RoomInv, [Next]_vars PROVE RoomInv'
    OBVIOUS
  <2>1. CASE Command
    BY <2>1, CommandKeepsRoom DEF Command
  <2>2. CASE TransitionEnds
    BY <2>2, RoomStays DEF TransitionEnds
  <2>3. CASE UNCHANGED roomVars
    BY <2>3, RoomStays DEF roomVars
  <2>4. TickEarly \/ Tick \/ Worker \/ CopyArrives => UNCHANGED roomVars
    BY DEF TickEarly, Tick, Worker, CopyArrives, Start, TakeRequest, SyncProject,
           RenderRequest, GpuFails
  <2>5. UNCHANGED vars => UNCHANGED roomVars
    BY DEF vars
  <2> QED
    BY <2>1, <2>2, <2>3, <2>4, <2>5 DEF Next
<1>3. RoomInv => SelectionsHold
  BY DEF RoomInv
<1> QED
  BY <1>1, <1>2, <1>3, PTL DEF Spec
-----------------------------------------------------------------------------
(* The applied project *)

RendererFields ==
    {"runtime", "applied", "canvas", "visible", "still", "cache", "gpu", "in_flight", "completed"}

\* There is a renderer, and it has applied this document.
HasApplied(r, d) ==
    /\ DOMAIN r = RendererFields
    /\ r.applied = d.sources
    /\ r.visible = d.visible

\* Only a worker that has applied nothing yet may be without a renderer.
RendererOK ==
    /\ renderer # NULL => DOMAIN renderer = RendererFields
    /\ applied_revision # 0 => DOMAIN renderer = RendererFields

\* A request is no older than what is applied, and carries the project unless
\* the worker had reported its revision.
RequestOK(req) ==
    /\ req.revision \in Nat \ {0}
    /\ applied_revision <= req.revision
    /\ req.revision <= revision
    /\ req.project # NULL /\ req.revision = revision => req.project = document
    /\ req.project = NULL => applied_revision = req.revision

AppliedInv ==
    /\ revision \in Nat \ {0}
    /\ applied_revision \in Nat
    /\ applied_revision <= revision
    /\ document \in Documents
    /\ RendererOK
    /\ applied_revision = revision => HasApplied(renderer, document)
    /\ latest # NULL => RequestOK(latest)
    /\ step # "wait" => RequestOK(request)
    /\ step # "wait" /\ latest # NULL => request.revision <= latest.revision
    /\ step \in {"start", "sync"} => request.project # NULL
    /\ step = "render" => applied_revision = request.revision

(* What the worker draws for the current revision, it draws with the sources
   and the scenes of the current document applied. *)
AppliedIsCurrent ==
    step = "render" /\ request.revision = revision => HasApplied(renderer, document)

-----------------------------------------------------------------------------
(* What becomes of the applied project in the renderer's operations *)

SameProject(r, s) ==
    DOMAIN r = RendererFields =>
        /\ DOMAIN s = RendererFields
        /\ s.applied = r.applied
        /\ s.visible = r.visible
        /\ s.runtime = r.runtime

LEMMA AppliedIsApplied ==
    ASSUME NEW r, DOMAIN r = RendererFields, NEW d
    PROVE  HasApplied(Applied(r, d), d)
  BY DEF Applied, HasApplied, RendererFields

LEMMA EmptyHasFields ==
    ASSUME NEW d, NEW gpu
    PROVE  DOMAIN EmptyRenderer(d, gpu) = RendererFields
  BY DEF EmptyRenderer, RendererFields

LEMMA FailingKeeps ==
    ASSUME NEW r, NEW runtime
    PROVE  DOMAIN r = RendererFields =>
               /\ DOMAIN [r EXCEPT !.runtime = runtime] = RendererFields
               /\ [r EXCEPT !.runtime = runtime].applied = r.applied
               /\ [r EXCEPT !.runtime = runtime].visible = r.visible
               /\ [r EXCEPT !.runtime = runtime].runtime = runtime
  BY DEF RendererFields

LEMMA PolledKeeps ==
    ASSUME NEW r
    PROVE  SameProject(r, Polled(r))
  BY DEF SameProject, Polled, RendererFields

LEMMA AfterPollKeeps ==
    ASSUME NEW r
    PROVE  SameProject(r, AfterPoll(r))
<1> DEFINE polled == Polled(r)
<1>1. SameProject(r, polled)
  BY PolledKeeps
<1> HIDE DEF polled
<1>2. SameProject(polled, [polled EXCEPT !.completed = NULL])
  BY DEF SameProject, RendererFields
<1> QED
  BY <1>1, <1>2 DEF AfterPoll, SameProject, polled

LEMMA AfterRenderKeeps ==
    ASSUME NEW r, NEW scene
    PROVE  SameProject(r, AfterRender(r, scene))
<1> DEFINE polled == Polled(r)
           presented == Presented(r, Look(r, scene))
           drawn == IF r.gpu THEN presented ELSE r
           frame == RenderedFrame(r, scene)
<1>1. SameProject(r, polled)
  BY PolledKeeps
<1>2. \A x : SameProject(polled, [polled EXCEPT !.completed = NULL, !.in_flight = x])
  <2> HIDE DEF polled
  <2> QED
    BY DEF SameProject, RendererFields
<1>3. SameProject(r, presented)
  <2>1. \E x : presented = [polled EXCEPT !.completed = NULL, !.in_flight = x]
    BY DEF Presented
  <2> HIDE DEF polled, presented
  <2> QED
    BY <1>1, <1>2, <2>1 DEF SameProject
<1>4. SameProject(r, drawn)
  BY <1>3 DEF SameProject
<1> HIDE DEF drawn, frame
<1>5. SameProject(drawn, Cached(drawn, scene, frame))
  BY DEF SameProject, Cached, RendererFields
<1>6. AfterRender(r, scene) \in {r, Cached(drawn, scene, frame)}
  BY DEF AfterRender, drawn, frame
<1>7. SameProject(r, r)
  BY DEF SameProject
<1> HIDE DEF presented, polled
<1> QED
  BY <1>4, <1>5, <1>6, <1>7 DEF SameProject

-----------------------------------------------------------------------------
(* Every step keeps the invariant *)

\* Nothing of the worker moved, and the document only with its revision.
LEMMA CommandKeepsApplied ==
    ASSUME AppliedInv, UNCHANGED workerVars,
           \/ revision' = revision + 1 /\ document' \in Documents
           \/ UNCHANGED <<revision, document>>
    PROVE  AppliedInv'
<1>1. UNCHANGED <<latest, result, applied_revision, renderer, request, step>>
  BY DEF workerVars
<1>2. CASE UNCHANGED <<revision, document>>
  BY <1>1, <1>2 DEF AppliedInv, RendererOK, RequestOK, HasApplied
<1>3. CASE revision' = revision + 1 /\ document' \in Documents
  <2>1. \A req : RequestOK(req) => RequestOK(req)'
    BY <1>1, <1>3 DEF AppliedInv, RequestOK
  <2>2. applied_revision' # revision'
    BY <1>1, <1>3 DEF AppliedInv
  <2> QED
    BY <1>1, <1>3, <2>1, <2>2 DEF AppliedInv, RendererOK
<1> QED
  BY <1>2, <1>3

LEMMA RoomMoves ==
    ASSUME AppliedInv, RoomNext
    PROVE  \/ revision' = revision + 1 /\ document' \in Documents
           \/ UNCHANGED <<revision, document>>
  BY DEF AppliedInv, RoomNext, ChangeDocument, PasteSource, LoadProject, BumpRevision,
         SelectPreviewScene, SelectProgramScene, SwapPreviewProgram, TakePreview

(* A tick asks for the current revision. *)
LEMMA TickKeepsApplied ==
    ASSUME AppliedInv, Tick
    PROVE  AppliedInv'
<1>1. UNCHANGED <<document, revision, applied_revision, renderer, request, step>>
  BY DEF Tick, roomVars
<1>2. /\ latest'.revision = revision
      /\ latest'.project = IF WithProject THEN document ELSE NULL
  BY DEF Tick, Request
<1>3. document # NULL
  BY DocumentsAssumption DEF AppliedInv
<1>4. RequestOK(latest)'
  <2>1. /\ revision \in Nat \ {0} /\ applied_revision \in Nat /\ applied_revision <= revision
        /\ revision' = revision /\ applied_revision' = applied_revision /\ document' = document
    BY <1>1 DEF AppliedInv
  <2>2. CASE WithProject
    BY <1>2, <2>1, <2>2, <1>3 DEF RequestOK
  <2>3. CASE ~WithProject
    BY <1>2, <2>1, <2>3 DEF RequestOK, WithProject
  <2> QED
    BY <2>2, <2>3
<1>5. RequestOK(request) => RequestOK(request)' /\ request.revision <= latest'.revision
  BY <1>1, <1>2 DEF RequestOK
<1> QED
  BY <1>1, <1>4, <1>5 DEF AppliedInv, RendererOK, HasApplied

(* The worker moves on with a renderer that has applied what the old one had. *)
LEMMA DrawingKeepsApplied ==
    ASSUME AppliedInv, UNCHANGED <<document, revision, latest, applied_revision>>,
           applied_revision # 0, SameProject(renderer, renderer'),
           \/ step' = "wait"
           \/ UNCHANGED <<request, step>>
    PROVE  AppliedInv'
<1>1. \A req : RequestOK(req) => RequestOK(req)'
  BY DEF RequestOK
<1>2. RendererOK'
  BY DEF AppliedInv, RendererOK, SameProject
<1>3. applied_revision' = revision' => HasApplied(renderer', document')
  BY DEF AppliedInv, RendererOK, SameProject, HasApplied
<1> QED
  BY <1>1, <1>2, <1>3 DEF AppliedInv

(* A document applied whole is applied at the revision of its request. *)
LEMMA ApplyingKeepsApplied ==
    ASSUME AppliedInv, UNCHANGED <<document, revision, latest>>,
           step \in {"start", "sync"},
           HasApplied(renderer', request.project), applied_revision' = request.revision,
           \/ step' = "wait"
           \/ step' = "render" /\ request' = request
    PROVE  AppliedInv'
<1>1. latest # NULL => RequestOK(latest) /\ request.revision <= latest.revision
  BY DEF AppliedInv
<1>2. RequestOK(request) /\ request.project # NULL
  BY DEF AppliedInv
<1>3. latest # NULL => RequestOK(latest)'
  BY <1>1, <1>2 DEF AppliedInv, RequestOK
<1>4. step' = "render" => RequestOK(request)' /\ request' = request
  BY <1>2 DEF AppliedInv, RequestOK
<1>5. applied_revision' = revision' => HasApplied(renderer', document')
  BY <1>1, <1>2 DEF AppliedInv, RequestOK
<1>6. RendererOK'
  BY DEF RendererOK, HasApplied
<1>7. applied_revision' \in Nat /\ applied_revision' <= revision'
  BY <1>2 DEF RequestOK
<1> QED
  BY <1>1, <1>3, <1>4, <1>5, <1>6, <1>7 DEF AppliedInv

LEMMA WorkerKeepsApplied ==
    ASSUME AppliedInv, Worker \/ CopyArrives
    PROVE  AppliedInv'
<1>0. \A d, gpu : HasApplied(Applied(EmptyRenderer(d, gpu), d), d)
  BY EmptyHasFields, AppliedIsApplied
<1>1. \A d, rev : Build(d, rev) => HasApplied(renderer', d) /\ applied_revision' = rev
  BY <1>0 DEF Build
<1>2. CASE Start
  <2>1. UNCHANGED <<document, revision, latest>> /\ step = "start" /\ step' = "wait"
    BY <1>2 DEF Start, roomVars
  <2>2. CASE Build(request.project, request.revision)
    <3>1. HasApplied(renderer', request.project) /\ applied_revision' = request.revision
      BY <1>1, <2>2
    <3> QED
      BY <2>1, <3>1, ApplyingKeepsApplied
  <2>3. CASE UNCHANGED <<renderer, applied_revision>>
    BY <2>1, <2>3 DEF AppliedInv, RendererOK, RequestOK
  <2> QED
    BY <1>2, <2>2, <2>3 DEF Start
<1>3. CASE TakeRequest
  BY <1>3 DEF TakeRequest, roomVars, AppliedInv, RendererOK, RequestOK
<1>4. CASE SyncProject
  <2> DEFINE d == request.project
  <2>1. UNCHANGED <<document, revision, latest>> /\ step = "sync"
    BY <1>4 DEF SyncProject, roomVars
  <2>2. CASE Build(d, request.revision) /\ step' = "render" /\ UNCHANGED <<request, result>>
    <3>1. HasApplied(renderer', d) /\ applied_revision' = request.revision
      BY <1>1, <2>2
    <3> QED
      BY <2>1, <2>2, <3>1, ApplyingKeepsApplied
  <2>3. CASE SyncFailed /\ UNCHANGED renderer
    <3>1. step' = "wait" /\ UNCHANGED applied_revision
      BY <2>3 DEF SyncFailed
    <3> QED
      BY <2>1, <2>3, <3>1 DEF AppliedInv, RendererOK, RequestOK
  <2>4. CASE /\ ~Rebuilds(d)
             /\ renderer' = Applied(renderer, d)
             /\ applied_revision' = request.revision
             /\ step' = "render"
             /\ UNCHANGED <<request, result>>
    <3>1. DOMAIN renderer = RendererFields
      BY <2>4 DEF Rebuilds, AppliedInv, RendererOK
    <3>2. HasApplied(Applied(renderer, d), d)
      BY <3>1, AppliedIsApplied
    <3> QED
      BY <2>1, <2>4, <3>2, ApplyingKeepsApplied
  <2>5. CASE /\ ~Rebuilds(d)
             /\ \E runtime \in LeftByFailure(renderer, d) :
                    renderer' = [renderer EXCEPT !.runtime = runtime]
             /\ SyncFailed
    <3>1. step' = "wait" /\ UNCHANGED applied_revision
      BY <2>5 DEF SyncFailed
    <3>2. DOMAIN renderer = RendererFields
      BY <2>5 DEF Rebuilds, AppliedInv, RendererOK
    <3>3. DOMAIN renderer' = RendererFields /\ renderer'.applied = renderer.applied
          /\ renderer'.visible = renderer.visible
      BY <2>5, <3>2, FailingKeeps
    <3>4. RendererOK' /\ (applied_revision' = revision' => HasApplied(renderer', document'))
      BY <2>1, <3>1, <3>2, <3>3 DEF AppliedInv, RendererOK, HasApplied
    <3> QED
      BY <2>1, <3>1, <3>4 DEF AppliedInv, RequestOK
  <2>6. CASE /\ request.revision = applied_revision
             /\ step' = "render"
             /\ UNCHANGED <<request, result, renderer, applied_revision>>
    BY <2>1, <2>6 DEF AppliedInv, RendererOK, RequestOK
  <2> QED
    BY <1>4, <2>2, <2>3, <2>4, <2>5, <2>6 DEF SyncProject
<1>5. CASE RenderRequest
  <2>1. UNCHANGED <<document, revision, latest, applied_revision>> /\ step' = "wait" /\ step = "render"
    BY <1>5 DEF RenderRequest, roomVars
  <2>2. applied_revision # 0
    BY <2>1 DEF AppliedInv, RequestOK
  <2>3. SameProject(renderer, renderer')
    <3>1. renderer' \in {AfterPoll(renderer), AfterRender(renderer, request.preview_scene)}
      BY <1>5 DEF RenderRequest
    <3> QED
      BY <3>1, AfterPollKeeps, AfterRenderKeeps
  <2> QED
    BY <2>1, <2>2, <2>3, DrawingKeepsApplied
<1>6. CASE GpuFails
  <2>1. UNCHANGED <<document, revision, latest, applied_revision>> /\ step' = "wait" /\ step = "render"
    BY <1>6 DEF GpuFails, roomVars
  <2>2. applied_revision # 0
    BY <2>1 DEF AppliedInv, RequestOK
  <2>3. renderer' = [renderer EXCEPT !.gpu = FALSE, !.in_flight = NULL, !.completed = NULL]
    BY <1>6 DEF GpuFails
  <2>4. SameProject(renderer, renderer')
    BY <2>3 DEF SameProject, RendererFields
  <2> QED
    BY <2>1, <2>2, <2>4, DrawingKeepsApplied
<1>7. CASE CopyArrives
  <2>1. /\ UNCHANGED <<document, revision, latest, applied_revision, request, step>>
        /\ renderer # NULL
        /\ renderer' = [renderer EXCEPT !.in_flight.arrived = TRUE]
    BY <1>7 DEF CopyArrives, roomVars
  <2>2. SameProject(renderer, renderer')
    BY <2>1 DEF SameProject, RendererFields
  <2>3. DOMAIN renderer' = RendererFields
    BY <2>1, <2>2 DEF SameProject, AppliedInv, RendererOK
  <2>4. RendererOK' /\ (applied_revision' = revision' => HasApplied(renderer', document'))
    BY <2>1, <2>2, <2>3 DEF AppliedInv, RendererOK, SameProject, HasApplied
  <2> QED
    BY <2>1, <2>4 DEF AppliedInv, RequestOK
<1> QED
  BY <1>2, <1>3, <1>4, <1>5, <1>6, <1>7 DEF Worker

LEMMA InitApplied == Init => AppliedInv
<1> SUFFICES ASSUME Init PROVE AppliedInv
  OBVIOUS
<1>1. /\ revision = 1 /\ applied_revision = 0 /\ document \in Documents
      /\ latest = NULL /\ renderer = NULL /\ step = "start"
      /\ request = [project |-> document, revision |-> revision]
  BY DEF Init, RoomInit
<1>2. document # NULL
  BY <1>1, DocumentsAssumption
<1>3. RequestOK(request) /\ request.project # NULL
  BY <1>1, <1>2 DEF RequestOK
<1> QED
  BY <1>1, <1>3 DEF AppliedInv, RendererOK

LEMMA NextKeepsApplied == AppliedInv /\ [Next]_vars => AppliedInv'
<1> SUFFICES ASSUME AppliedInv, [Next]_vars PROVE AppliedInv'
  OBVIOUS
<1>1. CASE Command
  <2>1. UNCHANGED workerVars /\ RoomNext
    BY <1>1 DEF Command
  <2> QED
    BY <2>1, RoomMoves, CommandKeepsApplied
<1>2. CASE TransitionEnds \/ TickEarly \/ UNCHANGED vars
  <2>1. /\ UNCHANGED <<document, revision>>
        /\ UNCHANGED <<latest, applied_revision, renderer, request, step>>
    BY <1>2 DEF TransitionEnds, TickEarly, vars, roomVars, workerVars
  <2> QED
    BY <2>1 DEF AppliedInv, RendererOK, RequestOK, HasApplied
<1>3. CASE Tick
  BY <1>3, TickKeepsApplied
<1>4. CASE Worker \/ CopyArrives
  BY <1>4, WorkerKeepsApplied
<1> QED
  BY <1>1, <1>2, <1>3, <1>4 DEF Next

(* However many requests were replaced and however many syncs failed, the
   worker draws a scene for the current revision only with the sources and the
   scenes of the current document applied. *)
THEOREM RendersAppliedProject == Spec => []AppliedIsCurrent
<1>1. AppliedInv => AppliedIsCurrent
  BY DEF AppliedInv, AppliedIsCurrent
<1> QED
  BY <1>1, InitApplied, NextKeepsApplied, PTL DEF Spec
-----------------------------------------------------------------------------
(***************************************************************************)
(* The running instances.  An instance runs on settings that some document *)
(* gives its source, or it is gone after a change of its kind failed.      *)
(* Where no source may be refused, no sync fails, and only the instance of *)
(* a source that some document hides runs on other settings than the ones  *)
(* last applied.                                                           *)
(***************************************************************************)
Refusals == \E d \in Documents : \E s \in Shown(d) : d.sources[s].settings = Refused

Hides(s) == \E d \in Documents : s \in DOMAIN d.sources \ Shown(d)

Defines(d, s, value) == s \in DOMAIN d.sources /\ d.sources[s] = value

\* A source that some edit changes, and that may be hidden at the time or
\* synced by an attempt that fails after it.
Strays(s) ==
    /\ \E c, d \in Documents : \E v, w : Defines(c, s, v) /\ Defines(d, s, w) /\ v # w
    /\ Refusals \/ Hides(s)

InstanceOK(r, s) ==
    /\ r.runtime[s] = Gone \/ \E d \in Documents : Defines(d, s, r.runtime[s])
    /\ Refusals \/ /\ s \in DOMAIN r.applied
                   /\ r.runtime[s] # Gone
                   /\ r.runtime[s] = r.applied[s] \/ Hides(s)

RuntimeOK(r) == \A s \in DOMAIN r.runtime : InstanceOK(r, s)

InLine(r, d) ==
    \A s \in Shown(d) :
        /\ s \in DOMAIN r.runtime
        /\ r.runtime[s] # Gone
        /\ r.runtime[s] = d.sources[s] \/ Strays(s)

RuntimeInv ==
    /\ renderer # NULL \/ applied_revision # 0 => RuntimeOK(renderer)
    /\ applied_revision = revision => InLine(renderer, document)
    /\ latest # NULL => latest.project \in Documents \cup {NULL}
    /\ step # "wait" => request.project \in Documents \cup {NULL}

(* What the worker draws for the current revision, it draws with every source
   that any scene shows running, and on the current settings unless it strays. *)
OnlyStraysDiffer ==
    step = "render" /\ request.revision = revision => InLine(renderer, document)

(* Every non-empty set of numbers has a least one. *)
LEMMA LeastNumber ==
    ASSUME NEW T, T \subseteq Nat, T # {}
    PROVE  \E x \in T : \A y \in T : x <= y
<1> DEFINE R == {ss \in Nat \X Nat : ss[1] < ss[2]}
<1>1. IsWellFoundedOn(R, Nat)
  BY NatLessThanWellFounded, Zenon DEF OpToRel
<1>2. PICK x \in T : \A y \in T : ~(<<y, x>> \in R)
  <2> HIDE DEF R
  <2> QED
    BY <1>1, WFMin, Zenon
<1>3. ASSUME NEW y \in T, y < x PROVE FALSE
  <2>1. <<y, x>> \in R
    BY <1>3
  <2> QED
    BY <1>2, <2>1
<1> QED
  BY <1>2, <1>3

LEMMA EmptyIsOK ==
    ASSUME NEW d, NEW gpu
    PROVE  RuntimeOK(EmptyRenderer(d, gpu))
  BY DEF RuntimeOK, EmptyRenderer

LEMMA ShownAreDefined ==
    ASSUME NEW d \in Documents
    PROVE  /\ Shown(d) \subseteq DOMAIN d.sources
           /\ Shown(d) \subseteq Nat
           /\ \A s \in DOMAIN d.sources : d.sources[s] # Gone
  BY SourcesAssumption

(* Where nothing fails, no source shown fails. *)
LEMMA NothingFails ==
    ASSUME NEW r, NEW d \in Documents, FirstFailing(r, d) = {}
    PROVE  \A s \in Shown(d) : ~Fails(r, d, s)
<1> DEFINE T == {t \in Shown(d) : Fails(r, d, t)}
<1>1. CASE T # {}
  <2>1. T \subseteq Nat
    BY ShownAreDefined
  <2>2. PICK t \in T : \A u \in T : t <= u
    BY <1>1, <2>1, LeastNumber
  <2>3. t \in FirstFailing(r, d)
    BY <2>2 DEF FirstFailing
  <2> QED
    BY <2>3
<1> QED
  BY <1>1

(* A source in sync runs on the settings of the document, or on the ones of
   another document and those of this one were applied before. *)
LEMMA InstanceRuns ==
    ASSUME NEW r, RuntimeOK(r), NEW d \in Documents, NEW s \in Shown(d),
           ~Fails(r, d, s)
    PROVE  \/ Instance(r, d, s) = d.sources[s]
           \/ /\ Instance(r, d, s) = r.runtime[s]
              /\ s \in DOMAIN r.runtime
              /\ s \in DOMAIN r.applied
              /\ r.applied[s] = d.sources[s]
  BY DEF Fails, Instance

(* A sync that nothing stops brings every source shown in line. *)
LEMMA AppliedRuns ==
    ASSUME NEW r, DOMAIN r = RendererFields, RuntimeOK(r), NEW d \in Documents, CanSync(r, d)
    PROVE  RuntimeOK(Applied(r, d)) /\ InLine(Applied(r, d), d)
<1> DEFINE a == Applied(r, d)
           synced == Synced(r, d)
           removed == Removed(r, d)
<1>1. a.applied = d.sources /\ a.runtime = Without(synced, removed)
  BY DEF Applied, RendererFields
<1>2. /\ DOMAIN synced = DOMAIN r.runtime \cup Shown(d)
      /\ \A s \in Shown(d) : synced[s] = Instance(r, d, s)
      /\ \A s \in DOMAIN r.runtime \ Shown(d) : synced[s] = r.runtime[s]
  BY DEF Synced
<1>3. removed = DOMAIN r.runtime \ DOMAIN d.sources
  BY DEF Removed
<1>4. \A s \in Shown(d) : synced[s] # Gone /\ ~Fails(r, d, s)
  BY NothingFails DEF CanSync, AttachFails
<1> HIDE DEF a, synced, removed
<1>5. /\ DOMAIN a.runtime = DOMAIN synced \ removed
      /\ \A s \in DOMAIN a.runtime : a.runtime[s] = synced[s]
  BY <1>1 DEF Without
<1>6. ASSUME NEW s \in Shown(d)
      PROVE  /\ s \in DOMAIN a.runtime
             /\ a.runtime[s] = synced[s]
             /\ s \in DOMAIN d.sources
  BY <1>2, <1>3, <1>5, ShownAreDefined
<1>7. ASSUME NEW s \in Shown(d)
      PROVE  /\ InstanceOK(a, s)
             /\ a.runtime[s] # Gone
             /\ a.runtime[s] = d.sources[s] \/ Strays(s)
  <2>1. a.runtime[s] # Gone /\ a.runtime[s] = Instance(r, d, s) /\ s \in DOMAIN a.applied
    BY <1>1, <1>2, <1>4, <1>6
  <2>2. CASE a.runtime[s] = d.sources[s]
    BY <1>1, <1>6, <2>1, <2>2 DEF InstanceOK, Defines
  <2>3. CASE /\ a.runtime[s] # d.sources[s]
             /\ a.runtime[s] = r.runtime[s]
             /\ s \in DOMAIN r.runtime
             /\ r.applied[s] = d.sources[s]
    <3>1. InstanceOK(r, s)
      BY <2>3 DEF RuntimeOK
    <3>2. PICK e \in Documents : Defines(e, s, r.runtime[s])
      BY <2>1, <2>3, <3>1 DEF InstanceOK
    <3>3. Defines(d, s, d.sources[s])
      BY <1>6 DEF Defines
    <3>4. Refusals \/ Hides(s)
      BY <2>3, <3>1 DEF InstanceOK
    <3>5. Strays(s)
      BY <2>3, <3>2, <3>3, <3>4 DEF Strays
    <3>6. InstanceOK(a, s)
      BY <2>1, <2>3, <3>2, <3>4 DEF InstanceOK
    <3> QED
      BY <2>1, <3>5, <3>6
  <2> QED
    BY <1>4, <2>1, <2>2, <2>3, InstanceRuns
<1>8. ASSUME NEW s \in DOMAIN a.runtime, s \notin Shown(d)
      PROVE  InstanceOK(a, s)
  <2>1. s \in DOMAIN r.runtime /\ s \in DOMAIN d.sources /\ a.runtime[s] = r.runtime[s]
    BY <1>2, <1>3, <1>5, <1>8
  <2>2. Hides(s) /\ s \in DOMAIN a.applied
    BY <1>1, <1>8, <2>1 DEF Hides
  <2>3. InstanceOK(r, s)
    BY <2>1 DEF RuntimeOK
  <2> QED
    BY <2>1, <2>2, <2>3 DEF InstanceOK
<1>9. RuntimeOK(a)
  BY <1>7, <1>8 DEF RuntimeOK
<1>10. InLine(a, d)
  BY <1>6, <1>7 DEF InLine
<1> QED
  BY <1>9, <1>10 DEF a

(* Where no source may be refused, no sync fails. *)
LEMMA OnlyRefusalsFail ==
    ASSUME NEW r, RuntimeOK(r), NEW d \in Documents, ~Refusals
    PROVE  CanSync(r, d)
<1>1. \A s \in DOMAIN r.runtime : s \in DOMAIN r.applied /\ r.runtime[s] # Gone
  BY DEF RuntimeOK, InstanceOK
<1>2. \A s \in Shown(d) : d.sources[s].settings # Refused
  BY DEF Refusals
<1>3. \A s \in Shown(d) : ~Fails(r, d, s)
  BY <1>1, <1>2 DEF Fails
<1>4. FirstFailing(r, d) = {}
  BY <1>3 DEF FirstFailing
<1>5. ASSUME NEW s \in Shown(d)
      PROVE  Synced(r, d)[s] # Gone
  <2>1. Synced(r, d)[s] = Instance(r, d, s)
    BY DEF Synced
  <2>2. d.sources[s] # Gone
    BY ShownAreDefined
  <2> QED
    BY <1>1, <1>3, <2>1, <2>2, InstanceRuns
<1> QED
  BY <1>1, <1>4, <1>5 DEF CanSync, AttachFails, RetireFails, Removed

(* Whatever a failing sync has done, an instance that is left is gone, as it
   was, or as the document defines it. *)
LEMMA LeftInstances ==
    ASSUME NEW r, NEW d \in Documents, NEW runtime \in LeftByFailure(r, d)
    PROVE  \A s \in DOMAIN runtime :
               \/ runtime[s] = Gone
               \/ s \in Shown(d) /\ runtime[s] = d.sources[s]
               \/ s \in DOMAIN r.runtime /\ runtime[s] = r.runtime[s]
<1>1. \A s : \/ Instance(r, d, s) = d.sources[s]
             \/ s \in DOMAIN r.runtime /\ Instance(r, d, s) = r.runtime[s]
  BY DEF Instance
<1>2. CASE \E last \in FirstFailing(r, d) : runtime = SyncedUpTo(r, d, last)
  <2>1. PICK last \in FirstFailing(r, d) : runtime = SyncedUpTo(r, d, last)
    BY <1>2
  <2> DEFINE done == {s \in Shown(d) : s < last}
             replaced == {s \in {last} \cap DOMAIN r.runtime \cap DOMAIN r.applied :
                              r.applied[s].kind # d.sources[s].kind}
  <2>2. runtime = [s \in DOMAIN r.runtime \cup done |->
                       IF s \in done THEN Instance(r, d, s)
                       ELSE IF s \in replaced THEN Gone ELSE r.runtime[s]]
    BY <2>1 DEF SyncedUpTo
  <2>3. done \subseteq Shown(d)
    OBVIOUS
  <2> HIDE DEF done, replaced
  <2> QED
    BY <1>1, <2>2, <2>3
<1>3. CASE \E gone : runtime = Without(Synced(r, d), gone)
  <2>1. PICK gone : runtime = Without(Synced(r, d), gone)
    BY <1>3
  <2> DEFINE synced == Synced(r, d)
  <2>2. /\ DOMAIN synced = DOMAIN r.runtime \cup Shown(d)
        /\ \A s \in Shown(d) : synced[s] = Instance(r, d, s)
        /\ \A s \in DOMAIN r.runtime \ Shown(d) : synced[s] = r.runtime[s]
    BY DEF Synced
  <2> HIDE DEF synced
  <2>3. \A s \in DOMAIN runtime : s \in DOMAIN synced /\ runtime[s] = synced[s]
    BY <2>1 DEF Without, synced
  <2> QED
    BY <1>1, <2>2, <2>3
<1> QED
  BY <1>2, <1>3 DEF LeftByFailure

LEMMA FailedRuns ==
    ASSUME NEW r, DOMAIN r = RendererFields, RuntimeOK(r), NEW d \in Documents, ~CanSync(r, d),
           NEW runtime \in LeftByFailure(r, d)
    PROVE  RuntimeOK([r EXCEPT !.runtime = runtime])
<1> DEFINE left == [r EXCEPT !.runtime = runtime]
<1>1. left.runtime = runtime
  BY DEF RendererFields
<1>2. Refusals
  BY OnlyRefusalsFail
<1> HIDE DEF left
<1>3. ASSUME NEW s \in DOMAIN runtime
      PROVE  runtime[s] = Gone \/ \E e \in Documents : Defines(e, s, runtime[s])
  <2>1. CASE s \in Shown(d) /\ runtime[s] = d.sources[s]
    BY <2>1, ShownAreDefined DEF Defines
  <2>2. CASE s \in DOMAIN r.runtime /\ runtime[s] = r.runtime[s]
    BY <2>2 DEF RuntimeOK, InstanceOK
  <2> QED
    BY <2>1, <2>2, LeftInstances
<1>4. RuntimeOK(left)
  BY <1>1, <1>2, <1>3 DEF RuntimeOK, InstanceOK
<1> QED
  BY <1>4 DEF left

LEMMA BuildRuns ==
    ASSUME NEW d \in Documents, NEW rev, Build(d, rev)
    PROVE  RuntimeOK(renderer') /\ InLine(renderer', d)
<1>1. PICK gpu \in Gpus :
        /\ CanSync(EmptyRenderer(d, gpu), d)
        /\ renderer' = Applied(EmptyRenderer(d, gpu), d)
  BY DEF Build
<1>2. DOMAIN EmptyRenderer(d, gpu) = RendererFields /\ RuntimeOK(EmptyRenderer(d, gpu))
  BY EmptyHasFields, EmptyIsOK
<1> DEFINE r == EmptyRenderer(d, gpu)
<1> HIDE DEF r
<1>3. DOMAIN r = RendererFields /\ RuntimeOK(r) /\ CanSync(r, d) /\ renderer' = Applied(r, d)
  BY <1>1, <1>2 DEF r
<1> QED
  BY <1>3, AppliedRuns

(* The request's document is in line at the revision of the request. *)
LEMMA SyncedRuns ==
    ASSUME AppliedInv, RuntimeInv, UNCHANGED <<document, revision, latest>>,
           step \in {"start", "sync"},
           RuntimeOK(renderer'), InLine(renderer', request.project),
           applied_revision' = request.revision,
           \/ step' = "wait"
           \/ step' = "render" /\ request' = request
    PROVE  RuntimeInv'
<1>1. request.revision = revision => request.project = document
  BY DEF AppliedInv, RequestOK
<1>2. applied_revision' = revision' => InLine(renderer', document')
  BY <1>1
<1> QED
  BY <1>2 DEF RuntimeInv

(* Drawing leaves the instances alone. *)
LEMMA DrawingKeepsRuntime ==
    ASSUME AppliedInv, RuntimeInv, UNCHANGED <<document, revision, latest, applied_revision>>,
           renderer # NULL \/ applied_revision # 0, SameProject(renderer, renderer'),
           \/ step' = "wait"
           \/ UNCHANGED <<request, step>>
    PROVE  RuntimeInv'
<1>1. renderer'.runtime = renderer.runtime /\ renderer'.applied = renderer.applied
  BY DEF AppliedInv, RendererOK, SameProject
<1>2. RuntimeOK(renderer')
  BY <1>1 DEF RuntimeInv, RuntimeOK, InstanceOK
<1>3. applied_revision' = revision' => InLine(renderer', document')
  BY <1>1 DEF RuntimeInv, InLine
<1> QED
  BY <1>2, <1>3 DEF RuntimeInv

LEMMA WorkerKeepsRuntime ==
    ASSUME AppliedInv, RuntimeInv, Worker \/ CopyArrives
    PROVE  RuntimeInv'
<1>1. CASE Start
  <2>1. /\ UNCHANGED <<document, revision, latest>> /\ step = "start" /\ step' = "wait"
        /\ request.project \in Documents
    BY <1>1 DEF Start, roomVars, AppliedInv, RuntimeInv
  <2>2. CASE Build(request.project, request.revision)
    <3>1. applied_revision' = request.revision
      BY <2>2 DEF Build
    <3> QED
      BY <2>1, <2>2, <3>1, BuildRuns, SyncedRuns
  <2>3. CASE UNCHANGED <<renderer, applied_revision>>
    BY <2>1, <2>3 DEF RuntimeInv
  <2> QED
    BY <1>1, <2>2, <2>3 DEF Start
<1>2. CASE TakeRequest
  BY <1>2 DEF TakeRequest, roomVars, RuntimeInv
<1>3. CASE SyncProject
  <2> DEFINE d == request.project
  <2>1. UNCHANGED <<document, revision, latest>> /\ step = "sync" /\ d \in Documents
    BY <1>3 DEF SyncProject, roomVars, AppliedInv, RuntimeInv
  <2>2. CASE Build(d, request.revision) /\ step' = "render" /\ UNCHANGED <<request, result>>
    <3>1. applied_revision' = request.revision
      BY <2>2 DEF Build
    <3> QED
      BY <2>1, <2>2, <3>1, BuildRuns, SyncedRuns
  <2>3. CASE SyncFailed /\ UNCHANGED renderer
    BY <2>1, <2>3 DEF SyncFailed, RuntimeInv
  <2>4. ASSUME ~Rebuilds(d)
        PROVE  DOMAIN renderer = RendererFields /\ RuntimeOK(renderer)
    BY <2>4 DEF Rebuilds, AppliedInv, RendererOK, RuntimeInv
  <2>5. CASE /\ ~Rebuilds(d)
             /\ CanSync(renderer, d)
             /\ renderer' = Applied(renderer, d)
             /\ applied_revision' = request.revision
             /\ step' = "render"
             /\ UNCHANGED <<request, result>>
    <3>1. RuntimeOK(renderer') /\ InLine(renderer', d)
      BY <2>1, <2>4, <2>5, AppliedRuns
    <3> QED
      BY <2>1, <2>5, <3>1, SyncedRuns
  <2>6. CASE /\ Needed /\ ~Rebuilds(d)
             /\ ~CanSync(renderer, d)
             /\ \E runtime \in LeftByFailure(renderer, d) :
                    renderer' = [renderer EXCEPT !.runtime = runtime]
             /\ SyncFailed
    <3>1. RuntimeOK(renderer')
      BY <2>1, <2>4, <2>6, FailedRuns
    <3>2. applied_revision # revision
      BY <2>1, <2>6 DEF AppliedInv, RequestOK, Needed
    <3> QED
      BY <2>1, <2>6, <3>1, <3>2 DEF SyncFailed, RuntimeInv
  <2>7. CASE /\ step' = "render"
             /\ UNCHANGED <<request, result, renderer, applied_revision>>
    BY <2>1, <2>7 DEF RuntimeInv
  <2> QED
    BY <1>3, <2>2, <2>3, <2>5, <2>6, <2>7 DEF SyncProject
<1>4. CASE RenderRequest
  <2>1. UNCHANGED <<document, revision, latest, applied_revision>> /\ step' = "wait" /\ step = "render"
    BY <1>4 DEF RenderRequest, roomVars
  <2>2. applied_revision # 0
    BY <2>1 DEF AppliedInv, RequestOK
  <2>3. renderer' \in {AfterPoll(renderer), AfterRender(renderer, request.preview_scene)}
    BY <1>4 DEF RenderRequest
  <2> QED
    BY <2>1, <2>2, <2>3, AfterPollKeeps, AfterRenderKeeps, DrawingKeepsRuntime
<1>5. CASE GpuFails
  <2>1. UNCHANGED <<document, revision, latest, applied_revision>> /\ step' = "wait" /\ step = "render"
    BY <1>5 DEF GpuFails, roomVars
  <2>2. applied_revision # 0
    BY <2>1 DEF AppliedInv, RequestOK
  <2>3. renderer' = [renderer EXCEPT !.gpu = FALSE, !.in_flight = NULL, !.completed = NULL]
    BY <1>5 DEF GpuFails
  <2>4. SameProject(renderer, renderer')
    BY <2>3 DEF SameProject, RendererFields
  <2> QED
    BY <2>1, <2>2, <2>4, DrawingKeepsRuntime
<1>6. CASE CopyArrives
  <2>1. /\ UNCHANGED <<document, revision, latest, applied_revision, request, step>>
        /\ renderer # NULL
        /\ renderer' = [renderer EXCEPT !.in_flight.arrived = TRUE]
    BY <1>6 DEF CopyArrives, roomVars
  <2>2. SameProject(renderer, renderer')
    BY <2>1 DEF SameProject, RendererFields
  <2> QED
    BY <2>1, <2>2, DrawingKeepsRuntime
<1> QED
  BY <1>1, <1>2, <1>3, <1>4, <1>5, <1>6 DEF Worker

LEMMA NextKeepsRuntime ==
    ASSUME AppliedInv, RuntimeInv, [Next]_vars
    PROVE  RuntimeInv'
<1>1. CASE Command
  <2>1. UNCHANGED <<latest, result, applied_revision, renderer, request, step>> /\ RoomNext
    BY <1>1 DEF Command, workerVars
  <2>2. CASE UNCHANGED <<revision, document>>
    BY <2>1, <2>2 DEF RuntimeInv, RuntimeOK
  <2>3. CASE revision' = revision + 1
    <3>1. applied_revision' # revision'
      BY <2>1, <2>3 DEF AppliedInv
    <3> QED
      BY <2>1, <3>1 DEF RuntimeInv
  <2> QED
    BY <2>1, <2>2, <2>3, RoomMoves
<1>2. CASE TransitionEnds \/ TickEarly \/ UNCHANGED vars
  <2>1. /\ UNCHANGED <<document, revision>>
        /\ UNCHANGED <<latest, applied_revision, renderer, request, step>>
    BY <1>2 DEF TransitionEnds, TickEarly, vars, roomVars, workerVars
  <2> QED
    BY <2>1 DEF RuntimeInv
<1>3. CASE Tick
  <2>1. UNCHANGED <<document, revision, applied_revision, renderer, request, step>>
    BY <1>3 DEF Tick, roomVars
  <2>2. latest'.project \in Documents \cup {NULL}
    BY <1>3 DEF Tick, Request, AppliedInv
  <2> QED
    BY <2>1, <2>2 DEF RuntimeInv
<1>4. CASE Worker \/ CopyArrives
  BY <1>4, WorkerKeepsRuntime
<1> QED
  BY <1>1, <1>2, <1>3, <1>4 DEF Next

(* Whatever the documents, and however many requests were replaced and syncs
   failed part way: for the current revision the worker draws with an instance
   of every source that any scene shows, none that is gone, each on the settings
   of the current document, except a source that some edit changes and that may
   be hidden meanwhile or synced by an attempt that fails: OnlyStraysDiffer. *)
THEOREM RendersCurrent == Spec => []OnlyStraysDiffer
<1>1. Init => RuntimeInv
  <2> SUFFICES ASSUME Init PROVE RuntimeInv
    OBVIOUS
  <2>1. /\ revision = 1 /\ applied_revision = 0 /\ document \in Documents
        /\ latest = NULL /\ renderer = NULL /\ request.project = document
    BY DEF Init, RoomInit
  <2> QED
    BY <2>1 DEF RuntimeInv
<1>2. AppliedInv /\ RuntimeInv /\ [Next]_vars => RuntimeInv'
  BY NextKeepsRuntime
<1>3. AppliedInv /\ RuntimeInv => OnlyStraysDiffer
  BY DEF AppliedInv, RuntimeInv, OnlyStraysDiffer
<1> QED
  BY <1>1, <1>2, <1>3, InitApplied, NextKeepsApplied, PTL DEF Spec
=============================================================================
