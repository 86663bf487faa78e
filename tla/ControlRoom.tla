---------------------------- MODULE ControlRoom ----------------------------
(***************************************************************************)
(* The state behind the studio window (obs-rs-ui/src/state.rs): the open   *)
(* document, its revision, the scene in Preview, the scene in Program and  *)
(* the transition on its way to it.  Every command that changes the        *)
(* document may take away a scene that is on view, so each one puts the    *)
(* two selections right before it returns.                                 *)
(*                                                                         *)
(* A document is what its active profile holds: the profile's name, the    *)
(* scenes in order, the sources each scene shows, the settings of every    *)
(* source defined, shown or hidden, and the canvas.  Which edits lead from *)
(* one document to another is ProjectDocument's subject, and what undo     *)
(* returns to ProjectWorkspace's; here a command moves to any document.    *)
(***************************************************************************)
EXTENDS Naturals, Sequences, SequencesExt

CONSTANTS Documents,     \* the documents a command can lead to
          PreviewName,   \* the scene a new selection prefers
          MaxCommands,   \* bound: commands of one run
          NULL

ASSUME DocumentsAssumption ==
    /\ \A d \in Documents : d.scenes \in Seq(ToSet(d.scenes))
    /\ NULL \notin Documents
    /\ MaxCommands \in Nat

VARIABLES document, revision, preview_scene, program_scene, active_transition,
          commands   \* commands so far, for the bound

roomVars == <<document, revision, preview_scene, program_scene, active_transition, commands>>

SceneIds(d) == ToSet(d.scenes)

FirstScene(d) ==
    IF PreviewName \in SceneIds(d) THEN PreviewName
    ELSE IF d.scenes = <<>> THEN NULL ELSE Head(d.scenes)

\* A selection the document still has, or its first scene.
Existing(scene, d) == IF scene \in SceneIds(d) THEN scene ELSE FirstScene(d)

AllScenes == UNION {SceneIds(d) : d \in Documents} \cup {NULL}

\* The window opens with the scenes that were on view when it was closed.
RoomInit ==
    /\ document \in Documents
    /\ revision = 1
    /\ \E preview, program \in AllScenes :
           /\ preview_scene = Existing(preview, document)
           /\ program_scene = Existing(program, document)
    /\ active_transition = NULL
    /\ commands = 0

BumpRevision == revision' = revision + 1

Reconciled ==
    /\ preview_scene' = Existing(preview_scene, document')
    /\ program_scene' = Existing(program_scene, document')

(***************************************************************************)
(* A profile or a document that is shown again brings its last choices     *)
(* back.  They may come from the settings file, so they may be any names.  *)
(***************************************************************************)
Restored ==
    \E preview, program \in AllScenes :
        /\ preview_scene' = Existing(preview, document')
        /\ program_scene' = Existing(program, document')

\* UiCommand::Project, Undo, Redo and SelectProfile, when they change the document.
ChangeDocument(d) ==
    /\ BumpRevision
    /\ document' = d
    /\ IF d.active = document.active THEN Reconciled ELSE Restored
    /\ active_transition' = NULL

\* UiCommand::PasteSource adds an item and leaves a transition running.
PasteSource(d) ==
    /\ BumpRevision
    /\ d.active = document.active
    /\ d.scenes = document.scenes
    /\ document' = d
    /\ Reconciled
    /\ UNCHANGED active_transition

LoadProject(d) ==
    /\ BumpRevision
    /\ document' = d
    /\ Restored
    /\ active_transition' = NULL

\* UiCommand::SelectPreviewScene and SelectAdjacentPreviewScene.
SelectPreviewScene(scene) ==
    /\ scene \in SceneIds(document)
    /\ preview_scene' = scene
    /\ active_transition' = NULL
    /\ UNCHANGED <<document, revision, program_scene>>

SelectProgramKeepingTransition(scene) ==
    /\ scene \in SceneIds(document)
    /\ program_scene' = scene
    /\ UNCHANGED <<document, revision, preview_scene, active_transition>>

SelectProgramScene(scene) ==
    /\ scene \in SceneIds(document)
    /\ program_scene' = scene
    /\ active_transition' = NULL
    /\ UNCHANGED <<document, revision, preview_scene>>

SwapPreviewProgram ==
    /\ preview_scene' = program_scene
    /\ program_scene' = preview_scene
    /\ active_transition' = NULL
    /\ UNCHANGED <<document, revision>>

\* UiCommand::TakePreview and TakeStinger; a cut has no transition to run.
TakePreview(cut) ==
    /\ preview_scene # NULL
    /\ program_scene' = preview_scene
    /\ active_transition' =
           IF program_scene \notin {NULL, preview_scene} /\ ~cut
           THEN [source |-> program_scene, destination |-> preview_scene]
           ELSE NULL
    /\ UNCHANGED <<document, revision, preview_scene>>

RoomNext ==
    /\ commands < MaxCommands
    /\ commands' = commands + 1
    /\ \/ \E d \in Documents : ChangeDocument(d) \/ PasteSource(d) \/ LoadProject(d)
       \/ \E scene \in AllScenes : SelectPreviewScene(scene) \/ SelectProgramScene(scene)
       \/ SwapPreviewProgram
       \/ \E cut \in BOOLEAN : TakePreview(cut)

(***************************************************************************)
(* The scenes on view are scenes of the document, unless it has none, and  *)
(* a running transition ends in the scene that is in Program and starts    *)
(* from another one: the renderer refuses anything else, and the picture   *)
(* would stand still (render_program_scene, preview_worker.rs:680).        *)
(***************************************************************************)
SelectionsHold ==
    /\ {preview_scene, program_scene} \subseteq
           IF document.scenes = <<>> THEN {NULL} ELSE SceneIds(document)
    /\ active_transition # NULL =>
           /\ active_transition.destination = program_scene
           /\ active_transition.source \in SceneIds(document) \ {program_scene}

=============================================================================
