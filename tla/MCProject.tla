----------------------------- MODULE MCProject -----------------------------
(* Instances of ProjectDocument and ProjectWorkspace for TLC.  What a command
   does to a profile and what becomes of the whole project are two abstractions
   of one document: a behaviour is one of the one or of the other. *)
EXTENDS ProjectWorkspace, ProjectDocument

CONSTANTS main, side, cam, box, extra,      \* names
          starter, studio,                  \* projects
          usual, another                   \* paths

VARIABLE inside     \* the behaviour is one of ProjectDocument

-----------------------------------------------------------------------------
(* ProjectDocument *)

MCNames == {main, side, cam, box, extra}

Main == <<main>>
Side == <<side>>
Cam == <<cam>>
Box == <<box>>

(* The main scene has a camera and shows the side scene, which has the camera
   in a group. *)
Nested ==
    LET d == [sources |-> [c \in {Cam} |-> <<>>],
              scenes  |-> [s \in {Main, Side} |-> EmptyScene],
              order   |-> <<Main, Side>>]
        e == AddSceneItem(d, Main, Cam, SourceItem(Cam)).doc
        f == AddSceneItem(e, Side, Box, Appended(EmptyGroup, <<>>, Cam,
                                                 SourceItem(Cam))).doc
    IN  AddSceneItem(f, Main, Side, SceneItem(Side)).doc

MCDocuments == {Nested}
MCNewScenes == {<<extra>>}
MCNewSources == {Cam}
MCNewGroups == {Box}
MCFilters == {"blur", "crop"}

-----------------------------------------------------------------------------
(* ProjectWorkspace *)

MCProjects == {starter, studio}
MCPaths == {usual, another}

-----------------------------------------------------------------------------
ProjectInit == inside \in BOOLEAN /\ Init /\ EditInit

Commands == inside /\ EditNext /\ UNCHANGED <<inside, vars>>
Sessions == ~inside /\ Next /\ UNCHANGED <<inside, editVars>>

\* No command is left within the bound; a session never comes to an end.
Finished == inside /\ edits = MaxEdits /\ UNCHANGED <<inside, vars, editVars>>

ProjectSpec ==
    ProjectInit /\ [][Commands \/ Sessions \/ Finished]_<<inside, vars, editVars>>
=============================================================================
