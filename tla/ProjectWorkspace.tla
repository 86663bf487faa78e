-------------------------- MODULE ProjectWorkspace --------------------------
(* The open project and its files: ProjectSession under the commands of
   DesktopState (obs-rs-ui state.rs), the crash-safe store (obs-rs-project
   persistence.rs) and the document and collection callbacks of the desktop
   (obs-rs-gui callbacks/project.rs, menu_collections.rs), with a crash between
   any two steps of a save.

   A file holds None, Torn bytes or a project, which a crash keeps for certain
   only once it is synchronized; a rename is kept at once.  The callbacks run on one thread: while a save is under way
   nothing else happens, but it may fail or the process may die. *)
EXTENDS ProjectSession

CONSTANTS Paths,        \* the document files
          SettingsPath, \* AppSettings::project_path: opened first, saved last
          Initial,      \* initial_project()
          Torn          \* a document that does not parse

ASSUME InitialAssumption == Initial \in Projects
ASSUME SettingsPathAssumption == SettingsPath \in Paths
ASSUME TornAssumption == Torn \notin Projects \cup {None}

VARIABLES path,     \* the window's project path
          final,    \* what each path holds
          temp,     \* what the temporary file beside it holds
          saving    \* the save under way, or None

vars == <<project, dirty, undo_stack, redo_stack, document_cache,
          path, final, temp, saving>>

Content(d, synced) == [doc |-> d, synced |-> synced]
NoFile == Content(None, TRUE)
TornFile == Content(Torn, TRUE)
Contents == [doc : Projects \cup {None, Torn}, synced : BOOLEAN]

IsFile(f) == final[f] # NoFile
Parsed(content) == content.doc \in Projects

Steps == {"open", "write", "sync", "rename", "move"}
(* What follows the save. *)
Ends == {"stay", "export", "create", "duplicate", "switch", "load", "move",
         "exit"}

Save(f, d, end, target) ==
    [file |-> f, doc |-> d, step |-> "open", end |-> end, target |-> target]

-----------------------------------------------------------------------------
(* The session *)

Edit ==
    /\ saving = None
    /\ \E p \in Projects : Dispatch(p)
    /\ UNCHANGED <<path, final, temp, saving>>

StepHistory ==
    /\ saving = None
    /\ Undo \/ Redo
    /\ UNCHANGED <<path, final, temp, saving>>

(* The path is a field of the dialogs, edited in place. *)
TypePath ==
    /\ saving = None
    /\ path' \in Paths
    /\ UNCHANGED <<session, final, temp, saving>>

(* new_project: a new session; the path stays. *)
NewProject ==
    /\ saving = None
    /\ Replace(Initial)
    /\ UNCHANGED <<path, final, temp, saving>>

(* load_project_for_key of the path, or of a collection that becomes the path.
   The prompt for unsaved edits has been answered. *)
Open ==
    /\ saving = None
    /\ \E f \in Paths :
          /\ Parsed(final[f])
          /\ Replace(final[f].doc)
          /\ path' = f
    /\ UNCHANGED <<final, temp, saving>>

(* recover_project_for_key *)
Recover ==
    /\ saving = None
    /\ Parsed(temp[path])
    /\ ReplaceMarked(temp[path].doc, TRUE)
    /\ UNCHANGED <<path, final, temp, saving>>

(* discard_recovery *)
DiscardRecovery ==
    /\ saving = None
    /\ temp' = [temp EXCEPT ![path] = NoFile]
    /\ UNCHANGED <<session, path, final, saving>>

-----------------------------------------------------------------------------
(* Saves begin *)

(* The document is taken from the cache or made for it. *)
Begin(f, end, target) ==
    /\ saving = None
    /\ saving' = Save(f, Document, end, target)
    /\ Serialize(dirty)
    /\ UNCHANGED <<path, final, temp>>

(* Save, Save of a collection, the prompt's Save, and Save As: its dialog hands
   over the path it has edited, so the target is the path. *)
SaveProject == Begin(path, "stay", path)

ExportCollection == \E f \in Paths : Begin(f, "export", f)

(* The current document is saved first; an existing target is refused before
   that (and a rename to the name it has is a plain save). *)
CreateCollection == \E f \in Paths : ~IsFile(f) /\ Begin(path, "create", f)
DuplicateCollection == \E f \in Paths : ~IsFile(f) /\ Begin(path, "duplicate", f)
RenameCollection ==
    \E f \in Paths \ {path} : ~IsFile(f) /\ Begin(path, "move", f)

(* import_collection: the parsed source is copied into a new collection. *)
ImportCollection ==
    /\ saving = None
    /\ \E f, from \in Paths :
          /\ ~IsFile(f)
          /\ Parsed(final[from])
          /\ saving' = Save(f, final[from].doc, "load", f)
    /\ UNCHANGED <<session, path, final, temp>>

(* persist_session on the way out: to the path in the settings. *)
Exit == Begin(SettingsPath, "exit", SettingsPath)

-----------------------------------------------------------------------------
(* ProjectFileStore::save_document, step by step *)

At(step) == saving # None /\ saving.step = step

(* The temporary file, as the step leaves it. *)
TempBecomes(step, content, next) ==
    /\ At(step)
    /\ temp' = [temp EXCEPT ![saving.file] = content]
    /\ saving' = [saving EXCEPT !.step = next]
    /\ UNCHANGED <<session, path, final>>

OpenTemp == TempBecomes("open", TornFile, "write")
WriteTemp == TempBecomes("write", Content(saving.doc, FALSE), "sync")

(* Mutant: the write goes on to the rename. *)
SyncNothing == TempBecomes("sync", Content(saving.doc, FALSE), "rename")

SyncTemp == TempBecomes("sync", Content(saving.doc, TRUE), "rename")

(* What follows the save in its callback: mark_saved, the next save of a
   collection operation, or the load of what was written. *)
Continue(end) ==
    CASE end = "export" ->
             saving' = None /\ UNCHANGED <<session, path>>
      [] end = "stay" ->
             saving' = None /\ Serialize(FALSE) /\ UNCHANGED path
      [] end = "create" ->
             /\ saving' = Save(saving.target, Initial, "load", saving.target)
             /\ Serialize(FALSE)
             /\ UNCHANGED path
      [] end = "duplicate" ->
             /\ saving' = Save(saving.target, Document, "switch", saving.target)
             /\ Serialize(FALSE)
             /\ UNCHANGED path
      [] end = "switch" ->
             saving' = None /\ Serialize(FALSE) /\ path' = saving.file
      [] end = "move" ->
             /\ saving' = [saving EXCEPT !.step = "move"]
             /\ Serialize(FALSE)
             /\ UNCHANGED path
      [] end = "load" ->
             saving' = None /\ Replace(saving.doc) /\ path' = saving.file

(* replace_file *)
Published == [final EXCEPT ![saving.file] = temp[saving.file]]
WithoutTemp == [temp EXCEPT ![saving.file] = NoFile]

Publish ==
    /\ At("rename")
    /\ saving.end # "exit"
    /\ final' = Published
    /\ temp' = WithoutTemp
    /\ Continue(saving.end)

(* rename_collection moves the file it has saved. *)
MoveFile ==
    /\ At("move")
    /\ final' = [final EXCEPT ![saving.target] = final[saving.file],
                              ![saving.file] = NoFile]
    /\ path' = saving.target
    /\ saving' = None
    /\ UNCHANGED <<session, temp>>

MoveFails ==
    /\ At("move")
    /\ saving' = None
    /\ UNCHANGED <<session, path, final, temp>>

(* A step fails: the temporary file is removed, if it can be. *)
FailedTemps == {temp, WithoutTemp}

SaveFails ==
    /\ saving # None
    /\ saving.step # "move"
    /\ saving.end # "exit"
    /\ temp' \in FailedTemps
    /\ saving' = None
    /\ UNCHANGED <<session, path, final>>

-----------------------------------------------------------------------------
(* restore_project *)
Start(finals, temps) ==
    /\ final' = finals
    /\ temp' = temps
    /\ path' = SettingsPath
    /\ saving' = None
    /\ Replace(IF Parsed(finals[SettingsPath]) THEN finals[SettingsPath].doc
               ELSE Initial)

(* The process ends after the save at exit, whether that succeeded or not, and
   is started again. *)
Restart ==
    /\ saving # None
    /\ saving.end = "exit"
    /\ \/ At("rename") /\ Start(Published, WithoutTemp)
       \/ \E temps \in FailedTemps : Start(final, temps)

(* A file that was not synchronized may be torn. *)
Kept(content) == Content(content.doc, TRUE)
Survivors(files) ==
    {[f \in Paths |-> IF f \in torn THEN TornFile ELSE Kept(files[f])] :
        torn \in SUBSET {f \in Paths : ~files[f].synced}}

Crash ==
    \E finals \in Survivors(final), temps \in Survivors(temp) :
        Start(finals, temps)

-----------------------------------------------------------------------------
(* The first start, before anything was saved. *)
Init ==
    /\ SessionInit
    /\ project = Initial
    /\ path = SettingsPath
    /\ saving = None
    /\ final = [f \in Paths |-> NoFile]
    /\ temp = [f \in Paths |-> NoFile]

Next ==
    \/ Edit \/ StepHistory \/ TypePath \/ NewProject \/ Open
    \/ Recover \/ DiscardRecovery
    \/ SaveProject \/ ExportCollection \/ CreateCollection
    \/ DuplicateCollection \/ RenameCollection \/ ImportCollection \/ Exit
    \/ OpenTemp \/ WriteTemp \/ SyncTemp \/ Publish \/ MoveFile \/ MoveFails
    \/ SaveFails \/ Restart \/ Crash

Spec == Init /\ [][Next]_vars

-----------------------------------------------------------------------------
TypeOK ==
    /\ project \in Projects
    /\ dirty \in BOOLEAN
    /\ undo_stack \in Seq(Projects)
    /\ redo_stack \in Seq(Projects)
    /\ document_cache \in Projects \cup {None}
    /\ path \in Paths
    /\ final \in [Paths -> Contents]
    /\ temp \in [Paths -> Contents]
    /\ saving \in {None} \cup
           [file : Paths, doc : Projects, step : Steps, end : Ends, target : Paths]

(* "The history is bounded" (MAX_HISTORY_DEPTH): both stacks together hold no
   more than the bound, so redo never finds the undo stack full. *)
HistoryIsBounded == Len(undo_stack) + Len(redo_stack) <= MaxHistory

(* A project that is not dirty can be lost with the session: but for the starter
   project it is whole in a file.  The session marks itself clean from a cached
   document after the rename, opens what it has just written and moves the file
   it has saved; a crash, a failed save or another collection's operation must
   not leave it clean with its work nowhere, and no crash leaves a file that
   cannot be read where a document was ("Crash-safe project-file persistence",
   ProjectFileStore). *)
SavedWorkIsKept ==
    /\ ~dirty => \/ project = Initial
                 \/ \E f \in Paths : final[f].doc = project
    /\ \A f \in Paths : final[f].doc # Torn

(* Undo and redo walk one line of edits whatever is saved, loaded or recovered
   between them: "redoing onto a diverged state would reapply an edit the user
   has already replaced" (ProjectSession::dispatch), and a loaded document is
   not undone into the one before it. *)
ImplementsEditHistory == Edits!Spec
=============================================================================
