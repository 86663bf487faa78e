--------------------------- MODULE ProjectSession ---------------------------
(* ProjectSession (obs-rs-project session.rs): the open project with its undo
   and redo stacks, the dirty flag and the cached document.

   A project is a value, and its document is the same value: serialize and
   parse are inverse to each other.  revision is left out: every change of it
   takes the cached document, so a cached document is always the one of the
   current revision (ControlRoom has the revision, for its observers). *)
EXTENDS Naturals, Sequences, SequencesExt

CONSTANTS Projects,     \* the documents there may be
          MaxHistory,   \* MAX_HISTORY_DEPTH
          None          \* no document

ASSUME MaxHistoryAssumption == MaxHistory \in Nat \ {0}
ASSUME NoneAssumption == None \notin Projects

VARIABLES project,
          dirty,
          undo_stack,       \* oldest first
          redo_stack,       \* oldest first
          document_cache    \* the serialized project, or None

history == <<undo_stack, redo_stack>>
session == <<project, dirty, undo_stack, redo_stack, document_cache>>

(* ProjectSession::new *)
SessionInit ==
    /\ project \in Projects
    /\ dirty = FALSE
    /\ undo_stack = <<>>
    /\ redo_stack = <<>>
    /\ document_cache = None

(* Mutant: the newest state goes at the bound. *)
PushedOverNewest(stack, p) ==
    IF Len(stack) = MaxHistory THEN Append(Front(stack), p) ELSE Append(stack, p)

(* push_history, and the same on the redo stack: at the bound the oldest state
   goes. *)
Pushed(stack, p) ==
    IF Len(stack) = MaxHistory THEN Append(Tail(stack), p) ELSE Append(stack, p)

(* Mutant: a replaced project keeps the document of the one before. *)
ChangedUnlessReplaced ==
    document_cache' = IF undo_stack' = <<>> THEN document_cache ELSE None

(* bump_revision *)
Changed == document_cache' = None

(* An accepted command; it may change nothing. *)
Dispatch(p) ==
    /\ project' = p
    /\ undo_stack' = Pushed(undo_stack, project)
    /\ redo_stack' = <<>>
    /\ dirty' = TRUE
    /\ Changed

(* replace, then mark_dirty when a recovered document is opened. *)
ReplaceMarked(p, marked) ==
    /\ project' = p
    /\ undo_stack' = <<>>
    /\ redo_stack' = <<>>
    /\ dirty' = marked
    /\ Changed

Replace(p) == ReplaceMarked(p, FALSE)

Undo ==
    /\ undo_stack # <<>>
    /\ project' = Last(undo_stack)
    /\ undo_stack' = Front(undo_stack)
    /\ redo_stack' = Pushed(redo_stack, project)
    /\ dirty' = TRUE
    /\ Changed

Redo ==
    /\ redo_stack # <<>>
    /\ project' = Last(redo_stack)
    /\ redo_stack' = Front(redo_stack)
    /\ undo_stack' = Pushed(undo_stack, project)
    /\ dirty' = TRUE
    /\ Changed

(* document: what it returns, and the cache it leaves. *)
Document == IF document_cache = None THEN project ELSE document_cache

(* mark_saved, or not, with the document that was serialized. *)
Serialize(marked) ==
    /\ document_cache' = Document
    /\ dirty' = marked
    /\ UNCHANGED <<project, undo_stack, redo_stack>>

-----------------------------------------------------------------------------
(* The refinement of EditHistory: the undo stack, the project, and what was
   undone, newest first. *)
Line(undos, p, redos) ==
    LET back == Len(undos)
        ahead == Len(redos)
    IN  [i \in 1..(back + 1 + ahead) |->
            IF i <= back THEN undos[i]
            ELSE IF i = back + 1 THEN p
            ELSE redos[back + ahead + 2 - i]]

Timeline == Line(undo_stack, project, redo_stack)

Edits == INSTANCE EditHistory
            WITH timeline <- Timeline, at <- Len(undo_stack) + 1
=============================================================================
