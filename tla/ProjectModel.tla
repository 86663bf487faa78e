---------------------------- MODULE ProjectModel ----------------------------
(* The profile of a project document (obs-rs-project model.rs and
   model/scene.rs) and the commands that edit it (commands.rs, commands/), as
   operators: a command maps a profile to [ok, doc], and a refused one to what
   it had already done to the profile.

   A profile is [sources, scenes, order].  sources maps a source to its chain
   of filter identifiers; names, settings, transforms, visibility and the
   transition overrides are left out, since no command decides on them.  A
   scene is a tree of items: a function from paths, the identifiers that lead
   to an item, to nodes.  The root <<>> is the scene's own list; an item taken
   on its own is a tree too, with the item at its root.

   An identifier is a sequence: copy_identity appends an ordinal.

   What walks a sequence is a recursive function of its length, and what is
   reached is said with sets, for the provers know neither SelectSeq and :> nor
   functions of two arguments. *)
EXTENDS Naturals, Sequences, FiniteSets, SequencesExt

CONSTANTS MaxDepth,     \* MAX_GROUP_NESTING_DEPTH
          MaxCopies,    \* the ordinals copy_identity tries
          Names         \* what a user's identifiers are made of

ASSUME MaxDepthAssumption == MaxDepth \in Nat \ {0}
ASSUME MaxCopiesAssumption == MaxCopies \in Nat \ {0}

Identifiers == Seq(Names \cup 1..MaxCopies)

Modes == {"Reference", "DuplicateSource"}

(* SceneItemSpec: the target with its reference, or a group with its
   children's order; a group's children are the paths below it. *)
Node(kind, ref, kids) ==
    [kind |-> kind, ref |-> ref, kids |-> kids, locked |-> FALSE]

Kinds == {"source", "scene", "group"}
Nodes == [kind : Kinds, ref : Identifiers, kids : Seq(Identifiers),
          locked : BOOLEAN]

Leaf(kind, ref) == [p \in {<<>>} |-> Node(kind, ref, <<>>)]
SourceItem(source) == Leaf("source", source)
SceneItem(scene) == Leaf("scene", scene)
EmptyGroup == Leaf("group", <<>>)
EmptyScene == EmptyGroup

Refused(d) == [ok |-> FALSE, doc |-> d]
Accepted(d) == [ok |-> TRUE, doc |-> d]

-----------------------------------------------------------------------------
(* Trees *)

Groups(t) == {p \in DOMAIN t : t[p].kind = "group"}
ItemPaths(t) == DOMAIN t \ {<<>>}
Below(t, p) == {q \in DOMAIN t : IsPrefix(p, q)}
Beyond(p, q) == SubSeq(q, Len(p) + 1, Len(q))

ItemAt(t, p) == [q \in {Beyond(p, r) : r \in Below(t, p)} |-> t[p \o q]]

HasChild(t, p, id) == Contains(t[p].kids, id)
IndexOf(list, id) == CHOOSE i \in DOMAIN list : list[i] = id

(* The identifiers of a list that are in ids, in their order. *)
Among(list, ids) ==
    LET upto[i \in 0..Len(list)] ==
            IF i = 0 THEN <<>>
            ELSE IF list[i] \in ids THEN Append(upto[i - 1], list[i])
                 ELSE upto[i - 1]
    IN  upto[Len(list)]

Except(list, ids) == Among(list, ToSet(list) \ ids)

(* Vec::remove and Vec::insert, with an index counted from zero. *)
Moved(list, id, index) == InsertAt(Except(list, {id}), index + 1, id)

(* SceneSpec::remove_item and GroupSpec::remove_item, for every item of roots:
   what lies below it goes with it. *)
Detached(t, roots) ==
    [q \in DOMAIN t \ UNION {Below(t, p) : p \in roots} |->
        [t[q] EXCEPT !.kids = Except(@, {id \in ToSet(@) : Append(q, id) \in roots})]]

(* SceneSpec::add_item and GroupSpec::add_item, then move_item to index. *)
Attached(t, parent, id, index, item) ==
    LET at  == Append(parent, id)
        new == {at \o r : r \in DOMAIN item}
    IN  [q \in DOMAIN t \cup new |->
            IF q \in new THEN item[Beyond(at, q)]
            ELSE IF q = parent
                 THEN [t[q] EXCEPT !.kids = InsertAt(@, index + 1, id)]
                 ELSE t[q]]

Appended(t, parent, id, item) ==
    Attached(t, parent, id, Len(t[parent].kids), item)

(* move_item of a scene or of a group *)
MovedWithin(t, p, index) ==
    [t EXCEPT ![Front(p)].kids = Moved(@, Last(p), index)]

Leaves(t, kind) == {p \in DOMAIN t : t[p].kind = kind}
References(t, kind) == {t[p].ref : p \in Leaves(t, kind)}

-----------------------------------------------------------------------------
(* Scenes and sources of a profile *)

Scenes(d) == DOMAIN d.scenes

WithScene(d, s, t) ==
    [d EXCEPT !.scenes = [r \in Scenes(d) \cup {s} |->
                             IF r = s THEN t ELSE d.scenes[r]]]

WithSources(d, new) ==
    [d EXCEPT !.sources = [s \in DOMAIN d.sources \cup DOMAIN new |->
                              IF s \in DOMAIN new THEN new[s] ELSE d.sources[s]]]

(* scene_item_reaches, one step of it *)
SceneRefers(d, s) == References(d.scenes[s], "scene")

(* scene_reaches: to is in every set of scenes that has from and, with a scene,
   the ones it refers to. *)
Reaches(d, from, to) ==
    \A S \in SUBSET Scenes(d) :
        from \in S /\ (\A s \in S : SceneRefers(d, s) \subseteq S) => to \in S

(* validate_scene_target; the owner of an item to be added with a new scene is
   not in the profile yet and is reached by nothing. *)
TargetIsValid(d, owner, target) ==
    /\ target \in Scenes(d)
    /\ owner # target
    /\ owner \in Scenes(d) => ~Reaches(d, target, owner)

(* validate_scene_item *)
ItemIsValid(d, owner, item, depth) ==
    /\ \A target \in References(item, "scene") : TargetIsValid(d, owner, target)
    /\ References(item, "source") \subseteq DOMAIN d.sources
    /\ \A p \in Groups(item) : depth + Len(p) < MaxDepth

Copies(id) == {Append(id, n) : n \in 1..MaxCopies}

(* Mutant: the first ordinal is taken for free. *)
FirstCopy(id, taken) == Append(id, 1)

(* copy_identity: the first ordinal that is not taken; it gives up when none of
   them is left. The code cuts a long base short to make room for the suffix, so
   that two bases may lead to one name; here the base is kept whole. Either way
   the copy's name is one that is free. *)
CopyOf(id, taken) ==
    Append(id, CHOOSE n \in 1..MaxCopies :
                   /\ Append(id, n) \notin taken
                   /\ \A k \in 1..(n - 1) : Append(id, k) \in taken)

CanCopy(id, taken) == ~(Copies(id) \subseteq taken)

CanCopySources(d, item) ==
    \A s \in References(item, "source") : CanCopy(s, DOMAIN d.sources)

-----------------------------------------------------------------------------
(* Targets that cross groups and scene references *)

(* resolve_flattened_parent and flattened_path_is_unlocked in one walk. *)
StepInto(d, at, id) ==
    LET t    == d.scenes[at.scene]
        next == Append(at.path, id)
        To(ok, scene, path) ==
            [ok |-> ok, scene |-> scene, path |-> path,
             locked |-> at.locked \/ t[next].locked]
    IN  IF ~at.ok \/ next \notin DOMAIN t THEN [at EXCEPT !.ok = FALSE]
        ELSE CASE t[next].kind = "group" -> To(TRUE, at.scene, next)
               [] t[next].kind = "scene" -> To(TRUE, t[next].ref, <<>>)
               [] OTHER -> To(FALSE, at.scene, at.path)

ResolveParent(d, s, path) ==
    LET at[n \in 0..Len(path)] ==
            IF n = 0
            THEN [ok |-> TRUE, scene |-> s, path |-> <<>>, locked |-> FALSE]
            ELSE StepInto(d, at[n - 1], path[n])
    IN  at[Len(path)]

(* resolve_flattened_target: the owner scene and the item's path in it.
   Targets have at most MaxDepth parents (parse_scene_item_target), and the
   owner's groups are parsed again (parse_group_path). *)
Resolve(d, s, path) ==
    LET at   == ResolveParent(d, s, Front(path))
        here == Append(at.path, Last(path))
    IN  [ok |-> /\ at.ok
                /\ Len(path) <= MaxDepth + 1
                /\ here \in DOMAIN d.scenes[at.scene],
         scene |-> at.scene, path |-> here, locked |-> at.locked]

(* path_is_unlocked, for a local path *)
PathUnlocked(t, path) ==
    \A p \in Prefixes(path) \ {<<>>} : ~t[p].locked

-----------------------------------------------------------------------------
(* Scenes *)

(* add_scene *)
AddScene(d, s, t) ==
    IF s \in Scenes(d) \/ ~ItemIsValid(d, s, t, 0) THEN Refused(d)
    ELSE Accepted([WithScene(d, s, t) EXCEPT !.order = Append(@, s)])

(* Mutant: references from inside a group are not looked for. *)
InUseAtTheRoot(d, s) ==
    \E t \in Scenes(d) : \E p \in Leaves(d.scenes[t], "scene") :
        Len(p) = 1 /\ d.scenes[t][p].ref = s

(* Profile::scene_in_use *)
SceneInUse(d, s) == \E t \in Scenes(d) : s \in References(d.scenes[t], "scene")

(* Profile::remove_scene *)
RemoveScene(d, s) ==
    IF s \notin Scenes(d) \/ SceneInUse(d, s) THEN Refused(d)
    ELSE Accepted([d EXCEPT !.scenes = [t \in Scenes(d) \ {s} |-> d.scenes[t]],
                            !.order  = Except(@, {s})])

(* Profile::move_scene *)
MoveScene(d, s, index) ==
    IF s \notin Scenes(d) \/ index >= Len(d.order) THEN Refused(d)
    ELSE Accepted([d EXCEPT !.order = Moved(@, s, index)])

(* duplicate_item_sources: every source of the item gets one copy, under an
   identifier that is new to the profile. *)
SourceCopies(d, item) ==
    [s \in References(item, "source") |-> CopyOf(s, DOMAIN d.sources)]

WithCopiedSources(d, item) ==
    LET copy == SourceCopies(d, item)
    IN  WithSources(d, [c \in {copy[s] : s \in DOMAIN copy} |->
                           d.sources[CHOOSE s \in DOMAIN copy : copy[s] = c]])

OnCopiedSources(d, item) ==
    [p \in DOMAIN item |->
        IF item[p].kind = "source"
        THEN [item[p] EXCEPT !.ref = SourceCopies(d, item)[@]] ELSE item[p]]

(* duplicate_scene; its items are not validated again. *)
DuplicateScene(d, s, mode) ==
    IF \/ s \notin Scenes(d)
       \/ ~CanCopy(s, Scenes(d))
       \/ mode = "DuplicateSource" /\ ~CanCopySources(d, d.scenes[s])
    THEN Refused(d)
    ELSE LET copy == CopyOf(s, Scenes(d))
             t    == d.scenes[s]
             done == IF mode = "Reference" THEN WithScene(d, copy, t)
                     ELSE WithScene(WithCopiedSources(d, t), copy,
                                    OnCopiedSources(d, t))
         IN  IF copy \in Scenes(d)
             THEN Refused(IF mode = "Reference" THEN d ELSE WithCopiedSources(d, t))
             ELSE Accepted([done EXCEPT !.order = Append(@, copy)])

-----------------------------------------------------------------------------
(* Sources and their filters *)

(* add_source: the definition and an item of the same identifier. *)
AddSource(d, s, source) ==
    IF \/ s \notin Scenes(d)
       \/ source \in DOMAIN d.sources
       \/ HasChild(d.scenes[s], <<>>, source)
    THEN Refused(d)
    ELSE Accepted(WithScene(WithSources(d, [c \in {source} |-> <<>>]), s,
                            Appended(d.scenes[s], <<>>, source,
                                     SourceItem(source))))

(* duplicate_source *)
DuplicateSource(d, source) ==
    IF source \notin DOMAIN d.sources \/ ~CanCopy(source, DOMAIN d.sources)
    THEN Refused(d)
    ELSE Accepted(WithSources(d, [c \in {CopyOf(source, DOMAIN d.sources)} |->
                                     d.sources[source]]))

(* Profile::source_in_use *)
SourceInUse(d, source) ==
    \E s \in Scenes(d) : source \in References(d.scenes[s], "source")

(* Profile::remove_source *)
RemoveSource(d, source) ==
    IF source \notin DOMAIN d.sources \/ SourceInUse(d, source) THEN Refused(d)
    ELSE Accepted([d EXCEPT !.sources =
                      [s \in DOMAIN d.sources \ {source} |-> d.sources[s]]])

WithFilters(d, source, filters) == [d EXCEPT !.sources[source] = filters]

(* SourceSpec::add_filter *)
AddSourceFilter(d, source, filter) ==
    IF source \notin DOMAIN d.sources \/ Contains(d.sources[source], filter)
    THEN Refused(d)
    ELSE Accepted(WithFilters(d, source, Append(d.sources[source], filter)))

HasFilter(d, source, filter) ==
    source \in DOMAIN d.sources /\ Contains(d.sources[source], filter)

(* SourceSpec::remove_filter *)
RemoveSourceFilter(d, source, filter) ==
    IF ~HasFilter(d, source, filter) THEN Refused(d)
    ELSE Accepted(WithFilters(d, source, Except(d.sources[source], {filter})))

(* SourceSpec::move_filter *)
MoveSourceFilter(d, source, filter, index) ==
    IF ~HasFilter(d, source, filter) \/ index >= Len(d.sources[source])
    THEN Refused(d)
    ELSE Accepted(WithFilters(d, source,
                              Moved(d.sources[source], filter, index)))
=============================================================================
