---------------------------- MODULE ProjectItems ----------------------------
(* The commands of obs-rs-project on the items of a scene and of its groups
   (commands.rs, commands/groups.rs, commands/groups/).  s and path are the
   scene and the target a command names; the target may cross groups and scene
   references, and the owner is the scene that holds the item. *)
EXTENDS ProjectModel

(* paste_scene_item and paste_group_item; parent is local to s.  A group is
   validated as if it were pasted at the root of the scene. *)
PasteItem(d, s, parent, id, item, mode) ==
    IF \/ s \notin Scenes(d)
       \/ parent \notin Groups(d.scenes[s])
       \/ Len(parent) > MaxDepth
       \/ ~ItemIsValid(d, s, item, 0)
       \/ HasChild(d.scenes[s], parent, id)
              /\ ~CanCopy(id, ToSet(d.scenes[s][parent].kids))
       \/ mode = "DuplicateSource" /\ ~CanCopySources(d, item)
    THEN Refused(d)
    ELSE LET t      == d.scenes[s]
             copied == mode = "DuplicateSource"
             fresh  == IF HasChild(t, parent, id)
                       THEN CopyOf(id, ToSet(t[parent].kids)) ELSE id
             with   == IF copied THEN WithCopiedSources(d, item) ELSE d
             pasted == IF copied THEN OnCopiedSources(d, item) ELSE item
         IN  IF HasChild(t, parent, fresh) THEN Refused(with)
             ELSE Accepted(WithScene(with, s, Appended(t, parent, fresh, pasted)))

(* add_scene_item *)
AddSceneItem(d, s, id, item) ==
    IF \/ s \notin Scenes(d)
       \/ ~ItemIsValid(d, s, item, 0)
       \/ HasChild(d.scenes[s], <<>>, id)
    THEN Refused(d)
    ELSE Accepted(WithScene(d, s, Appended(d.scenes[s], <<>>, id, item)))

(* duplicate_scene_item and duplicate_group_item *)
DuplicateItem(d, s, path, mode) ==
    LET at == Resolve(d, s, path)
    IN  IF ~at.ok THEN Refused(d)
        ELSE PasteItem(d, at.scene, Front(at.path), Last(at.path),
                       ItemAt(d.scenes[at.scene], at.path), mode)

(* An edit of the scene that owns the target. *)
InOwner(d, at, t) == Accepted(WithScene(d, at.scene, t))

(* remove_scene_item and remove_group_item: locks are not looked at. *)
RemoveItem(d, s, path) ==
    LET at == Resolve(d, s, path)
    IN  IF ~at.ok THEN Refused(d)
        ELSE InOwner(d, at, Detached(d.scenes[at.scene], {at.path}))

(* remove_scene_items: local targets, all unlocked. *)
RemoveItems(d, s, paths) ==
    LET t == d.scenes[s]
    IN  IF \/ paths = {}
           \/ s \notin Scenes(d)
           \/ \E p \in paths : \/ p \notin ItemPaths(t)
                               \/ Len(p) > MaxDepth + 1
                               \/ ~PathUnlocked(t, p)
        THEN Refused(d)
        ELSE Accepted(WithScene(d, s, Detached(t, paths)))

(* set_scene_item_locked and set_group_item_locked *)
SetItemLocked(d, s, path, locked) ==
    LET at == Resolve(d, s, path)
    IN  IF ~at.ok THEN Refused(d)
        ELSE InOwner(d, at, [d.scenes[at.scene] EXCEPT ![at.path].locked = locked])

(* move_scene_item and move_group_item *)
MoveItem(d, s, path, index) ==
    LET at == Resolve(d, s, path)
        t  == d.scenes[at.scene]
    IN  IF ~at.ok \/ index >= Len(t[Front(at.path)].kids) THEN Refused(d)
        ELSE InOwner(d, at, MovedWithin(t, at.path, index))

-----------------------------------------------------------------------------
(* Grouping *)

(* The group item around the children ids of parent, in their order. *)
GroupOf(t, parent, ids) ==
    LET below == UNION {Below(t, Append(parent, id)) : id \in ids}
    IN  [q \in {<<>>} \cup {Beyond(parent, r) : r \in below} |->
            IF q = <<>> THEN Node("group", <<>>, Among(t[parent].kids, ids))
            ELSE t[parent \o q]]

(* Mutant: the index is taken after the children are gone. *)
LastIndex(list, ids) == Len(Except(list, ids))

(* The zero-based index of the first of ids in the list. *)
FirstIndex(list, ids) ==
    (CHOOSE i \in DOMAIN list :
        list[i] \in ids /\ \A k \in 1..(i - 1) : list[k] \notin ids) - 1

(* group_scene_items_target and group_scene_items: two or more items of one
   owner and parent go, unlocked and in order, into a new group at the place of
   the first. *)
GroupItems(d, s, paths, group) ==
    LET owners == {Resolve(d, s, p) : p \in paths}
        one    == CHOOSE o \in owners : TRUE
        parent == Front(one.path)
        t      == d.scenes[one.scene]
        ids    == {Last(o.path) : o \in owners}
        list   == t[parent].kids
    IN  IF \/ Cardinality(paths) < 2
           \/ \E o \in owners : ~o.ok
           \/ \E o \in owners : <<o.scene, Front(o.path)>> # <<one.scene, parent>>
           \/ Cardinality(ids) # Cardinality(paths)
           \/ HasChild(t, parent, group)
           \/ \E id \in ids : t[Append(parent, id)].locked
        THEN Refused(d)
        ELSE InOwner(d, one,
                     Attached(Detached(t, {Append(parent, id) : id \in ids}),
                              parent, group, FirstIndex(list, ids),
                              GroupOf(t, parent, ids)))

(* The group at path gives its children its place in its parent. *)
Dissolved(t, path) ==
    LET parent == Front(path)
        list   == t[parent].kids
        i      == IndexOf(list, Last(path))
        lifted == {parent \o Beyond(path, r) : r \in Below(t, path) \ {path}}
    IN  [q \in (DOMAIN t \ Below(t, path)) \cup lifted |->
            IF q \in lifted THEN t[path \o Beyond(parent, q)]
            ELSE IF q = parent
                 THEN [t[q] EXCEPT !.kids = SubSeq(list, 1, i - 1)
                                              \o t[path].kids
                                              \o SubSeq(list, i + 1, Len(list))]
                 ELSE t[q]]

(* ungroup_scene_item_target and ungroup_scene_item *)
UngroupItem(d, s, path) ==
    LET at       == Resolve(d, s, path)
        t        == d.scenes[at.scene]
        siblings == ToSet(t[Front(at.path)].kids) \ {Last(at.path)}
    IN  IF \/ ~at.ok
           \/ t[at.path].kind # "group"
           \/ t[at.path].locked
           \/ ToSet(t[at.path].kids) \cap siblings # {}
        THEN Refused(d)
        ELSE InOwner(d, at, Dissolved(t, at.path))

-----------------------------------------------------------------------------
(* Moves between parents *)

(* Mutant: the item stays where it was. *)
KeepsOriginal(d, from, to, id, index) ==
    LET item == ItemAt(d.scenes[from.scene], from.path)
    IN  WithScene(d, to.scene, Attached(d.scenes[to.scene], to.path, id, index, item))

(* The item leaves one scene and enters the other, or the same. *)
Carried(d, from, to, id, index) ==
    LET item == ItemAt(d.scenes[from.scene], from.path)
        left == WithScene(d, from.scene,
                          Detached(d.scenes[from.scene], {from.path}))
    IN  WithScene(left, to.scene,
                  Attached(left.scenes[to.scene], to.path, id, index, item))

(* move_scene_item_to_parent and move_scene_item_between_parents: only a move
   to another scene is validated again. *)
CarryItem(d, from, to, id, index) ==
    LET item == ItemAt(d.scenes[from.scene], from.path)
        room == d.scenes[to.scene][to.path].kids
        home == from.scene = to.scene
    IN  IF home /\ Front(from.path) = to.path
        THEN IF index >= Len(room) THEN Refused(d)
             ELSE InOwner(d, from,
                          MovedWithin(d.scenes[from.scene], from.path, index))
        ELSE IF \/ Contains(room, id)
                \/ index > Len(room)
                \/ home /\ IsPrefix(from.path, to.path)
                \/ ~home /\ ~ItemIsValid(d, to.scene, item, Len(to.path))
        THEN Refused(d)
        ELSE Accepted(Carried(d, from, to, id, index))

(* move_scene_item_to_parent_target *)
MoveItemToParent(d, s, path, destination, index) ==
    LET from == Resolve(d, s, path)
        to   == ResolveParent(d, s, destination)
    IN  IF \/ Len(destination) > MaxDepth
           \/ ~from.ok \/ from.locked
           \/ ~to.ok \/ to.locked
           \/ IsPrefix(path, destination)
           \/ d.scenes[from.scene][from.path].locked
        THEN Refused(d)
        ELSE CarryItem(d, from, to, Last(path), index)
=============================================================================
