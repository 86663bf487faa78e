-------------------------- MODULE ProjectDocument --------------------------
(* One profile of a project document under every structural command of
   obs-rs-project (Project::apply), accepted or refused, in any order. *)
EXTENDS ProjectItems, FiniteSetsExt

CONSTANTS Documents,    \* the profiles the editing starts from
          NewScenes,    \* identifiers AddScene may be given
          NewSources,   \* identifiers AddSource may be given
          NewGroups,    \* identifiers GroupSceneItems may be given
          Filters,      \* filter identifiers
          MaxEdits,     \* accepted commands in a behaviour
          MaxIndex,     \* the largest index a command is given
          MaxSelected,  \* items selected for one command
          MaxItems      \* items in all scenes together

(* The profiles a document may hold. *)
IsTree(t) ==
    /\ IsFiniteSet(DOMAIN t)
    /\ DOMAIN t \subseteq Seq(Identifiers)
    /\ t \in [DOMAIN t -> Nodes]
    /\ <<>> \in DOMAIN t

IsProfile(d) ==
    /\ d = [sources |-> d.sources, scenes |-> d.scenes, order |-> d.order]
    /\ DOMAIN d.sources \subseteq Identifiers
    /\ d.sources \in [DOMAIN d.sources -> Seq(Filters)]
    /\ Scenes(d) \subseteq Identifiers
    /\ d.scenes = [s \in Scenes(d) |-> d.scenes[s]]
    /\ \A s \in Scenes(d) : IsTree(d.scenes[s]) /\ <<>> \in Groups(d.scenes[s])
    /\ d.order \in Seq(Identifiers)

(* Every list of a scene or a group is the children that are there, once. *)
TreeIsWhole(t) ==
    /\ \A p \in DOMAIN t : ToSet(t[p].kids) = {Last(q) : q \in
                               {r \in ItemPaths(t) : Front(r) = p}}
    /\ \A p \in DOMAIN t : Cardinality(ToSet(t[p].kids)) = Len(t[p].kids)
    /\ \A q \in ItemPaths(t) : Front(q) \in Groups(t)

(* What Project::parse refuses in a saved profile, but for the depth of its
   groups: an identifier twice in a list or in a source's filters, an item
   without its source or scene, scenes that show each other in a circle, an order
   that is not the scenes (codec.rs decode_source, validate_item_sources,
   validate_scene_references, restore_scene_order). *)
Parses(d) ==
    /\ \A c \in DOMAIN d.sources :
          Cardinality(ToSet(d.sources[c])) = Len(d.sources[c])
    /\ \A s \in Scenes(d) :
          /\ TreeIsWhole(d.scenes[s])
          /\ References(d.scenes[s], "source") \subseteq DOMAIN d.sources
          /\ SceneRefers(d, s) \subseteq Scenes(d)
          /\ \A t \in SceneRefers(d, s) : ~Reaches(d, t, s)
    /\ ToSet(d.order) = Scenes(d)
    /\ Len(d.order) = Cardinality(Scenes(d))

ASSUME DocumentsAssumption == \A d \in Documents : IsProfile(d) /\ Parses(d)
ASSUME IdentifiersAssumption ==
    NewScenes \cup NewSources \cup NewGroups \subseteq Identifiers

VARIABLES doc,      \* the profile
          outcome,  \* "refused", or what kind of command was accepted
          edits     \* accepted commands so far

editVars == <<doc, outcome, edits>>

ItemCount(d) ==
    Cardinality(UNION {{<<s, p>> : p \in ItemPaths(d.scenes[s])} : s \in Scenes(d)})

(* The targets a user sees: local paths, and those behind a scene reference. *)
Targets(d, s) ==
    ItemPaths(d.scenes[s]) \cup
    UNION {{p \o q : q \in ItemPaths(d.scenes[d.scenes[s][p].ref])}
              : p \in Leaves(d.scenes[s], "scene")}

Places(d, s) ==
    {p \in Targets(d, s) \cup {<<>>} : ResolveParent(d, s, p).ok}

Selections(S) == UNION {kSubset(n, S) : n \in 0..MaxSelected}

(* An accepted command within the bounds, or a refused one. *)
Do(kind, r) ==
    /\ r.ok => edits < MaxEdits /\ ItemCount(r.doc) <= MaxItems
    /\ doc' = r.doc
    /\ outcome' = IF r.ok THEN kind ELSE "refused"
    /\ edits' = IF r.ok THEN edits + 1 ELSE edits

(* What the clipboard may hold: it is emptied when another project is opened, not
   by the commands, so the item may be one of a profile as it was opened that the
   document no longer has, and its references may dangle by now. *)
Clipped == {doc} \cup Documents
Copied(d, s, p) == ItemAt(d.scenes[s], p)

AddsScene == \E s \in NewScenes : Do("edited", AddScene(doc, s, EmptyScene))
RemovesScene == \E s \in Scenes(doc) : Do("edited", RemoveScene(doc, s))
MovesScene ==
    \E s \in Scenes(doc), i \in 0..MaxIndex :
        Do("rearranged", MoveScene(doc, s, i))
DuplicatesScene ==
    \E s \in Scenes(doc), mode \in Modes :
        Do("edited", DuplicateScene(doc, s, mode))

AddsSource ==
    \E s \in Scenes(doc), source \in NewSources :
        Do("edited", AddSource(doc, s, source))
AddsSourceItem ==
    \E s \in Scenes(doc), source \in NewSources :
        Do("edited", AddSceneItem(doc, s, source, SourceItem(source)))
AddsSceneItem ==
    \E s \in Scenes(doc), target \in Scenes(doc) :
        Do("edited", AddSceneItem(doc, s, target, SceneItem(target)))
DuplicatesSource ==
    \E source \in DOMAIN doc.sources : Do("edited", DuplicateSource(doc, source))
RemovesSource ==
    \E source \in DOMAIN doc.sources : Do("edited", RemoveSource(doc, source))
EditsFilters ==
    \E source \in DOMAIN doc.sources, f \in Filters :
        \/ Do("edited", AddSourceFilter(doc, source, f))
        \/ Do("edited", RemoveSourceFilter(doc, source, f))
        \/ \E i \in 0..MaxIndex :
               Do("edited", MoveSourceFilter(doc, source, f, i))

PastesItem ==
    \E d \in Clipped, to \in Scenes(doc), mode \in Modes : \E from \in Scenes(d) :
        \E p \in ItemPaths(d.scenes[from]), parent \in Groups(doc.scenes[to]) :
            Do("edited", PasteItem(doc, to, parent, Last(p), Copied(d, from, p), mode))

RemovesItem ==
    \E s \in Scenes(doc) : \E p \in Targets(doc, s) :
        Do("edited", RemoveItem(doc, s, p))
RemovesItems ==
    \E s \in Scenes(doc) : \E ps \in Selections(ItemPaths(doc.scenes[s])) :
        Do("edited", RemoveItems(doc, s, ps))
DuplicatesItem ==
    \E s \in Scenes(doc), mode \in Modes : \E p \in Targets(doc, s) :
        Do("edited", DuplicateItem(doc, s, p, mode))
LocksItem ==
    \E s \in Scenes(doc), locked \in BOOLEAN : \E p \in Targets(doc, s) :
        Do("edited", SetItemLocked(doc, s, p, locked))
GroupsItems ==
    \E s \in Scenes(doc), g \in NewGroups : \E ps \in Selections(Targets(doc, s)) :
        Do("rearranged", GroupItems(doc, s, ps, g))
UngroupsItem ==
    \E s \in Scenes(doc) : \E p \in Targets(doc, s) :
        Do("rearranged", UngroupItem(doc, s, p))
MovesItem ==
    \E s \in Scenes(doc), i \in 0..MaxIndex : \E p \in Targets(doc, s) :
        Do("rearranged", MoveItem(doc, s, p, i))
MovesItemToParent ==
    \E s \in Scenes(doc), i \in 0..MaxIndex :
        \E p \in Targets(doc, s), to \in Places(doc, s) :
            Do("rearranged", MoveItemToParent(doc, s, p, to, i))

EditInit == doc \in Documents /\ outcome = "opened" /\ edits = 0

EditNext ==
    \/ AddsScene \/ RemovesScene \/ MovesScene \/ DuplicatesScene
    \/ AddsSource \/ AddsSourceItem \/ AddsSceneItem
    \/ DuplicatesSource \/ RemovesSource \/ EditsFilters
    \/ PastesItem \/ RemovesItem \/ RemovesItems \/ DuplicatesItem \/ LocksItem
    \/ GroupsItems \/ UngroupsItem \/ MovesItem \/ MovesItemToParent

EditSpec == EditInit /\ [][EditNext]_editVars

-----------------------------------------------------------------------------
(* After any commands, in any order, the document can be read back and flattened
   without end. *)
DocumentParses == Parses(doc)

(* "Returns a validation or reference error without intentionally applying a
   partial command" (Project::apply): a refused command leaves the profile as
   it was, the sources it copied before the refusal included. *)
RefusedChangesNothing == [][outcome' = "refused" => UNCHANGED doc]_editVars

(* How often each reference is used, and each lock held, in all scenes. *)
Uses(d) ==
    LET items == UNION {{<<s, p>> : p \in ItemPaths(d.scenes[s]) \ Groups(d.scenes[s])}
                           : s \in Scenes(d)}
        Look(i) == d.scenes[i[1]][i[2]]
    IN  [n \in {Look(i) : i \in items} |-> Cardinality({i \in items : Look(i) = n})]

(* Moving, ordering, grouping and ungrouping, across groups and scenes, neither
   lose an item nor make one: only where it is drawn changes. *)
RearrangingConserves ==
    [][outcome' = "rearranged" => Uses(doc') = Uses(doc)]_editVars

(* Consecutive children of one parent, by their places in its list. *)
Runs(t, parent) ==
    {{Append(parent, t[parent].kids[i]) : i \in a..b} :
        a \in 1..Len(t[parent].kids), b \in 1..Len(t[parent].kids)}

(* Ungrouping is the inverse of grouping: neighbours that are put in a group
   and taken out again are where they were, in the same order. *)
GroupingIsUndone ==
    \A s \in Scenes(doc), g \in NewGroups : \A parent \in Groups(doc.scenes[s]) :
        \A ps \in Runs(doc.scenes[s], parent) :
            LET grouped == GroupItems(doc, s, ps, g)
                undone  == UngroupItem(grouped.doc, s, Append(parent, g))
            IN  grouped.ok /\ (\A p \in ps : Last(p) # g)
                    => undone = Accepted(doc)
=============================================================================
