-------------------------- MODULE PreviewRenderer --------------------------
(***************************************************************************)
(* The renderer behind the preview (obs-rs-gui/src/preview_sync.rs and     *)
(* preview_render.rs).  It keeps the project it has applied and, for every *)
(* source of it that was ever shown, a live source instance with the       *)
(* settings it runs on.  A new revision is applied as the difference to    *)
(* the applied project, so that no capture device is reopened needlessly.  *)
(*                                                                         *)
(* On the GPU a rendered picture is read back asynchronously: a scene is   *)
(* drawn into the target texture, one copy at a time is in flight, and a   *)
(* later call presents what has arrived.  A still scene, one made of       *)
(* colours only, is drawn once and then taken from a cache.                *)
(*                                                                         *)
(* A picture is what it shows: a scene and, for each source in it, the     *)
(* settings that source ran on.  One target is modelled, the Preview one;  *)
(* the targets of the other views differ in their role only.  Source       *)
(* identifiers are numbers, in identifier order.                           *)
(***************************************************************************)
EXTENDS ControlRoom, Functions

\* Settings a source refuses, a device of another kind or a value that does not
\* parse: creating or updating it with them fails.
Refused == "refused"

\* What is left in source_ids of a source that was destroyed to change its
\* kind and could not be created again.  Nothing takes it out of source_ids, so
\* the renderer is in order again only when it is built anew.
Gone == [kind |-> "gone", settings |-> "gone"]

Shown(d) == UNION {d.visible[s] : s \in SceneIds(d)}

\* Project::validate: a scene shows sources the profile defines.
ASSUME SourcesAssumption ==
    \A d \in Documents :
        /\ Shown(d) \subseteq DOMAIN d.sources
        /\ DOMAIN d.sources \subseteq Nat
        /\ \A s \in DOMAIN d.sources : d.sources[s] # Gone

IsStaticIfAny(d, scene) ==
    /\ scene \in SceneIds(d)
    /\ \E s \in d.visible[scene] : d.sources[s].kind = "color_source"

\* static_scenes: scenes that show something, and colours only.
IsStatic(d, scene) ==
    /\ scene \in SceneIds(d)
    /\ d.visible[scene] # {}
    /\ \A s \in d.visible[scene] : d.sources[s].kind = "color_source"

\* The picture of a scene, each source with the settings it is defined with.
Picture(d, scene) ==
    [scene |-> scene, sources |-> Restrict(d.sources, d.visible[scene])]

(***************************************************************************)
(* sync_source, for one source that is shown: created when it is new,      *)
(* replaced when its kind changed, updated when its settings changed.      *)
(* Changes are found by comparing with the applied project, not with the   *)
(* instance, so a source that is gone fails here only if its definition    *)
(* changed.                                                                *)
(***************************************************************************)
Fails(renderer, d, s) ==
    IF s \notin DOMAIN renderer.runtime THEN d.sources[s].settings = Refused
    ELSE \/ s \notin DOMAIN renderer.applied
         \/ /\ renderer.applied[s] # d.sources[s]
            /\ renderer.runtime[s] = Gone \/ d.sources[s].settings = Refused

FirstFailing(renderer, d) ==
    {s \in Shown(d) : /\ Fails(renderer, d, s)
                      /\ \A t \in Shown(d) : Fails(renderer, d, t) => s <= t}

Instance(renderer, d, s) ==
    IF \/ s \notin DOMAIN renderer.runtime
       \/ renderer.applied[s] # d.sources[s]
    THEN d.sources[s] ELSE renderer.runtime[s]

\* The instances once the first sources shown, up to one that fails, are synced.
SyncedUpTo(renderer, d, last) ==
    LET done == {s \in Shown(d) : s < last}
        replaced == {s \in {last} \cap DOMAIN renderer.runtime \cap DOMAIN renderer.applied :
                         renderer.applied[s].kind # d.sources[s].kind}
    IN  [s \in DOMAIN renderer.runtime \cup done |->
            IF s \in done THEN Instance(renderer, d, s)
            ELSE IF s \in replaced THEN Gone ELSE renderer.runtime[s]]

\* The instances once every source shown is synced.
Synced(renderer, d) ==
    [s \in DOMAIN renderer.runtime \cup Shown(d) |->
        IF s \in Shown(d) THEN Instance(renderer, d, s) ELSE renderer.runtime[s]]

\* sync_scenes cannot attach a source that is gone to the scenes that show it.
AttachFails(renderer, d) == \E s \in Shown(d) : Synced(renderer, d)[s] = Gone

\* retire_sources: the sources no longer defined, and one it cannot destroy.
Removed(renderer, d) == DOMAIN renderer.runtime \ DOMAIN d.sources
RetireFails(renderer, d) == \E s \in Removed(renderer, d) : renderer.runtime[s] = Gone

CanSync(renderer, d) ==
    /\ FirstFailing(renderer, d) = {}
    /\ ~AttachFails(renderer, d)
    /\ ~RetireFails(renderer, d)

(***************************************************************************)
(* PreviewRenderer::new starts from an empty mirror of the same profile,   *)
(* so the first build is an update like any other.                         *)
(***************************************************************************)
EmptyRenderer(d, gpu) ==
    [runtime |-> <<>>, applied |-> <<>>, canvas |-> d.canvas, visible |-> <<>>,
     still |-> {}, cache |-> <<>>, gpu |-> gpu, in_flight |-> NULL, completed |-> NULL]

Without(runtime, sources) == [s \in DOMAIN runtime \ sources |-> runtime[s]]

\* apply_profile followed by applied := project: every source shown is in
\* line, the ones no longer defined are destroyed, the cache is emptied.
Applied(renderer, d) ==
    [renderer EXCEPT
        !.runtime = Without(Synced(renderer, d), Removed(renderer, d)),
        !.applied = d.sources,
        !.visible = d.visible,
        !.still = {scene \in SceneIds(d) : IsStatic(d, scene)},
        !.cache = <<>>]

(***************************************************************************)
(* The instances a sync that fails may leave: it stops at the first source *)
(* that fails, or all are synced and the scenes cannot be attached, or     *)
(* then some of the removed sources are destroyed, in any order, before    *)
(* the one that cannot be.  The applied project stays as it was.  What is  *)
(* attached meanwhile is not drawn: each later sync attaches it again.     *)
(***************************************************************************)
LeftByFailure(renderer, d) ==
    IF FirstFailing(renderer, d) # {}
    THEN {SyncedUpTo(renderer, d, s) : s \in FirstFailing(renderer, d)}
    ELSE {Without(Synced(renderer, d), gone) :
             gone \in IF AttachFails(renderer, d) THEN {{}}
                      ELSE SUBSET {s \in Removed(renderer, d) : renderer.runtime[s] # Gone}}

\* What the runtime makes of a scene: the sources attached to it, as they run.
Look(renderer, scene) ==
    [scene |-> scene, sources |-> Restrict(renderer.runtime, renderer.visible[scene])]

(***************************************************************************)
(* readback_async and the poll under it.  A copy that has arrived is       *)
(* presented, whatever was drawn meanwhile, and a new copy is started      *)
(* unless one is still in flight.                                          *)
(***************************************************************************)
Polled(renderer) ==
    IF renderer.in_flight # NULL /\ renderer.in_flight.arrived
    THEN [renderer EXCEPT !.completed = renderer.in_flight.picture, !.in_flight = NULL]
    ELSE renderer

Presented(renderer, drawn) ==
    LET polled == Polled(renderer)
    IN  [polled EXCEPT
            !.completed = NULL,
            !.in_flight = IF @ = NULL THEN [picture |-> drawn, arrived |-> FALSE] ELSE @]

Cached(renderer, scene, picture) ==
    IF scene \in renderer.still /\ picture # NULL /\ scene \notin DOMAIN renderer.cache
    THEN [renderer EXCEPT !.cache = [s \in DOMAIN @ \cup {scene} |->
                                        IF s = scene THEN picture ELSE @[s]]]
    ELSE renderer

(***************************************************************************)
(* render_target: the frame a request for a scene returns, and the         *)
(* renderer after it.  A scene that shows nothing has no frame.            *)
(***************************************************************************)
RenderedFrame(renderer, scene) ==
    IF scene = NULL THEN NULL
    ELSE IF scene \in DOMAIN renderer.cache THEN renderer.cache[scene]
    ELSE IF renderer.visible[scene] = {} THEN NULL
    ELSE IF renderer.gpu THEN Polled(renderer).completed
    ELSE Look(renderer, scene)

AfterRender(renderer, scene) ==
    IF scene = NULL \/ scene \in DOMAIN renderer.cache \/ renderer.visible[scene] = {}
    THEN renderer
    ELSE Cached(IF renderer.gpu THEN Presented(renderer, Look(renderer, scene)) ELSE renderer,
                scene, RenderedFrame(renderer, scene))

\* A poll-only request: what has arrived, without drawing anything.
PolledFrame(renderer) == IF renderer.gpu THEN Polled(renderer).completed ELSE NULL

AfterPoll(renderer) ==
    IF renderer.gpu THEN [Polled(renderer) EXCEPT !.completed = NULL] ELSE renderer

\* The running instances of everything shown are what the project defines.
Mirrors(renderer, d) ==
    /\ renderer.visible = d.visible
    /\ \A scene \in SceneIds(d) : Look(renderer, scene) = Picture(d, scene)

=============================================================================
