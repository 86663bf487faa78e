---------------------------- MODULE StingerLoader ----------------------------
(* The clip of the stinger of the scene in Preview: the loader thread with its
   channel of one request and its slot of one result (media/stinger_loader.rs),
   the session that owns one load (ui/stinger_loader.rs), and the controller
   that follows the selected scene at every tick of the window and keeps the
   intent of a Take that came before its clip (gui/stinger_loader.rs,
   stinger_take.rs).  Two threads: the window's, whose steps are whole
   callbacks, and the loader's. *)
EXTENDS Naturals

CONSTANTS Specs,            \* stinger resources: [path, preload]
          Formats,          \* formats of the canvas
          NULL,             \* none of them
          MaxChanges        \* bound: selections and canvas changes by the user

Outcomes == [spec : Specs, format : Formats \cup {NULL}]

Requests ==
    [id : Nat, spec : Specs, format : Formats, outcome : Outcomes \cup {NULL}]

(* NULL is no resource, no format, no clip and no request. *)
NullIsNoLoad ==
    NULL \notin Specs /\ NULL \notin Formats /\ NULL \notin Outcomes /\ NULL \notin Requests

VARIABLES wanted,       \* the stinger of the scene in Preview, NULL without one
          canvas,       \* the format of the active profile
          changes,      \* changes made, up to MaxChanges
          session,      \* StingerLoadSession: its state, target and next number
          pending,      \* pending_take: the resource a Take waits for
          channel,      \* the request in the channel
          loading,      \* the request in the loader, with its outcome
          latest,       \* latest_request_id of the slot
          result        \* the result in the slot

user == <<wanted, canvas, changes>>
vars == <<wanted, canvas, changes, session, pending, channel, loading, latest, result>>

Init ==
    /\ wanted = NULL
    /\ canvas \in Formats
    /\ changes = 0
    /\ session = [state |-> "Idle", id |-> 0, spec |-> NULL, clip |-> NULL,
                  target |-> canvas, next |-> 1]
    /\ pending = NULL
    /\ channel = NULL
    /\ loading = NULL
    /\ latest = 0
    /\ result = NULL
-----------------------------------------------------------------------------
(* The session *)

Cleared(s) == [s EXCEPT !.state = "Idle", !.id = 0, !.spec = NULL, !.clip = NULL]

(* Mutant: another format leaves the clip that is ready. *)
TargetedKeepsClip(s, f) == [s EXCEPT !.target = f]

(* set_target_format *)
Targeted(s, f) ==
    IF s.target = f THEN s ELSE [Cleared(s) EXCEPT !.target = f]

(* matches_current_spec *)
Matches(s, spec) == s.state # "Idle" /\ s.spec = spec

(* try_submit is refused by a full channel, and while the loader holds the lock
   of the slot to store a result. *)
Storing == loading # NULL /\ loading.outcome # NULL

(* try_request: an accepted request empties the slot and makes its number the
   latest; a refused one leaves slot and session as they were. *)
Accepted(s, spec) ==
    /\ channel = NULL
    /\ channel' = [id |-> s.next, spec |-> spec, format |-> s.target, outcome |-> NULL]
    /\ latest' = s.next
    /\ result' = NULL
    /\ session' = [s EXCEPT !.state = "Loading", !.id = s.next, !.spec = spec,
                            !.clip = NULL, !.next = s.next + 1]

(* Mutant: the session is Loading also when its request was refused. *)
RefusedIsLoading(s, spec) ==
    /\ channel # NULL \/ Storing
    /\ session' = [s EXCEPT !.state = "Loading", !.id = s.next, !.spec = spec,
                            !.next = s.next + 1]
    /\ UNCHANGED <<channel, latest, result>>

Refused(s, spec) ==
    /\ channel # NULL \/ Storing
    /\ session' = s
    /\ UNCHANGED <<channel, latest, result>>

(* poll: a result with another number than the current one is discarded. *)
Polled(s) ==
    IF s.state = "Idle" \/ s.id # result.id THEN s
    ELSE IF result.outcome.format = s.target
         THEN [s EXCEPT !.state = "Ready", !.clip = result.outcome]
         ELSE [s EXCEPT !.state = "Failed", !.clip = NULL]
-----------------------------------------------------------------------------
(* The user selects another scene, undoes, edits the stinger, or changes the
   canvas. *)
Select ==
    /\ changes < MaxChanges
    /\ changes' = changes + 1
    /\ wanted' \in Specs \cup {NULL}
    /\ canvas' \in Formats
    /\ UNCHANGED <<session, pending, channel, loading, latest, result>>

(* One tick of the window (start_preview_timer): sync with the selected scene,
   and the pending Take, if its clip has become ready.  A Take is dispatched,
   failed or forgotten. *)
Target == Targeted(session, canvas)

TickWithoutStinger ==
    /\ wanted = NULL
    /\ session' = Cleared(Target)
    /\ pending' = NULL
    /\ UNCHANGED <<channel, latest, result>>

TickRequests ==
    /\ wanted # NULL
    /\ wanted.preload
    /\ ~Matches(Target, wanted)
    /\ pending' = NULL
    /\ Accepted(Cleared(Target), wanted) \/ Refused(Cleared(Target), wanted)

TickPolls ==
    /\ wanted # NULL
    /\ ~wanted.preload \/ Matches(Target, wanted)
    /\ LET s    == IF Matches(Target, wanted) THEN Target ELSE Cleared(Target)
           take == IF Matches(Target, wanted) /\ pending = wanted THEN pending ELSE NULL
       IN  \/ /\ result = NULL \/ Storing
              /\ session' = s
              /\ pending' = take
              /\ UNCHANGED result
           \/ /\ result # NULL
              /\ session' = Polled(s)
              /\ pending' = NULL
              /\ result' = NULL
    /\ UNCHANGED <<channel, latest>>

Tick ==
    /\ TickWithoutStinger \/ TickRequests \/ TickPolls
    /\ UNCHANGED <<user, loading>>

(* The Take button: a clip that is ready is dispatched at once, whatever scene
   was selected since the last tick; otherwise the selected stinger is
   requested, unless it is under way, and the intent remembered. *)
Take ==
    /\ session.state \in {"Idle", "Loading"}
    /\ \/ /\ wanted = NULL
          /\ session' = Cleared(session)
          /\ pending' = NULL
          /\ UNCHANGED <<channel, latest, result>>
       \/ /\ wanted # NULL
          /\ Matches(Target, wanted)
          /\ session' = Target
          /\ pending' = wanted
          /\ UNCHANGED <<channel, latest, result>>
       \/ /\ wanted # NULL
          /\ ~Matches(Target, wanted)
          /\ \/ Accepted(Cleared(Target), wanted) /\ pending' = wanted
             \/ Refused(Cleared(Target), wanted) /\ pending' = NULL
    /\ UNCHANGED <<user, loading>>
-----------------------------------------------------------------------------
(* The loader: run_loader *)

Receive ==
    /\ loading = NULL
    /\ channel # NULL
    /\ loading' = channel
    /\ channel' = NULL
    /\ UNCHANGED <<user, session, pending, latest, result>>

(* The decoder answers with a clip of the resource, in the format asked for or
   another, or with an error, which has none. *)
Load ==
    /\ loading # NULL
    /\ loading.outcome = NULL
    /\ \E f \in Formats \cup {NULL} :
          loading' = [loading EXCEPT !.outcome = [spec |-> loading.spec, format |-> f]]
    /\ UNCHANGED <<user, session, pending, channel, latest, result>>

(* The result is stored only under the latest number. *)
Store ==
    /\ Storing
    /\ loading' = NULL
    /\ result' = IF latest = loading.id THEN loading ELSE result
    /\ UNCHANGED <<user, session, pending, channel, latest>>

Loader == Receive \/ Load \/ Store

Next == Select \/ Tick \/ Take \/ Loader

(* The timer goes on, and the decoder answers. *)
Spec == Init /\ [][Next]_vars /\ WF_vars(Tick) /\ WF_vars(Loader)
-----------------------------------------------------------------------------
(* What is ready is the clip of the resource it stands for, in the session's
   format; and whoever waits, the session or a Take, waits for a load that is
   under way and will be delivered.  No late result takes another's place, and
   none that is waited for is discarded. *)
LoadsAreCurrent ==
    /\ session.state = "Ready" =>
          session.clip = [spec |-> session.spec, format |-> session.target]
    /\ session.state = "Loading" =>
          /\ latest = session.id
          /\ \E r \in {channel, loading, result} \ {NULL} :
                /\ r.id = session.id
                /\ r.spec = session.spec
                /\ r.format = session.target
    /\ pending # NULL => session.state = "Loading" /\ session.spec = pending

(* However selections, refusals and late results fall, when the user is done the
   stinger of the selected scene is ready in the format of the canvas, or
   reported as failed, and no Take is left waiting. *)
Settled ==
    /\ pending = NULL
    /\ wanted # NULL /\ wanted.preload =>
          /\ session.state \in {"Ready", "Failed"}
          /\ session.spec = wanted
          /\ session.target = canvas

StingerSettles == <>[]Settled
=============================================================================
