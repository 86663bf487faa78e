---------------------------- MODULE EngineAudio -----------------------------
(* The audio inputs of an engine session: the microphone and the desktop
   monitor, each selected by the user or followed automatically (audio.rs,
   session_controls.rs, session_runtime.rs), and the worker thread that
   discovers and opens automatic routes beside the engine (audio_routes.rs).

   The engine thread drains audio at the pace of the frames; the two threads
   share a channel of one request and a slot of one result.  Each request
   carries a sequence number, and a result is used only if its number is still
   the newest.  Numbers are compared in no other way, so that a request here
   carries `newest`, which ends when the engine takes the next number. *)
EXTENDS Naturals

CONSTANTS Channels,         \* the microphone and the desktop monitor
          Devices,          \* the devices of each channel
          Formats,          \* audio formats of the mix
          NULL,
          RefreshTicks,     \* ROUTE_REFRESH_INTERVAL_NANOS, in ticks of media time
          ReconnectTicks,   \* AUDIO_RECONNECT_INTERVAL_NANOS
          MaxChanges        \* bound: what users, devices and faults may change

ASSUME DevicesAssumption == \A c \in Channels : NULL \notin Devices[c]
ASSUME TicksAssumption == {RefreshTicks, ReconnectTicks} \subseteq Nat \ {0}
ASSUME MaxChangesAssumption == MaxChanges \in Nat

VARIABLES catalog,      \* the devices of each channel as the system has them
          changes,      \* changes made, up to MaxChanges
          selected,     \* audio_input_id and desktop_audio_id: NULL is automatic
          format,       \* config.audio_format
          active,       \* the open inputs; NULL is the fallback or silence
          reconnect,    \* ticks to the reconnect deadline, NULL without one
          refresh,      \* ticks to audio_route_refresh_at
          pending,      \* audio_route_request_pending
          step,         \* where the engine thread is in drain_audio_until
          queue,        \* the worker's request channel, which holds one
          worker,       \* the request being worked on, with what was discovered
          slot          \* the worker's result slot

routes == <<active, reconnect>>
system == <<catalog, changes>>
vars == <<catalog, changes, selected, format, active, reconnect, refresh,
          pending, step, queue, worker, slot>>

Spend == changes < MaxChanges /\ changes' = changes + 1

Spare == UNCHANGED changes

Catalogs(c) ==
    {k \in [available : SUBSET Devices[c], automatic : Devices[c] \cup {NULL}] :
        IF k.available = {} THEN k.automatic = NULL ELSE k.automatic \in k.available}

(* select_audio_device: the requested device and no other; without one the
   default, or the first device there is. *)
Wanted(k, requested) ==
    CASE requested = NULL -> k.automatic
      [] requested \in k.available -> requested
      [] OTHER -> NULL

Input(d, f) == IF d = NULL THEN NULL ELSE [device |-> d, format |-> f]

Device(input) == IF input = NULL THEN NULL ELSE input.device

(* open_audio_input, open_desktop_audio and their live forms, where nothing
   fails: what is available is opened, with its samples converted. *)
Opens(c, requested) == Wanted(catalog[c], requested)

Init ==
    /\ catalog \in [Channels -> UNION {Catalogs(c) : c \in Channels}]
    /\ \A c \in Channels : catalog[c] \in Catalogs(c)
    /\ changes = 0
    /\ selected = [c \in Channels |-> NULL]
    /\ format \in Formats
    /\ active = [c \in Channels |-> Input(Opens(c, NULL), format)]
    /\ reconnect = [c \in Channels |-> IF active[c] = NULL THEN ReconnectTicks ELSE NULL]
    /\ refresh = 0
    /\ pending = FALSE
    /\ step = "idle"
    /\ queue = NULL
    /\ worker = NULL
    /\ slot = NULL
-----------------------------------------------------------------------------
(* The user *)

Outdated(r) == IF r = NULL THEN NULL ELSE [r EXCEPT !.newest = FALSE]

(* Mutant: a change of the selection leaves the sequence number. *)
InvalidateKeepsNumber ==
    /\ pending' = FALSE
    /\ refresh' = 0
    /\ slot' = NULL
    /\ UNCHANGED <<queue, worker>>

(* invalidate_audio_route_requests: the next number is taken, and a result that
   is there already is thrown away. *)
Invalidate ==
    /\ pending' = FALSE
    /\ refresh' = 0
    /\ slot' = NULL
    /\ queue' = Outdated(queue)
    /\ worker' = Outdated(worker)

(* audio_reconnect_deadline is a second on the media clock: ahead in a new
   session, over in any other. *)
Reopened(c, d, f, input, deadline) ==
    /\ input \in {Input(Opens(c, d), f), NULL}
    /\ deadline \in IF input = NULL THEN {0, ReconnectTicks} ELSE {NULL}

(* set_audio_input_id and set_desktop_audio_id *)
SelectDevice(c, d) ==
    /\ step = "idle"
    /\ Spend
    /\ selected' = [selected EXCEPT ![c] = d]
    /\ \E input \in {Input(Opens(c, d), format), NULL}, t \in {0, ReconnectTicks, NULL} :
          /\ Reopened(c, d, format, input, t)
          /\ active' = [active EXCEPT ![c] = input]
          /\ reconnect' = [reconnect EXCEPT ![c] = t]
    /\ Invalidate
    /\ UNCHANGED <<catalog, format, step>>

(* set_audio_format opens both inputs again; it is refused while an output
   runs. *)
SetAudioFormat(f) ==
    /\ step = "idle"
    /\ f # format
    /\ Spend
    /\ format' = f
    /\ \E opened \in [Channels -> BOOLEAN] :
          active' = [c \in Channels |->
              IF opened[c] THEN Input(Opens(c, selected[c]), f) ELSE NULL]
    /\ reconnect' \in [Channels -> {0, ReconnectTicks, NULL}]
    /\ \A c \in Channels : Reopened(c, selected[c], f, active'[c], reconnect'[c])
    /\ Invalidate
    /\ UNCHANGED <<catalog, selected, step>>

(* A device is plugged in or pulled out, or another becomes the default. *)
CatalogChanges(c) ==
    /\ Spend
    /\ \E k \in Catalogs(c) \ {catalog[c]} : catalog' = [catalog EXCEPT ![c] = k]
    /\ UNCHANGED <<selected, format, routes, refresh, pending, step, queue, worker, slot>>
-----------------------------------------------------------------------------
(* The engine thread: drain_audio_until, once a frame *)

Earlier(t) == IF t \in {0, NULL} THEN t ELSE t - 1

Frame ==
    /\ step = "idle"
    /\ step' = "poll"
    /\ refresh' = Earlier(refresh)
    /\ reconnect' = [c \in Channels |-> Earlier(reconnect[c])]
    /\ UNCHANGED <<system, selected, format, active, pending, queue, worker, slot>>

(* Mutant: a request is ticked off only if it changed a route. *)
TakeResultLeavesPending ==
    /\ step = "poll"
    /\ slot # NULL
    /\ slot' = NULL
    /\ LET Used(c) == slot.newest /\ slot.opened[c] # NULL
       IN  /\ active' = [c \in Channels |-> IF Used(c) THEN slot.opened[c] ELSE active[c]]
           /\ reconnect' = [c \in Channels |-> IF Used(c) THEN NULL ELSE reconnect[c]]
           /\ pending' = (pending /\ \A c \in Channels : ~Used(c))
    /\ UNCHANGED <<system, selected, format, refresh, step, queue, worker>>

(* poll_automatic_audio_routes takes what is in the slot, if it is there: an
   opened route replaces the input, whatever became of that since; a route that
   is unchanged or unavailable changes nothing. *)
TakeResult ==
    /\ step = "poll"
    /\ slot # NULL
    /\ slot' = NULL
    /\ pending' = FALSE
    /\ LET Used(c) == slot.newest /\ slot.opened[c] # NULL
       IN  /\ active' = [c \in Channels |-> IF Used(c) THEN slot.opened[c] ELSE active[c]]
           /\ reconnect' = [c \in Channels |-> IF Used(c) THEN NULL ELSE reconnect[c]]
    /\ UNCHANGED <<system, selected, format, refresh, step, queue, worker>>

NothingToTake ==
    /\ step = "poll"
    /\ slot = NULL
    /\ step' = "schedule"
    /\ UNCHANGED <<system, selected, format, routes, refresh, pending, queue, worker, slot>>

(* The rest of poll_automatic_audio_routes: while an automatic route is open, a
   refresh is asked for at every interval.  The number is taken also when the
   channel still holds a request and refuses this one. *)
Due ==
    /\ \E c \in Channels : selected[c] = NULL /\ active[c] # NULL
    /\ refresh = 0
    /\ ~pending

Request ==
    [newest |-> TRUE, selected |-> selected, format |-> format,
     active |-> [c \in Channels |-> Device(active[c])], found |-> NULL]

Schedule ==
    /\ step = "schedule"
    /\ step' = "read"
    /\ IF Due
       THEN /\ refresh' = RefreshTicks
            /\ pending' = (queue = NULL)
            /\ queue' = IF queue = NULL THEN Request ELSE Outdated(queue)
            /\ worker' = Outdated(worker)
            /\ slot' = Outdated(slot)
       ELSE UNCHANGED <<refresh, pending, queue, worker, slot>>
    /\ UNCHANGED <<system, selected, format, routes>>

(* read_audio_block and read_desktop_block, for the blocks of a frame: a missing
   input is opened again at its deadline, and one that cannot be read is given
   up.  A device that is gone may fail at any time; another only as a fault. *)
Retries(c) == reconnect[c] = 0

Readable(c) ==
    IF Retries(c) THEN Input(Opens(c, selected[c]), format) ELSE active[c]

Present(c) == Readable(c) = NULL \/ Device(Readable(c)) \in catalog[c].available

Read ==
    /\ step = "read"
    /\ step' = "idle"
    /\ \E lost \in SUBSET Channels :
          /\ active' = [c \in Channels |-> IF c \in lost THEN NULL ELSE Readable(c)]
          /\ reconnect' = [c \in Channels |->
                IF active'[c] # NULL THEN NULL
                ELSE IF c \in lost \/ Retries(c) THEN ReconnectTicks
                ELSE reconnect[c]]
          /\ \A c \in lost : Readable(c) # NULL
          /\ IF \A c \in lost : ~Present(c) THEN Spare ELSE Spend
    /\ UNCHANGED <<catalog, selected, format, refresh, pending, queue, worker, slot>>
-----------------------------------------------------------------------------
(* The route worker: run_route_worker *)

Receive ==
    /\ worker = NULL
    /\ queue # NULL
    /\ worker' = queue
    /\ queue' = NULL
    /\ UNCHANGED <<system, selected, format, routes, refresh, pending, step, slot>>

(* refresh_routes: the devices are discovered once, for both channels. *)
Discover ==
    /\ worker # NULL
    /\ worker.found = NULL
    /\ \/ /\ worker' = [worker EXCEPT !.found =
                 [c \in Channels |-> Wanted(catalog[c], worker.selected[c])]]
          /\ Spare
       \/ /\ worker' = [worker EXCEPT !.found = [c \in Channels |-> NULL]]
          /\ Spend
    /\ UNCHANGED <<catalog, selected, format, routes, refresh, pending, step, queue, slot>>

(* refresh_route opens what differs from the input in use; the result replaces
   one that was not taken. *)
Differs(c) == worker.found[c] \notin {NULL, worker.active[c]}

OpenRoutes ==
    /\ worker # NULL
    /\ worker.found # NULL
    /\ \E failed \in SUBSET {c \in Channels : Differs(c)} :
          /\ slot' = [newest |-> worker.newest,
                      opened |-> [c \in Channels |->
                          IF Differs(c) /\ c \notin failed
                          THEN Input(worker.found[c], worker.format) ELSE NULL]]
          /\ \A c \in Channels :
                Differs(c) /\ worker.found[c] \notin catalog[c].available => c \in failed
          /\ IF \A c \in failed : worker.found[c] \notin catalog[c].available
             THEN Spare ELSE Spend
    /\ worker' = NULL
    /\ UNCHANGED <<catalog, selected, format, routes, refresh, pending, step, queue>>
-----------------------------------------------------------------------------
User ==
    \/ \E c \in Channels : \E d \in Devices[c] \cup {NULL} : SelectDevice(c, d)
    \/ \E f \in Formats : SetAudioFormat(f)

Engine == Frame \/ TakeResult \/ NothingToTake \/ Schedule \/ Read

Worker == Receive \/ Discover \/ OpenRoutes

Next == User \/ (\E c \in Channels : CatalogChanges(c)) \/ Engine \/ Worker

(* The engine thread goes on with frames for ever, and the worker with its
   requests: neither waits for the other. *)
Spec == Init /\ [][Next]_vars /\ WF_vars(Engine) /\ WF_vars(Worker)
-----------------------------------------------------------------------------
(* What is open is what was asked for: an input in the format of the mix, and,
   where the user selected a device, that device.  A route that the worker
   discovered before the selection changed must never replace it
   (audio_routes.rs:23, session_controls.rs:411). *)
SelectionIsPinned ==
    \A c \in Channels : active[c] # NULL =>
        /\ active[c].format = format
        /\ selected[c] # NULL => active[c].device = selected[c]

(* When devices, users and faults leave the session alone, each channel comes
   to the device it should have: the selected one, or the default.  The worker
   must have answered when the interval of a refresh is over: one that takes
   longer has every result outdated by the next request. *)
KeepsUp == step = "schedule" /\ refresh = 0 => queue = NULL /\ worker = NULL

Followed ==
    \A c \in Channels :
        LET d == Wanted(catalog[c], selected[c])
        IN  d # NULL => active[c] # NULL /\ active[c].device = d

DefaultIsFollowed == <>[]KeepsUp => <>[]Followed
=============================================================================
