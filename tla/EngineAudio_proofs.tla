------------------------- MODULE EngineAudio_proofs -------------------------
(* Two workers that answer late: for any devices, formats and intervals, an open
   audio input is the selected one in the format of the mix, and for any stingers
   and canvases the clip that is ready, or waited for, is the one last asked for. *)
EXTENDS LateResults, TLAPS

(* What an input of channel c must be under the present selection. *)
Obeys(input, c) ==
    input # NULL =>
        /\ input.format = format
        /\ selected[c] # NULL => input.device = selected[c]

Fields == {"newest", "selected", "format", "active", "found"}

Shapes ==
    /\ DOMAIN selected = Channels
    /\ DOMAIN active = Channels
    /\ queue # NULL => DOMAIN queue = Fields
    /\ worker # NULL => DOMAIN worker = Fields
    /\ slot # NULL => DOMAIN slot = {"newest", "opened"}

(* A request that still has the newest number was made under the present
   selection: whoever changes that takes a number. *)
Current(r) == r.newest => r.selected = selected /\ r.format = format

QueueCurrent == queue # NULL => Current(queue) /\ queue.found = NULL

WorkerCurrent ==
    worker # NULL =>
        /\ Current(worker)
        /\ worker.found # NULL =>
              \A c \in Channels :
                  worker.found[c] # NULL /\ worker.selected[c] # NULL =>
                      worker.found[c] = worker.selected[c]

SlotCurrent ==
    slot # NULL /\ slot.newest => \A c \in Channels : Obeys(slot.opened[c], c)

IInv ==
    /\ Shapes
    /\ QueueCurrent
    /\ WorkerCurrent
    /\ SlotCurrent
    /\ \A c \in Channels : Obeys(active[c], c)
-----------------------------------------------------------------------------
(* select_audio_device never puts another device in the place of the requested
   one. *)
LEMMA WantedIsRequested ==
    ASSUME NEW k, NEW d, d # NULL
    PROVE  Wanted(k, d) \in {d, NULL}
BY DEF Wanted

(* What is opened on request obeys a selection of that request. *)
LEMMA InputFields ==
    ASSUME NEW d, NEW f, d # NULL
    PROVE  Input(d, f).device = d /\ Input(d, f).format = f
BY DEF Input

(* An outdated request or result keeps its fields and is not the newest. *)
LEMMA OutdatedIsOld ==
    ASSUME NEW r, r # NULL, "newest" \in DOMAIN r
    PROVE  /\ DOMAIN Outdated(r) = DOMAIN r
           /\ Outdated(r).newest = FALSE
           /\ \A x \in DOMAIN r \ {"newest"} : Outdated(r)[x] = r[x]
BY DEF Outdated

LEMMA InitIInv == Init => IInv
<1> SUFFICES ASSUME Init PROVE IInv
  OBVIOUS
<1>1. Shapes
  BY DEF Init, Shapes
<1>2. QueueCurrent /\ WorkerCurrent /\ SlotCurrent
  BY DEF Init, QueueCurrent, WorkerCurrent, SlotCurrent
<1>3. \A c \in Channels : Obeys(active[c], c)
  BY DEF Init, Obeys, Input
<1> QED BY <1>1, <1>2, <1>3 DEF IInv

(* The next number makes everything on its way out of date, so that it cannot
   contradict a selection that changes with it. *)
LEMMA InvalidateCurrent ==
    ASSUME Shapes, QueueCurrent, WorkerCurrent, Invalidate
    PROVE  /\ queue' # NULL => DOMAIN queue' = Fields
           /\ worker' # NULL => DOMAIN worker' = Fields
           /\ slot' = NULL
           /\ QueueCurrent'
           /\ WorkerCurrent'
<1>1. slot' = NULL /\ queue' = Outdated(queue) /\ worker' = Outdated(worker)
  BY DEF Invalidate
<1>3. queue # NULL =>
         DOMAIN queue' = Fields /\ queue'.newest = FALSE /\ queue'.found = queue.found
  BY <1>1, OutdatedIsOld DEF Shapes, Fields
<1>4. worker = NULL => worker' = NULL
  BY <1>1 DEF Outdated
<1>5. worker # NULL =>
         /\ DOMAIN worker' = Fields
         /\ worker'.newest = FALSE
         /\ worker'.found = worker.found
         /\ worker'.selected = worker.selected
  BY <1>1, OutdatedIsOld DEF Shapes, Fields
<1>6. queue = NULL => queue' = NULL
  BY <1>1 DEF Outdated
<1>7. QueueCurrent'
  BY <1>3, <1>6 DEF QueueCurrent, Current
<1>8. WorkerCurrent'
  BY <1>4, <1>5 DEF WorkerCurrent, Current
<1> QED BY <1>1, <1>3, <1>4, <1>5, <1>6, <1>7, <1>8

(* What an opening by the engine leaves obeys what it was asked for. *)
LEMMA OpenedObeys ==
    ASSUME NEW c, NEW d, NEW f, NEW input \in {Input(Opens(c, d), f), NULL}, input # NULL
    PROVE  /\ input.format = f
           /\ d # NULL => input.device = d
<1>1. Opens(c, d) # NULL
  BY DEF Input
<1>2. input.format = f /\ input.device = Opens(c, d)
  BY <1>1, InputFields
<1>3. d # NULL => Opens(c, d) = d
  BY <1>1, WantedIsRequested DEF Opens
<1> QED BY <1>2, <1>3

LEMMA SelectDeviceStep ==
    ASSUME IInv, NEW c \in Channels, NEW d \in Devices[c] \cup {NULL}, SelectDevice(c, d)
    PROVE  IInv'
<1>1. PICK input, t :
         /\ Reopened(c, d, format, input, t)
         /\ active' = [active EXCEPT ![c] = input]
  BY DEF SelectDevice
<1>2. /\ selected' = [selected EXCEPT ![c] = d]
      /\ Invalidate
      /\ format' = format
  BY DEF SelectDevice
<1>3. /\ DOMAIN selected' = Channels /\ selected'[c] = d
      /\ DOMAIN active' = Channels /\ active'[c] = input
      /\ \A e \in Channels \ {c} : selected'[e] = selected[e] /\ active'[e] = active[e]
  BY <1>1, <1>2 DEF IInv, Shapes
<1>4. input # NULL => input.format = format /\ (d # NULL => input.device = d)
  BY <1>1, OpenedObeys DEF Reopened
<1>5. \A e \in Channels : Obeys(active[e], e)'
  BY <1>2, <1>3, <1>4 DEF IInv, Obeys
<1>6. Shapes' /\ QueueCurrent' /\ WorkerCurrent' /\ SlotCurrent'
  BY <1>2, <1>3, InvalidateCurrent DEF IInv, Shapes, SlotCurrent
<1> QED BY <1>5, <1>6 DEF IInv

LEMMA SetAudioFormatStep ==
    ASSUME IInv, NEW f \in Formats, SetAudioFormat(f)
    PROVE  IInv'
<1>1. /\ format' = f /\ selected' = selected
      /\ Invalidate
      /\ \A c \in Channels : Reopened(c, selected[c], f, active'[c], reconnect'[c])
      /\ DOMAIN active' = Channels
  BY DEF SetAudioFormat
<1>2. ASSUME NEW c \in Channels
      PROVE  Obeys(active[c], c)'
  <2>1. active'[c] \in {Input(Opens(c, selected[c]), f), NULL}
    BY <1>1 DEF Reopened
  <2>2. active'[c] # NULL =>
           /\ active'[c].format = f
           /\ selected[c] # NULL => active'[c].device = selected[c]
    BY <2>1, OpenedObeys
  <2> QED BY <1>1, <2>2 DEF Obeys
<1>3. Shapes' /\ QueueCurrent' /\ WorkerCurrent' /\ SlotCurrent'
  BY <1>1, InvalidateCurrent DEF IInv, Shapes, SlotCurrent
<1> QED BY <1>2, <1>3 DEF IInv

(* An engine step that takes a result, asks for a refresh or reads the blocks
   of a frame. *)
LEMMA TakeResultStep ==
    ASSUME IInv, TakeResult
    PROVE  IInv'
<1>1. /\ slot # NULL /\ slot' = NULL
      /\ DOMAIN active' = Channels
      /\ UNCHANGED <<selected, format, queue, worker>>
  BY DEF TakeResult
<1>2. ASSUME NEW c \in Channels
      PROVE  Obeys(active[c], c)'
  <2>1. \/ active'[c] = active[c]
        \/ slot.newest /\ active'[c] = slot.opened[c]
    BY DEF TakeResult
  <2>2. Obeys(active[c], c) /\ (slot.newest => Obeys(slot.opened[c], c))
    BY <1>1 DEF IInv, SlotCurrent
  <2> QED BY <1>1, <2>1, <2>2 DEF Obeys
<1>3. Shapes' /\ SlotCurrent'
  BY <1>1 DEF IInv, Shapes, SlotCurrent
<1>4. QueueCurrent' /\ WorkerCurrent'
  BY <1>1 DEF IInv, QueueCurrent, WorkerCurrent, Current
<1> QED BY <1>2, <1>3, <1>4 DEF IInv

LEMMA RequestFields ==
    /\ DOMAIN Request = Fields
    /\ Request.selected = selected
    /\ Request.format = format
    /\ Request.found = NULL
BY DEF Request, Fields

LEMMA ScheduleStep ==
    ASSUME IInv, Schedule
    PROVE  IInv'
<1>1. UNCHANGED <<selected, format, active>>
  BY DEF Schedule, routes
<1>2. \A c \in Channels : Obeys(active[c], c)'
  BY <1>1 DEF IInv, Obeys
<1>3. CASE ~Due
  <2>1. UNCHANGED <<queue, worker, slot>>
    BY <1>3 DEF Schedule
  <2> QED BY <1>1, <1>2, <2>1
          DEF IInv, Shapes, QueueCurrent, WorkerCurrent, SlotCurrent, Current, Obeys
<1>4. CASE Due
  <2>1. /\ queue' = IF queue = NULL THEN Request ELSE Outdated(queue)
        /\ worker' = Outdated(worker)
        /\ slot' = Outdated(slot)
    BY <1>4 DEF Schedule
  <2>2. queue = NULL => DOMAIN queue' = Fields /\ Current(queue)' /\ queue'.found = NULL
    BY <1>1, <2>1, RequestFields DEF Current
  <2>3. queue # NULL =>
           DOMAIN queue' = Fields /\ queue'.newest = FALSE /\ queue'.found = queue.found
    BY <2>1, OutdatedIsOld DEF IInv, Shapes, Fields
  <2>4. worker # NULL =>
           /\ DOMAIN worker' = Fields
           /\ worker'.newest = FALSE
           /\ worker'.found = worker.found
           /\ worker'.selected = worker.selected
    BY <2>1, OutdatedIsOld DEF IInv, Shapes, Fields
  <2>5. worker = NULL => worker' = NULL
    BY <2>1 DEF Outdated
  <2>6. slot # NULL => DOMAIN slot' = {"newest", "opened"} /\ slot'.newest = FALSE
    BY <2>1, OutdatedIsOld DEF IInv, Shapes
  <2>7. slot = NULL => slot' = NULL
    BY <2>1 DEF Outdated
  <2>8. Shapes'
    BY <1>1, <2>2, <2>3, <2>4, <2>5, <2>6, <2>7 DEF IInv, Shapes
  <2>9. QueueCurrent' /\ SlotCurrent'
    BY <2>2, <2>3, <2>6, <2>7 DEF IInv, QueueCurrent, SlotCurrent, Current
  <2>10. WorkerCurrent'
    BY <2>4, <2>5 DEF IInv, WorkerCurrent, Current
  <2> QED BY <1>2, <2>8, <2>9, <2>10 DEF IInv
<1> QED BY <1>3, <1>4

LEMMA ReadStep ==
    ASSUME IInv, Read
    PROVE  IInv'
<1>1. UNCHANGED <<selected, format, queue, worker, slot>> /\ DOMAIN active' = Channels
  BY DEF Read
<1>2. ASSUME NEW c \in Channels
      PROVE  Obeys(active[c], c)'
  <2>1. active'[c] \in {NULL, Readable(c)}
    BY DEF Read
  <2>2. Obeys(Readable(c), c)
    <3>1. CASE Retries(c)
      <4>1. Readable(c) \in {Input(Opens(c, selected[c]), format), NULL}
        BY <3>1 DEF Readable
      <4> QED BY <4>1, OpenedObeys DEF Obeys
    <3>2. CASE ~Retries(c)
      BY <3>2 DEF Readable, IInv
    <3> QED BY <3>1, <3>2
  <2> QED BY <1>1, <2>1, <2>2 DEF Obeys
<1>3. Shapes' /\ QueueCurrent' /\ WorkerCurrent' /\ SlotCurrent'
  BY <1>1 DEF IInv, Shapes, QueueCurrent, WorkerCurrent, SlotCurrent, Current, Obeys
<1> QED BY <1>2, <1>3 DEF IInv

(* The steps of the worker. *)
LEMMA ReceiveStep ==
    ASSUME IInv, Receive
    PROVE  IInv'
<1>1. /\ queue # NULL /\ worker' = queue /\ queue' = NULL
      /\ UNCHANGED <<selected, format, active, slot>>
  BY DEF Receive, routes
<1>2. Shapes' /\ QueueCurrent' /\ SlotCurrent' /\ \A c \in Channels : Obeys(active[c], c)'
  BY <1>1 DEF IInv, Shapes, QueueCurrent, SlotCurrent, Obeys
<1>3. WorkerCurrent'
  BY <1>1 DEF IInv, QueueCurrent, WorkerCurrent, Current
<1> QED BY <1>2, <1>3 DEF IInv

LEMMA DiscoverStep ==
    ASSUME IInv, Discover
    PROVE  IInv'
<1>1. /\ worker # NULL
      /\ UNCHANGED <<selected, format, active, queue, slot>>
  BY DEF Discover, routes
<1>2. PICK found \in {[c \in Channels |-> Wanted(catalog[c], worker.selected[c])],
                      [c \in Channels |-> NULL]} :
         worker' = [worker EXCEPT !.found = found]
  BY DEF Discover
<1>3. /\ DOMAIN worker' = Fields
      /\ worker'.found = found
      /\ worker'.newest = worker.newest
      /\ worker'.selected = worker.selected
      /\ worker'.format = worker.format
  BY <1>1, <1>2 DEF IInv, Shapes, Fields
<1>4. ASSUME NEW c \in Channels, found[c] # NULL, worker.selected[c] # NULL
      PROVE  found[c] = worker.selected[c]
  BY <1>4, <1>2, WantedIsRequested
<1>5. WorkerCurrent'
  <2>1. Current(worker)'
    BY <1>1, <1>3 DEF IInv, WorkerCurrent, Current
  <2> QED BY <2>1, <1>3, <1>4 DEF WorkerCurrent
<1>6. Shapes' /\ QueueCurrent' /\ SlotCurrent' /\ \A c \in Channels : Obeys(active[c], c)'
  BY <1>1, <1>3 DEF IInv, Shapes, QueueCurrent, SlotCurrent, Current, Obeys
<1> QED BY <1>5, <1>6 DEF IInv

LEMMA OpenRoutesStep ==
    ASSUME IInv, OpenRoutes
    PROVE  IInv'
<1>1. /\ worker # NULL /\ worker.found # NULL /\ worker' = NULL
      /\ UNCHANGED <<selected, format, active, queue>>
  BY DEF OpenRoutes, routes
<1>2. PICK failed \in SUBSET {c \in Channels : Differs(c)} :
         slot' = [newest |-> worker.newest,
                  opened |-> [c \in Channels |->
                      IF Differs(c) /\ c \notin failed
                      THEN Input(worker.found[c], worker.format) ELSE NULL]]
  BY DEF OpenRoutes
<1>3. ASSUME worker.newest, NEW c \in Channels, slot'.opened[c] # NULL
      PROVE  Obeys(slot.opened[c], c)'
  <2>1. worker.found[c] # NULL /\ slot'.opened[c] = Input(worker.found[c], worker.format)
    BY <1>2, <1>3 DEF Differs
  <2>2. /\ slot'.opened[c].format = worker.format
        /\ slot'.opened[c].device = worker.found[c]
    BY <2>1, InputFields
  <2>3. /\ worker.selected = selected /\ worker.format = format
        /\ worker.selected[c] # NULL => worker.found[c] = worker.selected[c]
    BY <1>1, <1>3, <2>1 DEF IInv, WorkerCurrent, Current
  <2> QED BY <1>1, <2>2, <2>3 DEF Obeys
<1>4. SlotCurrent'
  BY <1>2, <1>3 DEF SlotCurrent, Obeys
<1>5. Shapes' /\ QueueCurrent' /\ WorkerCurrent' /\ \A c \in Channels : Obeys(active[c], c)'
  BY <1>1, <1>2 DEF IInv, Shapes, QueueCurrent, WorkerCurrent, Current, Obeys
<1> QED BY <1>4, <1>5 DEF IInv

(* Every other step leaves what the invariant speaks of. *)
LEMMA OtherSteps ==
    ASSUME IInv, UNCHANGED <<selected, format, active, queue, worker, slot>>
    PROVE  IInv'
BY DEF IInv, Shapes, QueueCurrent, WorkerCurrent, SlotCurrent, Current, Obeys

LEMMA NextIInv == IInv /\ [Next]_vars => IInv'
<1> SUFFICES ASSUME IInv, [Next]_vars PROVE IInv'
  OBVIOUS
<1>1. ASSUME NEW c \in Channels, NEW d \in Devices[c] \cup {NULL}, SelectDevice(c, d)
      PROVE  IInv'
  BY <1>1, SelectDeviceStep
<1>2. ASSUME NEW f \in Formats, SetAudioFormat(f)
      PROVE  IInv'
  BY <1>2, SetAudioFormatStep
<1>3. ASSUME NEW c \in Channels, CatalogChanges(c)
      PROVE  IInv'
  BY <1>3, OtherSteps DEF CatalogChanges, routes
<1>4. ASSUME Frame \/ NothingToTake
      PROVE  IInv'
  BY <1>4, OtherSteps DEF Frame, NothingToTake, routes
<1>5. ASSUME Engine
      PROVE  IInv'
  BY <1>4, <1>5, TakeResultStep, ScheduleStep, ReadStep DEF Engine
<1>6. ASSUME Worker
      PROVE  IInv'
  BY <1>6, ReceiveStep, DiscoverStep, OpenRoutesStep DEF Worker
<1>7. CASE UNCHANGED vars
  BY <1>7, OtherSteps DEF vars
<1> QED BY <1>1, <1>2, <1>3, <1>5, <1>6, <1>7 DEF Next, User

(* An open input is always the selected one in the format of the mix. *)
THEOREM SelectionPinned == Spec => []SelectionIsPinned
<1>1. IInv => SelectionIsPinned
  BY DEF IInv, Obeys, SelectionIsPinned
<1> QED BY InitIInv, NextIInv, <1>1, PTL DEF Spec
-----------------------------------------------------------------------------
(* The stinger loader, which the same run checks.  Its session is told by the
   number of its load: whatever is under way or stored under that number was
   asked for the session's resource, in the session's format. *)
States == {"Idle", "Loading", "Ready", "Failed"}

SessionFields == {"state", "id", "spec", "clip", "target", "next"}

LoaderType ==
    /\ DOMAIN session = SessionFields
    /\ session.state \in States
    /\ session.next \in Nat
    /\ session.target \in Canvases
    /\ canvas \in Canvases
    /\ wanted \in Specs \cup {NULL}
    /\ {channel, loading, result} \subseteq Stinger!Requests \cup {NULL}

(* The load r carries the number of the session's load only if it is that. *)
Answers(r) ==
    r # NULL =>
        /\ r.id < session.next
        /\ session.state # "Idle" /\ r.id = session.id =>
              r.spec = session.spec /\ r.format = session.target

(* A request has no outcome before it was loaded, and then one of its resource;
   what is stored has the latest number. *)
Outcome ==
    /\ channel # NULL => channel.outcome = NULL
    /\ loading # NULL /\ loading.outcome # NULL => loading.outcome.spec = loading.spec
    /\ result # NULL =>
          /\ result.id = latest
          /\ result.outcome # NULL
          /\ result.outcome.spec = result.spec

Delivered ==
    session.state = "Loading" =>
        /\ latest = session.id
        /\ \E r \in {channel, loading, result} \ {NULL} : r.id = session.id

ReadyClip ==
    session.state = "Ready" =>
        session.clip = [spec |-> session.spec, format |-> session.target]

Waiting == take # NULL => session.state = "Loading" /\ session.spec = take

LoaderInv ==
    /\ LoaderType
    /\ session.state # "Idle" => session.id < session.next
    /\ Answers(channel) /\ Answers(loading) /\ Answers(result)
    /\ Outcome
    /\ Delivered
    /\ ReadyClip
    /\ Waiting

(* The session as a step leaves it before it asks for anything: with the load
   it had, or with none, and in the format of the canvas. *)
Keeps(s) ==
    /\ DOMAIN s = SessionFields
    /\ s.target \in Canvases
    /\ s.next = session.next
    /\ \/ s.state = "Idle"
       \/ s = session

LEMMA TargetKeeps ==
    ASSUME LoaderType
    PROVE  /\ Keeps(Stinger!Target)
           /\ Keeps(Stinger!Cleared(Stinger!Target))
           /\ Keeps(Stinger!Cleared(session))
           /\ Stinger!Cleared(Stinger!Target).state = "Idle"
           /\ Stinger!Cleared(session).state = "Idle"
<1>1. ASSUME NEW s, DOMAIN s = SessionFields
      PROVE  /\ DOMAIN Stinger!Cleared(s) = SessionFields
             /\ Stinger!Cleared(s).target = s.target
             /\ Stinger!Cleared(s).next = s.next
             /\ Stinger!Cleared(s).state = "Idle"
  BY <1>1 DEF Stinger!Cleared, SessionFields
<1>2. Keeps(Stinger!Cleared(session)) /\ Stinger!Cleared(session).state = "Idle"
  BY <1>1 DEF Keeps, LoaderType
<1>3. Keeps(Stinger!Target)
  <2>1. CASE session.target = canvas
    BY <2>1 DEF Keeps, LoaderType, Stinger!Target, Stinger!Targeted
  <2>2. CASE session.target # canvas
    <3>1. Stinger!Target = [Stinger!Cleared(session) EXCEPT !.target = canvas]
      BY <2>2 DEF Stinger!Target, Stinger!Targeted
    <3> QED BY <3>1, <1>1 DEF Keeps, LoaderType, SessionFields
  <2> QED BY <2>1, <2>2
<1>4. Keeps(Stinger!Cleared(Stinger!Target)) /\ Stinger!Cleared(Stinger!Target).state = "Idle"
  BY <1>1, <1>3 DEF Keeps
<1> QED BY <1>2, <1>3, <1>4

(* An accepted request is the session's load, and the only one of its number;
   a refused one leaves everything as it was. *)
LEMMA RequestKeepsInv ==
    ASSUME LoaderInv,
           NEW s, Keeps(s), s.state = "Idle", wanted # NULL,
           Stinger!Accepted(s, wanted) \/ Stinger!Refused(s, wanted),
           UNCHANGED <<wanted, canvas, loading>>,
           take' = NULL \/ (take' = wanted /\ Stinger!Accepted(s, wanted))
    PROVE  LoaderInv'
<1>1. CASE Stinger!Accepted(s, wanted)
  <2>1. /\ channel' = [id |-> s.next, spec |-> wanted, format |-> s.target, outcome |-> NULL]
        /\ latest' = s.next
        /\ result' = NULL
        /\ session' = [s EXCEPT !.state = "Loading", !.id = s.next, !.spec = wanted,
                                !.clip = NULL, !.next = s.next + 1]
    BY <1>1 DEF Stinger!Accepted
  <2>2. s.next \in Nat /\ s.target \in Canvases /\ wanted \in Specs
    BY DEF Keeps, LoaderInv, LoaderType
  <2>3. channel' \in Stinger!Requests
    BY <2>1, <2>2 DEF Stinger!Requests
  <2>4. channel' # NULL /\ channel'.id = s.next /\ channel'.spec = wanted
        /\ channel'.format = s.target /\ channel'.outcome = NULL
    BY <2>1, <2>3, NoLoadAssumption DEF Stinger!NullIsNoLoad
  <2>5. /\ DOMAIN session' = SessionFields
        /\ session'.state = "Loading" /\ session'.id = s.next /\ session'.spec = wanted
        /\ session'.next = s.next + 1 /\ session'.target = s.target
    BY <2>1 DEF Keeps, SessionFields
  <2>6. LoaderType'
    BY <2>2, <2>3, <2>1, <2>5 DEF LoaderType, LoaderInv, States
  <2>7. Answers(channel)'
    BY <2>2, <2>4, <2>5 DEF Answers
  <2>8. Answers(loading)'
    <3>1. loading # NULL => loading.id \in Nat /\ loading.id < s.next
      BY DEF LoaderInv, LoaderType, Answers, Keeps, Stinger!Requests
    <3> QED BY <3>1, <2>2, <2>5 DEF Answers
  <2>9. Answers(result)' /\ Outcome'
    BY <2>1, <2>4 DEF Answers, Outcome, LoaderInv
  <2>10. Delivered' /\ ReadyClip' /\ Waiting'
    BY <2>1, <2>4, <2>5 DEF Delivered, ReadyClip, Waiting
  <2> QED BY <2>2, <2>5, <2>6, <2>7, <2>8, <2>9, <2>10 DEF LoaderInv
<1>2. CASE Stinger!Refused(s, wanted) /\ ~Stinger!Accepted(s, wanted)
  <2>1. session' = s /\ UNCHANGED <<channel, latest, result>>
    BY <1>2 DEF Stinger!Refused
  <2>2. take' = NULL
    BY <1>2
  <2>3. LoaderType'
    BY <2>1 DEF LoaderType, LoaderInv, Keeps, States
  <2> QED BY <2>1, <2>2, <2>3 DEF LoaderInv, Keeps, Answers, Outcome, Delivered,
             ReadyClip, Waiting
<1> QED BY <1>1, <1>2

(* A poll takes the stored result: the session's own, or one it does not wait
   for. *)
LEMMA PollKeepsInv ==
    ASSUME LoaderInv,
           NEW s, Keeps(s), result # NULL, session' = Stinger!Polled(s),
           take' = NULL, result' = NULL,
           UNCHANGED <<wanted, canvas, loading, channel, latest>>
    PROVE  LoaderInv'
<1>1. CASE s.state = "Idle" \/ s.id # result.id
  <2>1. session' = s
    BY <1>1 DEF Stinger!Polled
  <2>2. s.state # "Loading"
    BY <1>1 DEF LoaderInv, Delivered, Outcome, Keeps
  <2>3. LoaderType'
    BY <2>1 DEF LoaderType, LoaderInv, Keeps, States
  <2> QED BY <2>1, <2>2, <2>3 DEF LoaderInv, Keeps, Answers, Outcome, Delivered,
             ReadyClip, Waiting
<1>2. CASE s.state # "Idle" /\ s.id = result.id
  <2>1. s = session
    BY <1>2 DEF Keeps
  <2>2. result.spec = session.spec /\ result.format = session.target
    BY <1>2, <2>1 DEF LoaderInv, Answers
  <2>3. result.outcome \in Stinger!Outcomes /\ result.outcome.spec = session.spec
    BY <2>2 DEF LoaderInv, LoaderType, Outcome, Stinger!Requests
  <2>4. /\ DOMAIN session' = SessionFields
        /\ session'.state \in {"Ready", "Failed"} /\ session'.id = session.id
        /\ session'.spec = session.spec /\ session'.next = session.next
        /\ session'.target = session.target
        /\ session'.state = "Ready" =>
              session'.clip = result.outcome /\ result.outcome.format = session.target
    BY <1>2, <2>1 DEF Stinger!Polled, LoaderInv, LoaderType, SessionFields
  <2>5. LoaderType'
    BY <2>4 DEF LoaderType, LoaderInv, States
  <2>6. Answers(channel)' /\ Answers(loading)' /\ Answers(result)'
    BY <1>2, <2>1, <2>4 DEF LoaderInv, Answers
  <2>7. ReadyClip'
    <3>1. ASSUME NEW c \in Stinger!Outcomes
          PROVE  c = [spec |-> c.spec, format |-> c.format]
      BY DEF Stinger!Outcomes
    <3> QED BY <3>1, <2>3, <2>4 DEF ReadyClip
  <2>8. Delivered' /\ Waiting' /\ Outcome'
    BY <2>4 DEF Delivered, Waiting, Outcome, LoaderInv
  <2> QED BY <1>2, <2>1, <2>4, <2>5, <2>6, <2>7, <2>8 DEF LoaderInv
<1> QED BY <1>1, <1>2

(* A step that asks for nothing and polls nothing. *)
LEMMA SyncKeepsInv ==
    ASSUME LoaderInv, NEW s, Keeps(s), session' = s,
           take' = NULL \/ (s.state = "Loading" /\ take' = s.spec),
           UNCHANGED <<wanted, canvas, loading, channel, latest, result>>
    PROVE  LoaderInv'
<1>1. LoaderType'
  BY DEF LoaderType, LoaderInv, Keeps, States
<1> QED BY <1>1 DEF LoaderInv, Keeps, Answers, Outcome, Delivered, ReadyClip, Waiting

LEMMA TickKeepsInv ==
    ASSUME LoaderInv, Stinger!Tick
    PROVE  LoaderInv'
<1> USE DEF Stinger!user
<1>1. LoaderType /\ Waiting
  BY DEF LoaderInv
<1>2. CASE Stinger!TickWithoutStinger
  BY <1>1, <1>2, TargetKeeps, SyncKeepsInv DEF Stinger!Tick, Stinger!TickWithoutStinger
<1>3. CASE Stinger!TickRequests
  BY <1>1, <1>3, TargetKeeps, RequestKeepsInv DEF Stinger!Tick, Stinger!TickRequests
<1>4. CASE Stinger!TickPolls
  <2> DEFINE s == IF Stinger!Matches(Stinger!Target, wanted) THEN Stinger!Target
                  ELSE Stinger!Cleared(Stinger!Target)
  <2>1. Keeps(s)
    BY <1>1, TargetKeeps
  <2>2. take' = NULL \/ (take' = take /\ take = wanted /\ s = session)
    <3>1. Stinger!Matches(Stinger!Target, wanted) => s = session
      BY <1>1, TargetKeeps DEF Keeps, Stinger!Matches
    <3> QED BY <1>4, <3>1 DEF Stinger!TickPolls
  <2>3. take' = NULL \/ (s.state = "Loading" /\ take' = s.spec)
    BY <2>2, <1>1 DEF Waiting
  <2>4. UNCHANGED <<wanted, canvas, loading, channel, latest>>
    BY <1>4 DEF Stinger!Tick, Stinger!TickPolls
  <2>5. CASE session' = s /\ UNCHANGED result
    BY <2>1, <2>3, <2>4, <2>5, SyncKeepsInv
  <2>6. CASE result # NULL /\ session' = Stinger!Polled(s) /\ take' = NULL /\ result' = NULL
    BY <2>1, <2>4, <2>6, PollKeepsInv
  <2> QED BY <1>4, <2>5, <2>6 DEF Stinger!TickPolls
<1> QED BY <1>2, <1>3, <1>4 DEF Stinger!Tick

LEMMA TakeKeepsInv ==
    ASSUME LoaderInv, Stinger!Take
    PROVE  LoaderInv'
<1> USE DEF Stinger!user
<1>1. LoaderType /\ UNCHANGED <<wanted, canvas, loading>>
  BY DEF LoaderInv, Stinger!Take
<1>2. CASE wanted = NULL
  BY <1>1, <1>2, TargetKeeps, SyncKeepsInv DEF Stinger!Take
<1>3. CASE wanted # NULL /\ Stinger!Matches(Stinger!Target, wanted)
  <2>1. Stinger!Target = session /\ session.spec = wanted /\ session.state # "Idle"
    BY <1>1, <1>3, TargetKeeps DEF Keeps, Stinger!Matches
  <2>2. /\ session.state = "Loading" /\ session' = session /\ take' = wanted
        /\ UNCHANGED <<channel, latest, result>>
    BY <1>3, <2>1 DEF Stinger!Take
  <2>3. Keeps(session)
    BY <1>1 DEF Keeps, LoaderType
  <2> QED BY <1>1, <2>1, <2>2, <2>3, SyncKeepsInv
<1>4. CASE wanted # NULL /\ ~Stinger!Matches(Stinger!Target, wanted)
  BY <1>1, <1>4, TargetKeeps, RequestKeepsInv DEF Stinger!Take
<1> QED BY <1>2, <1>3, <1>4

LEMMA LoaderKeepsInv ==
    ASSUME LoaderInv, Stinger!Loader
    PROVE  LoaderInv'
<1> USE DEF Stinger!user
<1>1. CASE Stinger!Receive
  <2>1. /\ loading' = channel /\ channel' = NULL /\ loading = NULL
        /\ UNCHANGED <<wanted, canvas, session, take, latest, result>>
    BY <1>1 DEF Stinger!Receive
  <2>2. LoaderType'
    BY <2>1 DEF LoaderType, LoaderInv
  <2>3. Answers(channel)' /\ Answers(loading)' /\ Answers(result)'
    BY <2>1 DEF LoaderInv, Answers
  <2>4. Outcome' /\ Delivered'
    BY <2>1 DEF LoaderInv, Outcome, Delivered
  <2> QED BY <2>1, <2>2, <2>3, <2>4 DEF LoaderInv, ReadyClip, Waiting
<1>2. CASE Stinger!Load
  <2>1. loading \in Stinger!Requests
    BY <1>2 DEF Stinger!Load, LoaderInv, LoaderType
  <2>2. PICK f \in Canvases \cup {NULL} :
           loading' = [loading EXCEPT !.outcome = [spec |-> loading.spec, format |-> f]]
    BY <1>2 DEF Stinger!Load
  <2> DEFINE o == [spec |-> loading.spec, format |-> f]
  <2>3. o \in Stinger!Outcomes /\ o.spec = loading.spec
    BY <2>1 DEF Stinger!Requests, Stinger!Outcomes
  <2>4. loading' = [loading EXCEPT !.outcome = o]
    BY <2>2
  <2> HIDE DEF o
  <2>5. /\ loading' \in Stinger!Requests
        /\ loading'.id = loading.id /\ loading'.spec = loading.spec
        /\ loading'.format = loading.format /\ loading'.outcome = o
    BY <2>1, <2>3, <2>4 DEF Stinger!Requests
  <2>6. loading # NULL /\ loading' # NULL
    BY <2>1, <2>5, NoLoadAssumption DEF Stinger!NullIsNoLoad
  <2>7. UNCHANGED <<wanted, canvas, session, take, channel, latest, result>>
    BY <1>2 DEF Stinger!Load
  <2>8. LoaderType'
    BY <2>5, <2>7 DEF LoaderType, LoaderInv
  <2>9. Answers(channel)' /\ Answers(loading)' /\ Answers(result)'
    BY <2>5, <2>6, <2>7 DEF LoaderInv, Answers
  <2>10. Outcome' /\ Delivered'
    BY <2>3, <2>5, <2>6, <2>7 DEF LoaderInv, Outcome, Delivered
  <2> QED BY <2>7, <2>8, <2>9, <2>10 DEF LoaderInv, ReadyClip, Waiting
<1>3. CASE Stinger!Store
  <2>1. /\ loading # NULL /\ loading.outcome # NULL /\ loading' = NULL
        /\ result' = IF latest = loading.id THEN loading ELSE result
        /\ UNCHANGED <<wanted, canvas, session, take, channel, latest>>
    BY <1>3 DEF Stinger!Store, Stinger!Storing
  <2>2. LoaderType'
    BY <2>1 DEF LoaderType, LoaderInv
  <2>3. Answers(channel)' /\ Answers(loading)' /\ Answers(result)'
    BY <2>1 DEF LoaderInv, Answers
  <2>4. Outcome' /\ Delivered'
    BY <2>1 DEF LoaderInv, Outcome, Delivered
  <2> QED BY <2>1, <2>2, <2>3, <2>4 DEF LoaderInv, ReadyClip, Waiting
<1> QED BY <1>1, <1>2, <1>3 DEF Stinger!Loader

LEMMA LoaderInvariant == LateSpec => []LoaderInv
<1>1. Stinger!Init => LoaderInv
  <2> SUFFICES ASSUME Stinger!Init PROVE LoaderInv
    OBVIOUS
  <2>1. LoaderType
    BY DEF Stinger!Init, LoaderType, SessionFields, States
  <2>2. Answers(channel) /\ Answers(loading) /\ Answers(result) /\ Outcome
    BY DEF Stinger!Init, Answers, Outcome
  <2>3. Delivered /\ ReadyClip /\ Waiting /\ session.state = "Idle"
    BY DEF Stinger!Init, Delivered, ReadyClip, Waiting
  <2> QED BY <2>1, <2>2, <2>3 DEF LoaderInv
<1>2. LoaderInv /\ [Stinger!Next]_(Stinger!vars) => LoaderInv'
  <2> SUFFICES ASSUME LoaderInv, [Stinger!Next]_(Stinger!vars) PROVE LoaderInv'
    OBVIOUS
  <2>1. CASE Stinger!Select
    <3>1. /\ wanted' \in Specs \cup {NULL} /\ canvas' \in Canvases
          /\ UNCHANGED <<session, take, channel, loading, latest, result>>
      BY <2>1 DEF Stinger!Select
    <3>2. LoaderType'
      BY <3>1 DEF LoaderType, LoaderInv
    <3> QED BY <3>1, <3>2 DEF LoaderInv, Answers, Outcome, Delivered, ReadyClip, Waiting
  <2>2. CASE UNCHANGED Stinger!vars
    <3>1. UNCHANGED <<wanted, canvas, session, take, channel, loading, latest, result>>
      BY <2>2 DEF Stinger!vars
    <3>2. LoaderType'
      BY <3>1 DEF LoaderType, LoaderInv
    <3> QED BY <3>1, <3>2 DEF LoaderInv, Answers, Outcome, Delivered, ReadyClip, Waiting
  <2> QED BY <2>1, <2>2, TickKeepsInv, TakeKeepsInv, LoaderKeepsInv DEF Stinger!Next
<1>3. LateInit => Stinger!Init
  BY DEF LateInit
<1>4. [LateNext]_allVars => [Stinger!Next]_(Stinger!vars)
  BY DEF LateNext, allVars, stingerVars, Stinger!vars, Routes, Stingers
<1> QED BY <1>1, <1>2, <1>3, <1>4, PTL DEF LateSpec

(* However selections, refusals and late results fall, for any resources and
   formats: a clip that is ready is the one it stands for, in the session's
   format, and whoever waits, the session or a Take, waits for a load that will
   be delivered. *)
THEOREM NoLateLoad == LateSpec => []LoadsAreCurrent
<1>1. LoaderInv => LoadsAreCurrent
  BY DEF LoaderInv, Answers, Delivered, ReadyClip, Waiting, LoadsAreCurrent,
     Stinger!LoadsAreCurrent
<1> QED BY <1>1, LoaderInvariant, PTL
=============================================================================
