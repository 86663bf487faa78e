------------------------ MODULE CameraSource_proofs ------------------------
(***************************************************************************)
(* Proofs about CameraSource, for every set of settings and threads, every *)
(* retry interval and any number of changes: one thread of a source is in  *)
(* the driver, and a denial is never retried.                              *)
(***************************************************************************)
EXTENDS CameraSource, TLAPS

Waiting == waits \in {"shutting", "joining"}

\* A source, and a call that waits for a thread, have a thread that somebody joins.
DeviceThere ==
    /\ settings # NULL \/ Waiting => device \in Threads /\ workers[device] # NULL
    /\ device # NULL /\ workers[device] # NULL => ~workers[device].abandoned

\* The source is gone while a removal waits, and its thread with it afterwards.
CallFits ==
    /\ Waiting => (settings = NULL <=> call = "remove")
    /\ waits = "tail" => settings # NULL
    /\ settings = NULL /\ waits = "idle" => device = NULL

\* The end of a thread is final, and nothing of it is left to report.
EndsOnce ==
    \A t \in Threads :
        workers[t] # NULL /\ workers[t].finished => workers[t].pc \in {"dropping", "exited"}

OneInDriver ==
    \A t \in Threads : Holds(t) /\ ~workers[t].abandoned => t = device

Current ==
    waits \in {"idle", "tail"} /\ settings # NULL /\ ~shutdown_blocked
        => workers[device].settings = settings

\* A render opens the camera again only when the thread has ended without a denial.
RetriesAreLost ==
    Waiting /\ call \in {"render", "retry"}
        => workers[device].finished /\ workers[device].failure # "denied"

Inv == /\ TypeOK /\ DeviceThere /\ CallFits /\ EndsOnce
       /\ OneInDriver /\ Current /\ RetriesAreLost

-----------------------------------------------------------------------------
(* What a capture thread does to its own entry *)

\* A thread keeps its settings; what it has reported as its end stays.
GoesOn(w, v) ==
    \/ v = NULL /\ w.abandoned
    \/ /\ v \in Workers
       /\ v.settings = w.settings
       /\ v.abandoned = w.abandoned
       /\ w.pc # "exited"
       /\ w.finished => v.finished /\ v.failure = w.failure
       /\ v.finished => v.pc \in {"dropping", "exited"}

LEMMA GoToGoesOn ==
    ASSUME NEW w \in Workers, w.pc # "exited",
           NEW pc \in {"opened", "starting", "started", "running", "reading",
                       "stopping", "stopped", "exited"},
           w.finished => pc = "exited"
    PROVE  GoesOn(w, [w EXCEPT !.pc = pc])
  BY DEF GoesOn, Workers

LEMMA FailureGoesOn ==
    ASSUME NEW w \in Workers, w.pc # "exited", ~w.finished,
           NEW error \in {"error", "denied"}
    PROVE  GoesOn(w, [w EXCEPT !.pc = "failed", !.failure = error])
  BY DEF GoesOn, Workers

LEMMA ReadyGoesOn ==
    ASSUME NEW w \in Workers, w.pc # "exited", ~w.finished
    PROVE  GoesOn(w, [w EXCEPT !.pc = "running", !.ready = TRUE])
  BY DEF GoesOn, Workers

LEMMA FinishGoesOn ==
    ASSUME NEW w \in Workers, w.pc # "exited", ~w.finished
    PROVE  GoesOn(w, [w EXCEPT !.pc = "dropping", !.finished = TRUE])
  BY DEF GoesOn, Workers

(* A step of a capture thread changes its own entry only, and as GoesOn says. *)
LEMMA ThreadGoesOn ==
    ASSUME TypeOK, EndsOnce, NEW t \in Threads, CaptureThread(t)
    PROVE  /\ UNCHANGED sourceVars
           /\ workers[t] \in Workers
           /\ \E v : /\ workers' = [workers EXCEPT ![t] = v]
                    /\ GoesOn(workers[t], v)
<1> DEFINE w == workers[t]
<1>1. w # NULL => w \in Workers
  BY DEF TypeOK
<1>2. w # NULL /\ w.finished => w.pc \in {"dropping", "exited"}
  BY DEF EndsOnce
<1> USE DEF At, GoTo, Becomes
<1>3. CASE OpenerReturns(t)
  <2>1. w \in Workers /\ w.pc = "opening" /\ ~w.finished
    BY <1>1, <1>2, <1>3 DEF OpenerReturns
  <2>2. GoesOn(w, [w EXCEPT !.pc = "opened"])
    BY <2>1, GoToGoesOn
  <2>3. \A error \in {"error", "denied"} : GoesOn(w, [w EXCEPT !.pc = "failed", !.failure = error])
    BY <2>1, FailureGoesOn
  <2> QED
    BY <1>3, <2>1, <2>2, <2>3 DEF OpenerReturns, Fails
<1>4. CASE StartReturns(t)
  <2>1. w \in Workers /\ w.pc = "starting" /\ ~w.finished
    BY <1>1, <1>2, <1>4 DEF StartReturns
  <2>2. GoesOn(w, [w EXCEPT !.pc = "started"])
    BY <2>1, GoToGoesOn
  <2>3. \A error \in {"error", "denied"} : GoesOn(w, [w EXCEPT !.pc = "failed", !.failure = error])
    BY <2>1, FailureGoesOn
  <2> QED
    BY <1>4, <2>1, <2>2, <2>3 DEF StartReturns, Fails
<1>5. CASE CheckOpened(t)
  <2>1. w \in Workers /\ w.pc = "opened" /\ ~w.finished
    BY <1>1, <1>2, <1>5 DEF CheckOpened
  <2>2. \A pc \in {"stopping", "starting"} : GoesOn(w, [w EXCEPT !.pc = pc])
    BY <2>1, GoToGoesOn
  <2> QED
    BY <1>5, <2>1, <2>2 DEF CheckOpened
<1>6. CASE CheckStarted(t)
  <2>1. w \in Workers /\ w.pc = "started" /\ ~w.finished
    BY <1>1, <1>2, <1>6 DEF CheckStarted
  <2>2. GoesOn(w, [w EXCEPT !.pc = "stopping"])
    BY <2>1, GoToGoesOn
  <2>3. GoesOn(w, [w EXCEPT !.pc = "running", !.ready = TRUE])
    BY <2>1, ReadyGoesOn
  <2> QED
    BY <1>6, <2>1, <2>2, <2>3 DEF CheckStarted
<1>7. CASE CheckRunning(t)
  <2>1. w \in Workers /\ w.pc = "running" /\ ~w.finished
    BY <1>1, <1>2, <1>7 DEF CheckRunning
  <2>2. \A pc \in {"stopping", "reading"} : GoesOn(w, [w EXCEPT !.pc = pc])
    BY <2>1, GoToGoesOn
  <2> QED
    BY <1>7, <2>1, <2>2 DEF CheckRunning
<1>8. CASE NextFrame(t)
  <2>1. w \in Workers /\ w.pc = "reading" /\ ~w.finished
    BY <1>1, <1>2, <1>8 DEF NextFrame
  <2>2. GoesOn(w, [w EXCEPT !.pc = "running"])
    BY <2>1, GoToGoesOn
  <2>3. \A error \in {"error", "denied"} : GoesOn(w, [w EXCEPT !.pc = "failed", !.failure = error])
    BY <2>1, FailureGoesOn
  <2> QED
    BY <1>8, <2>1, <2>2, <2>3 DEF NextFrame, Fails
<1>9. CASE StopReturns(t)
  <2>1. w \in Workers /\ w.pc = "stopping" /\ ~w.finished
    BY <1>1, <1>2, <1>9 DEF StopReturns
  <2>2. GoesOn(w, [w EXCEPT !.pc = "stopped"])
    BY <2>1, GoToGoesOn
  <2> QED
    BY <1>9, <2>1, <2>2 DEF StopReturns
<1>10. CASE Finish(t)
  <2>1. w \in Workers /\ w.pc \in {"failed", "stopped"} /\ ~w.finished
    BY <1>1, <1>2, <1>10 DEF Finish
  <2>2. GoesOn(w, [w EXCEPT !.pc = "dropping", !.finished = TRUE])
    BY <2>1, FinishGoesOn
  <2> QED
    BY <1>10, <2>1, <2>2 DEF Finish
<1>11. CASE DropReturns(t)
  <2>1. w \in Workers /\ w.pc = "dropping"
    BY <1>1, <1>11 DEF DropReturns
  <2>2. GoesOn(w, [w EXCEPT !.pc = "exited"])
    BY <2>1, GoToGoesOn
  <2>3. w.abandoned => GoesOn(w, NULL)
    BY DEF GoesOn
  <2> QED
    BY <1>11, <2>1, <2>2, <2>3 DEF DropReturns
<1> QED
  BY <1>3, <1>4, <1>5, <1>6, <1>7, <1>8, <1>9, <1>10, <1>11 DEF CaptureThread
(* Whatever the driver answers and however a capture thread is delayed. *)
LEMMA ThreadKeepsInv ==
    ASSUME Inv, NEW t \in Threads, CaptureThread(t)
    PROVE  Inv'
<1> DEFINE w == workers[t]
<1>0. TypeOK /\ DeviceThere /\ CallFits /\ EndsOnce /\ OneInDriver /\ Current /\ RetriesAreLost
  BY DEF Inv
<1>1. PICK v : workers' = [workers EXCEPT ![t] = v] /\ GoesOn(w, v)
  BY <1>0, ThreadGoesOn
<1>2. UNCHANGED sourceVars /\ w \in Workers
  BY <1>0, ThreadGoesOn
<1>3. /\ workers'[t] = v
      /\ \A u \in Threads \ {t} : workers'[u] = workers[u]
  BY <1>0, <1>1 DEF TypeOK
<1>4. v \in Workers \cup {NULL} /\ w # NULL
  BY <1>1, <1>2, NoWorkerAssumption DEF GoesOn
<1>5. /\ UNCHANGED <<canvas, settings, device, retry_countdown, shutdown_blocked, call, waits, changes>>
      /\ Waiting' = Waiting
  BY <1>2 DEF sourceVars, Waiting
<1>6. device = t => v \in Workers /\ v # NULL /\ ~v.abandoned
  <2>1. device = t => ~w.abandoned
    BY <1>0, <1>4, CameraAssumption DEF DeviceThere
  <2> QED
    BY <1>1, <2>1, NoWorkerAssumption DEF GoesOn
<1>7. device = t => /\ v.settings = w.settings
                    /\ w.finished => v.finished /\ v.failure = w.failure
  BY <1>1, <1>6, NoWorkerAssumption DEF GoesOn
<1>8. TypeOK'
  BY <1>0, <1>1, <1>4, <1>5 DEF TypeOK
<1>9. DeviceThere'
  BY <1>0, <1>3, <1>5, <1>6 DEF DeviceThere, TypeOK
<1>10. CallFits'
  BY <1>0, <1>5 DEF CallFits
<1>11. EndsOnce'
  BY <1>0, <1>1, <1>3, NoWorkerAssumption DEF EndsOnce, GoesOn
<1>12. OneInDriver'
  <2> SUFFICES ASSUME NEW u \in Threads, Holds(u)', ~(workers[u].abandoned)'
               PROVE  u = device'
    BY DEF OneInDriver
  <2>1. CASE u = t
    <3>1. v # NULL /\ ~v.abandoned
      BY <1>3, <2>1 DEF Holds
    <3>2. w.pc # "exited" /\ ~w.abandoned
      BY <1>1, <3>1 DEF GoesOn
    <3> QED
      BY <1>0, <1>4, <1>5, <2>1, <3>2 DEF OneInDriver, Holds
  <2>2. CASE u # t
    BY <1>0, <1>3, <1>5, <2>2 DEF OneInDriver, Holds
  <2> QED
    BY <2>1, <2>2
<1>13. Current'
  <2>1. device # t => workers'[device] = workers[device] \/ device = NULL
    BY <1>0, <1>3 DEF TypeOK
  <2>2. settings # NULL => device \in Threads
    BY <1>0 DEF DeviceThere
  <2> QED
    BY <1>0, <1>3, <1>5, <1>7, <2>1, <2>2, CameraAssumption DEF Current
<1>14. RetriesAreLost'
  <2>1. Waiting => device \in Threads
    BY <1>0 DEF DeviceThere
  <2>2. device # t /\ device \in Threads => workers'[device] = workers[device]
    BY <1>3
  <2> QED
    BY <1>0, <1>3, <1>5, <1>7, <2>1, <2>2 DEF RetriesAreLost
<1> QED
  BY <1>8, <1>9, <1>10, <1>11, <1>12, <1>13, <1>14 DEF Inv

-----------------------------------------------------------------------------
(* The rendering thread *)

LEMMA NewWorker ==
    ASSUME NEW s \in Settings,
           NEW worker \in {Worker("opening", s), Unstarted(s)}
    PROVE  /\ worker \in Workers
           /\ worker.settings = s
           /\ ~worker.abandoned
           /\ worker.finished => worker.pc = "exited"
<1>1. CASE worker = Worker("opening", s)
  BY <1>1 DEF Worker, Workers
<1>2. CASE worker = Unstarted(s)
  <2>1. Worker("exited", s) \in Workers
    BY DEF Worker, Workers
  <2>2. Worker("exited", s).settings = s /\ ~Worker("exited", s).abandoned
           /\ Worker("exited", s).pc = "exited"
    BY DEF Worker
  <2> QED
    BY <1>2, <2>1, <2>2 DEF Unstarted, Workers
<1> QED
  BY <1>1, <1>2

(* The camera is opened on a thread nobody uses or on the one that is over,
   and what was known of that one is forgotten. *)
LEMMA OpenFacts ==
    ASSUME TypeOK, EndsOnce, OneInDriver, NEW s \in Settings, Open(s),
           device = NULL \/ ~Holds(device)
    PROVE  /\ workers' \in [Threads -> Workers \cup {NULL}]
           /\ device' \in Threads
           /\ shutdown_blocked' = FALSE
           /\ workers'[device'] \in Workers
           /\ workers'[device'].settings = s
           /\ ~workers'[device'].abandoned
           /\ EndsOnce'
           /\ OneInDriver'
<1>1. PICK t \in Threads, worker \in {Worker("opening", s), Unstarted(s)} :
          /\ workers' = [u \in Threads |->
                           IF u = t THEN worker ELSE IF u = device THEN NULL ELSE workers[u]]
          /\ device' = t
          /\ shutdown_blocked' = FALSE
  BY DEF Open
<1>2. /\ worker \in Workers /\ worker.settings = s /\ ~worker.abandoned
      /\ worker.finished => worker.pc = "exited"
  BY NewWorker
<1>3. workers'[t] = worker
  BY <1>1
<1>4. \A u \in Threads \ {t} : workers'[u] = IF u = device THEN NULL ELSE workers[u]
  BY <1>1
<1>5. workers' \in [Threads -> Workers \cup {NULL}]
  BY <1>1, <1>2 DEF TypeOK
<1>6. EndsOnce'
  BY <1>2, <1>3, <1>4 DEF EndsOnce
<1>7. OneInDriver'
  <2> SUFFICES ASSUME NEW u \in Threads, u # t, Holds(u)', ~(workers[u].abandoned)'
               PROVE  FALSE
    BY <1>1 DEF OneInDriver
  <2>1. u # device /\ workers'[u] = workers[u]
    BY <1>4 DEF Holds
  <2> QED
    BY <2>1 DEF OneInDriver, Holds
<1> QED
  BY <1>1, <1>2, <1>3, <1>5, <1>6, <1>7
LEMMA ShutdownFacts ==
    ASSUME TypeOK, EndsOnce, OneInDriver,
           device \in Threads, workers[device] \in Workers,
           workers' = [workers EXCEPT ![device].stop = TRUE], device' = device
    PROVE  /\ workers' \in [Threads -> Workers \cup {NULL}]
           /\ workers'[device] \in Workers
           /\ workers'[device].finished = workers[device].finished
           /\ workers'[device].failure = workers[device].failure
           /\ workers'[device].abandoned = workers[device].abandoned
           /\ EndsOnce'
           /\ OneInDriver'
<1> DEFINE w == workers[device]
           v == [w EXCEPT !.stop = TRUE]
<1>1. /\ v \in Workers /\ v.finished = w.finished /\ v.failure = w.failure
      /\ v.abandoned = w.abandoned /\ v.pc = w.pc
  BY DEF Workers
<1>2. workers' = [workers EXCEPT ![device] = v]
  OBVIOUS
<1> HIDE DEF v
<1>3. workers'[device] = v /\ \A u \in Threads \ {device} : workers'[u] = workers[u]
  BY <1>2 DEF TypeOK
<1>4. workers' \in [Threads -> Workers \cup {NULL}]
  BY <1>1, <1>2 DEF TypeOK
<1>5. EndsOnce'
  BY <1>1, <1>3, NoWorkerAssumption DEF EndsOnce
<1>6. OneInDriver'
  BY <1>3 DEF OneInDriver, Holds
<1> QED
  BY <1>1, <1>3, <1>4, <1>5, <1>6

(* A call that asks the thread to end keeps the invariant, if a retry asks
   only a thread that is lost. *)
LEMMA ShutdownKeepsInv ==
    ASSUME Inv, settings # NULL, waits \in {"idle", "tail"},
           NEW c \in {"update", "render", "retry", "remove"}, Shutdown(c),
           UNCHANGED <<device, shutdown_blocked>>, canvas' \in Formats,
           retry_countdown' \in Nat, changes' \in 0..MaxChanges,
           settings' \in Settings \cup {NULL}, settings' = NULL <=> c = "remove",
           c \in {"render", "retry"} => State(workers[device]) = "Lost"
    PROVE  Inv'
<1>0. TypeOK /\ DeviceThere /\ EndsOnce /\ OneInDriver
  BY DEF Inv
<1>1. device \in Threads /\ workers[device] \in Workers /\ ~workers[device].abandoned
  BY <1>0, CameraAssumption DEF TypeOK, DeviceThere
<1>2. /\ workers' = [workers EXCEPT ![device].stop = TRUE] /\ device' = device
      /\ call' = c /\ waits' = "shutting"
  BY DEF Shutdown
<1>3. /\ workers' \in [Threads -> Workers \cup {NULL}]
      /\ workers'[device] \in Workers
      /\ workers'[device].finished = workers[device].finished
      /\ workers'[device].failure = workers[device].failure
      /\ workers'[device].abandoned = workers[device].abandoned
      /\ EndsOnce'
      /\ OneInDriver'
  BY <1>0, <1>1, <1>2, ShutdownFacts
<1>4. TypeOK'
  BY <1>0, <1>2, <1>3 DEF TypeOK
<1>5. DeviceThere'
  BY <1>1, <1>2, <1>3, NoWorkerAssumption DEF DeviceThere
<1>6. CallFits' /\ Current'
  BY <1>2 DEF CallFits, Current, Waiting
<1>7. RetriesAreLost'
  BY <1>2, <1>3 DEF RetriesAreLost, State
<1> QED
  BY <1>3, <1>4, <1>5, <1>6, <1>7 DEF Inv

LEMMA MatchStateKeepsInv ==
    ASSUME Inv, settings # NULL, waits \in {"idle", "tail"},
           MatchState, UNCHANGED <<canvas, settings, changes>>
    PROVE  Inv'
<1>0. TypeOK /\ DeviceThere /\ EndsOnce /\ OneInDriver /\ Current
  BY DEF Inv
<1>1. CASE \E c \in {"retry"} : Reopen(c) /\ State(workers[device]) = "Lost"
  <2>1. Shutdown("retry") /\ UNCHANGED <<device, shutdown_blocked>>
    BY <1>1 DEF Reopen
  <2>2. retry_countdown' \in Nat
    BY <1>1, CameraAssumption DEF Reopen
  <2>3. canvas' \in Formats /\ changes' \in 0..MaxChanges /\ settings' \in Settings \cup {NULL} /\ settings' # NULL
    BY <1>0 DEF TypeOK
  <2> QED
    BY <1>1, <2>1, <2>2, <2>3, ShutdownKeepsInv
<1>2. CASE /\ retry_countdown' \in Nat
           /\ waits' = "idle"
           /\ UNCHANGED <<device, shutdown_blocked, call, workers>>
  <2>1. TypeOK' /\ DeviceThere'
    BY <1>0, <1>2 DEF TypeOK, DeviceThere, Waiting
  <2>2. CallFits' /\ EndsOnce' /\ OneInDriver' /\ RetriesAreLost' /\ Current'
    BY <1>0, <1>2 DEF CallFits, EndsOnce, OneInDriver, Holds, RetriesAreLost, Current, Waiting
  <2> QED
    BY <2>1, <2>2 DEF Inv
<1>3. device \in Threads /\ workers[device] \in Workers
  BY <1>0 DEF TypeOK, DeviceThere
<1>5. CASE CountDown
  <2>1. retry_countdown > 1 => retry_countdown - 1 \in Nat
    BY <1>0 DEF TypeOK
  <2> QED
    BY <1>0, <1>1, <1>2, <1>5, <2>1 DEF CountDown, TypeOK
<1>6. CASE PollFrame
  BY <1>0, <1>2, <1>6 DEF PollFrame, TypeOK
<1>7. CASE StayDenied
  BY <1>0, <1>2, <1>7 DEF StayDenied, TypeOK
<1> QED
  BY <1>5, <1>6, <1>7 DEF MatchState

(* A thread that is over is replaced by one with the settings of now. *)
LEMMA OpenKeepsInv ==
    ASSUME Inv, settings' \in Settings, Open(settings'), device = NULL \/ ~Holds(device),
           retry_countdown' \in Nat, waits' \in {"idle", "tail"},
           canvas' \in Formats, UNCHANGED <<call, changes>>
    PROVE  Inv'
<1>0. TypeOK /\ EndsOnce /\ OneInDriver
  BY DEF Inv
<1>1. /\ workers' \in [Threads -> Workers \cup {NULL}]
      /\ device' \in Threads
      /\ shutdown_blocked' = FALSE
      /\ workers'[device'] \in Workers
      /\ workers'[device'].settings = settings'
      /\ ~workers'[device'].abandoned
      /\ EndsOnce'
      /\ OneInDriver'
  BY <1>0, OpenFacts
<1>2. TypeOK'
  BY <1>0, <1>1 DEF TypeOK
<1>3. DeviceThere'
  BY <1>1, NoWorkerAssumption DEF DeviceThere
<1>4. CallFits' /\ RetriesAreLost' /\ Current'
  BY <1>1, SettingsAssumption DEF CallFits, RetriesAreLost, Current, Waiting
<1> QED
  BY <1>1, <1>2, <1>3, <1>4 DEF Inv
LEMMA RendererKeepsInv ==
    ASSUME Inv, Renderer
    PROVE  Inv'
<1>0. TypeOK /\ DeviceThere /\ CallFits /\ EndsOnce /\ OneInDriver /\ Current /\ RetriesAreLost
  BY DEF Inv
<1>1. CASE Create
  <2>1. PICK s \in Settings : settings' = s /\ Open(s)
    BY <1>1 DEF Create
  <2>2. device = NULL \/ ~Holds(device)
    BY <1>0, <1>1, CameraAssumption DEF Create, CallFits
  <2>3. RetryFrames \in Nat
    BY CameraAssumption
  <2> QED
    BY <1>1, <2>1, <2>2, <2>3, OpenKeepsInv DEF Create
<1>2. CASE Update
  <2>1. settings' \in Settings /\ settings' # NULL
    BY <1>2, SettingsAssumption DEF Update
  <2>2. canvas' \in Formats /\ changes' \in 0..MaxChanges
    BY <1>0, <1>2, CameraAssumption DEF Update, TypeOK
  <2>3. RetryFrames \in Nat
    BY CameraAssumption
  <2> QED
    BY <1>2, <2>1, <2>2, <2>3, ShutdownKeepsInv DEF Update, Reopen
<1>3. CASE Remove
  <2>1. canvas' \in Formats /\ changes' \in 0..MaxChanges
    BY <1>0, <1>3, CameraAssumption DEF Remove, TypeOK
  <2>2. retry_countdown' \in Nat
    BY <1>0, <1>3 DEF Remove, TypeOK
  <2> QED
    BY <1>3, <2>1, <2>2, ShutdownKeepsInv DEF Remove
<1>4. CASE Render
  <2>1. CASE Fits /\ ~shutdown_blocked
    BY <1>4, <2>1, MatchStateKeepsInv DEF Render
  <2>2. CASE Fits /\ shutdown_blocked /\ State(workers[device]) = "Lost"
    <3>1. Reopen("render")
      BY <1>4, <2>2 DEF Render
    <3>2. canvas' \in Formats /\ changes' \in 0..MaxChanges /\ settings' \in Settings \cup {NULL} /\ settings' # NULL
      BY <1>0, <1>4 DEF Render, TypeOK
    <3>3. RetryFrames \in Nat
      BY CameraAssumption
    <3> QED
      BY <1>4, <2>2, <3>1, <3>2, <3>3, ShutdownKeepsInv DEF Render, Reopen
  <2>3. CASE ~Fits \/ (shutdown_blocked /\ State(workers[device]) # "Lost")
    <3>1. UNCHANGED vars
      BY <1>4, <2>3 DEF Render, vars, sourceVars
    <3> QED
      BY <3>1 DEF Inv, TypeOK, DeviceThere, CallFits, EndsOnce, OneInDriver, Holds, Current,
                  RetriesAreLost, Waiting, vars, sourceVars
  <2> QED
    BY <1>0, <2>1, <2>2, <2>3 DEF TypeOK
<1>5. CASE RenderOn
  <2>1. settings # NULL
    BY <1>0, <1>5 DEF RenderOn, CallFits
  <2> QED
    BY <1>5, <2>1, MatchStateKeepsInv DEF RenderOn
<1>6. CASE ShutdownEnds
  BY <1>0, <1>6 DEF ShutdownEnds, Inv, TypeOK, DeviceThere, CallFits, EndsOnce, OneInDriver,
                    Holds, Current, RetriesAreLost, Waiting
<1>7. CASE GiveUp
  <2>1. device \in Threads /\ workers[device] \in Workers /\ ~workers[device].finished
    BY <1>0, <1>7 DEF GiveUp, DeviceThere, Waiting, TypeOK
  <2>2. call \notin {"render", "retry"}
    BY <1>0, <1>7, <2>1 DEF GiveUp, RetriesAreLost, Waiting
  <2>3. waits' = "idle"
    BY <1>7, <2>2 DEF GiveUp, AfterCall
  <2>4. CASE call = "remove"
    <3> DEFINE w == workers[device]
               v == [w EXCEPT !.abandoned = TRUE]
    <3>1. v \in Workers /\ v.abandoned /\ v.finished = w.finished /\ v.pc = w.pc
      BY <2>1 DEF Workers
    <3>2. workers' = [workers EXCEPT ![device] = v] /\ device' = NULL /\ shutdown_blocked' = FALSE
      BY <1>7, <2>4 DEF GiveUp
    <3>3. settings' = NULL /\ settings' = settings
      BY <1>0, <1>7, <2>4 DEF GiveUp, CallFits, Waiting
    <3> HIDE DEF v
    <3>4. workers'[device] = v /\ \A u \in Threads \ {device} : workers'[u] = workers[u]
      BY <1>0, <2>1, <3>2 DEF TypeOK
    <3>5. TypeOK'
      BY <1>0, <1>7, <2>3, <3>1, <3>2 DEF TypeOK, GiveUp
    <3>6. DeviceThere' /\ CallFits' /\ Current' /\ RetriesAreLost'
      BY <2>3, <3>2, <3>3 DEF DeviceThere, CallFits, Current, RetriesAreLost, Waiting
    <3>7. EndsOnce'
      BY <1>0, <2>1, <3>1, <3>4 DEF EndsOnce
    <3>8. OneInDriver'
      BY <1>0, <3>1, <3>4 DEF OneInDriver, Holds
    <3> QED
      BY <3>5, <3>6, <3>7, <3>8 DEF Inv
  <2>5. CASE call # "remove"
    <3>1. shutdown_blocked' = TRUE /\ UNCHANGED <<canvas, settings, retry_countdown, device, workers, call, changes>>
      BY <1>7, <2>5 DEF GiveUp
    <3>2. settings # NULL
      BY <1>0, <1>7, <2>5 DEF GiveUp, CallFits, Waiting
    <3> QED
      BY <1>0, <2>3, <3>1, <3>2 DEF Inv, TypeOK, DeviceThere, CallFits, EndsOnce, OneInDriver,
                              Holds, Current, RetriesAreLost, Waiting
  <2> QED
    BY <2>4, <2>5
<1>8. CASE Join
  <2>1. device \in Threads /\ ~Holds(device)
    BY <1>0, <1>8 DEF Join, DeviceThere, Waiting, Holds
  <2>2. waits' \in {"idle", "tail"}
    BY <1>8 DEF Join, AfterCall
  <2>3. CASE call = "remove"
    <3>1. settings = NULL /\ waits' = "idle"
      BY <1>0, <1>8, <2>3 DEF Join, CallFits, Waiting, AfterCall
    <3>2. /\ workers' = [workers EXCEPT ![device] = NULL] /\ device' = NULL /\ shutdown_blocked' = FALSE
          /\ UNCHANGED <<canvas, settings, retry_countdown, call, changes>>
      BY <1>8, <2>3 DEF Join
    <3>3. \A u \in Threads : workers'[u] = IF u = device THEN NULL ELSE workers[u]
      BY <1>0, <3>2 DEF TypeOK
    <3>4. TypeOK'
      BY <1>0, <3>1, <3>2 DEF TypeOK
    <3>5. DeviceThere' /\ CallFits' /\ Current' /\ RetriesAreLost'
      BY <3>1, <3>2 DEF DeviceThere, CallFits, Current, RetriesAreLost, Waiting
    <3>6. EndsOnce' /\ OneInDriver'
      BY <1>0, <2>1, <3>3 DEF EndsOnce, OneInDriver, Holds
    <3> QED
      BY <3>4, <3>5, <3>6 DEF Inv
  <2>4. CASE call # "remove"
    <3>1. settings \in Settings /\ settings' = settings
      BY <1>0, <1>8, <2>4 DEF Join, CallFits, Waiting, TypeOK
    <3>2. Open(settings') /\ retry_countdown' \in Nat /\ canvas' \in Formats /\ UNCHANGED <<call, changes>>
      BY <1>0, <1>8, <2>4, <3>1 DEF Join, TypeOK
    <3> QED
      BY <2>1, <2>2, <3>1, <3>2, OpenKeepsInv
  <2> QED
    BY <2>3, <2>4
<1> QED
  BY <1>1, <1>2, <1>3, <1>4, <1>5, <1>6, <1>7, <1>8 DEF Renderer

-----------------------------------------------------------------------------
(* The invariant holds in every state of every behaviour. *)
THEOREM Invariant == Spec => []Inv
<1>1. Init => Inv
  <2>1. Init => TypeOK
    <3>1. RetryFrames \in Nat /\ 0 \in 0..MaxChanges
      BY CameraAssumption
    <3>2. [t \in Threads |-> NULL] \in [Threads -> Workers \cup {NULL}]
      OBVIOUS
    <3> QED
      BY <3>1, <3>2 DEF Init, TypeOK
  <2>2. Init => /\ DeviceThere /\ CallFits /\ EndsOnce
                /\ OneInDriver /\ Current /\ RetriesAreLost
    BY DEF Init, DeviceThere, CallFits, EndsOnce, OneInDriver, Holds, Current,
           RetriesAreLost, Waiting
  <2> QED
    BY <2>1, <2>2 DEF Inv
<1>2. Inv /\ [Next]_vars => Inv'
  <2> SUFFICES ASSUME Inv, [Next]_vars
               PROVE  Inv'
    OBVIOUS
  <2>1. CASE Renderer
    BY <2>1, RendererKeepsInv
  <2>2. CASE \E t \in Threads : CaptureThread(t)
    BY <2>2, ThreadKeepsInv
  <2>3. CASE UNCHANGED vars
    BY <2>3 DEF Inv, TypeOK, DeviceThere, CallFits, EndsOnce, OneInDriver, Holds, Current,
                RetriesAreLost, Waiting, vars, sourceVars
  <2> QED
    BY <2>1, <2>2, <2>3 DEF Next
<1> QED
  BY <1>1, <1>2, PTL DEF Spec

(* Every variable of the camera source keeps its type: in particular the count
   of renders to the next attempt never goes below zero. *)
THEOREM TypeCorrect == Spec => []TypeOK
<1>1. Inv => TypeOK
  BY DEF Inv
<1> QED
  BY <1>1, Invariant, PTL

(* One thread of a source is in the driver, and a source that is not blocked
   is captured with its current settings. *)
THEOREM OneThreadInDriver == Spec => []DeviceIsCurrent
<1>1. Inv => DeviceIsCurrent
  BY DEF Inv, DeviceIsCurrent, OneInDriver, Current
<1> QED
  BY <1>1, Invariant, PTL

(* Rendering never reopens a camera whose permission was refused. *)
THEOREM DenialIsNotRetried == Spec => []DenialStands
<1>1. Inv => DenialStands
  BY DEF Inv, DenialStands, RetriesAreLost, Waiting
<1> QED
  BY <1>1, Invariant, PTL
=============================================================================
