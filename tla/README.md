# OBS-RS: verification models

This directory holds TLA+ models of the parts of OBS-RS in which order,
failure and concurrency decide whether a user keeps his work: the output
engine, the project and its files, the preview and the camera. It also holds
the TLC configurations that check the models on small instances, and proofs,
checked by TLAPS, that hold for every instance. `PROJECT.json` is the index:
components, runs, mutants, the map from definitions to source lines, findings,
hazards, and theorems.

    tlc -workers 2 -config EngineWorkerOutputs.cfg MCEngineWorker.tla
    tlapm EngineWorker_proofs.tla

## 1. The system

OBS-RS is a broadcasting and recording program in Rust: 27 crates, one per
concern. A window (obs-rs-gui) edits a project and shows a preview; an engine
(obs-rs-engine) renders, mixes, encodes, records and streams on a thread of its
own; media libraries and device adapters sit below both.

### Components, the state they keep and the operations on it

| Component | State | Operations | Hard behaviour | Correct when |
|---|---|---|---|---|
| Streaming session (obs-rs-output: `queue.rs`, `stream/`) | packet queue with byte counter, connection state, reconnect attempts and deadline, metrics, the transport's socket and write buffer | connect, submit, flush, reconnect_at, disconnect, close | a batch fails part way; backoff; a full queue | order kept, nothing sent twice, nothing lost that the transport did not take, counters exact, budget honoured |
| Engine session outputs (obs-rs-engine: `session_output.rs`, `outputs.rs`) | recording, replay buffer and stream, the lifecycle of each, save status | start, finish, abort, save, pump | a commit fails and is retried; a connection comes and goes | the reported lifecycle agrees with what is open; a recording is only ever closed by a commit or an abort |
| Engine worker (`worker.rs`, `worker_output.rs`, `worker_runtime.rs`) | bounded command channel, published snapshot, bounded event queue, queued-frame counter | the `try_` requests, blocking control calls, `take_output_events`, drop; receive, handle, publish, close | callers write the snapshot and the counter before the channel accepts; the worker overwrites the snapshot after every command | counter exact, snapshot and events true once nothing is under way, in-flight phases settle, calls return |
| Desktop output bridge (obs-rs-gui: `callbacks/output.rs`, `callbacks/mod.rs`) | the claims "recording" and "streaming" | the buttons, the preview tick, reconciliation, closing the window | claims are set from requests and events and cleared from phases read later | an output that stopped does not stay claimed |
| Packet recordings (obs-rs-output: `writers.rs`, `writers/atomic.rs`) | temporary file, write position, packet count, published files | push, finalize, abort; rotate | any file-system call fails; the machine stops | every accepted packet is in the file once and in order; the final path holds nothing or a complete file |
| Replay history and fan-out (obs-rs-output: `replay.rs`; obs-rs-engine: `session_media.rs`, `session_runtime.rs`) | history with three bounds, the three outputs | push of a program frame, start and stop of each output | one output refuses a packet | the history is the longest end that fits; nothing is reordered; nothing is streamed that an open recording lacks |
| Engine audio (obs-rs-engine: `audio.rs`, `audio_routes.rs`, `session_runtime.rs`) | the selection and the open input of each channel, deadlines, a request number, a channel of one and a slot of one | select, change the format, tick, refresh, reconnect | a route discovered before the selection changed arrives after it; devices come and go | what is open is what was selected; an automatic channel comes to the default |
| Monitoring output worker (obs-rs-audio: `output_worker.rs`) | bounded channel, atomics for state, error, queued, dropped, cancellation | try_write, the worker's loop, cancel | several callers, the device fails, everybody ends at different times | counters exact while the worker runs; a cancelled worker ends |
| Stinger loader (obs-rs-media, obs-rs-ui, obs-rs-gui) | the clip of the selected stinger, a pending Take, a channel of one and a slot of one | tick, Take; receive, load, store | loads finish late, requests are refused | what is ready is the selected stinger in the canvas's format; what is waited for ends |
| Project document (obs-rs-project: `model/`, `commands.rs`) | sources, scenes, trees of items, groups, locks | every structural command, accepted or refused | a command fails half-way; scenes show each other; groups in groups | the document can be read back; a refusal changes nothing; rearranging loses nothing |
| Project session and files (obs-rs-project: `session.rs`, `persistence.rs`; obs-rs-gui: `callbacks/project.rs`, `callbacks/menu_collections.rs`) | project, dirty flag, undo and redo stacks, cached document; final and temporary files | dispatch, undo, redo, save, open, recover, collections, exit, start | a save fails or the machine stops between two steps | work marked saved is whole in a file; undo and redo walk one line |
| Control room, preview worker and renderer (obs-rs-ui: `state.rs`; obs-rs-gui: `preview_worker.rs`, `preview_sync.rs`, `preview_render.rs`) | revision, Preview, Program, transition; two one-place slots; the renderer's mirror of the project | the commands, the tick, sync, render, the GPU's copies | requests, results and syncs are lost or fail half-way | what is rendered is the current project; the screen catches up |
| Camera source (obs-rs-capture: `factories.rs`, `threaded.rs`) | settings, retry countdown, denial, one mailbox per capture thread | create, update, render, remove; open, start, capture, stop | a driver call outlasts the shutdown; permission is denied | one thread in the driver; frames of the current settings; a denial is left to the user |
| Everything else: capture back ends, audio and video queues, media values, renderers, encoders and muxers, native GStreamer pipelines, sandbox, updater, settings, diagnostics, entry points | | | pixel and sample arithmetic, parsing, system interfaces | section 8 |

### How the components interact

    project files <--save/open-- project session <--commands-- window (gui thread)
                                      |                  |  timer tick 16 ms
                          revision, document             |
                                      v                  v
                     preview worker (thread): sync, render, copies back
                                      |
                        sources: camera thread per opening, ...

    window: buttons, timer tick         other threads with the handle
        |  claims      ^ snapshot, events      |
        v              |                       v
    try_ requests --> [bounded channel] --> worker loop --> session outputs
                          audio route worker <--> |  audio blocks, then the frame
                                                v
                           each packet: replay history, recording, stream
                                             |           |          |
                                        snapshot saved   |     packet queue
                                             v           v          v
                                         packet file, segments   transport

* Calls and channels: the window and any other holder of the handle send
  `WorkerCommand`s over one bounded channel. The worker answers a control call
  over a reply channel and everything else through the published snapshot.
* Shared state: the snapshot behind a lock, the event queue behind another, and
  the frame counter, an atomic. A caller writes all three *before* its command
  is accepted, and takes the writes back if the channel is full.
* The session is owned by the worker thread. A session operation is one step for
  everyone else, which is why `EngineOutputs` has no interleaving of its own.
* Side threads (audio routes, stinger loader, preview worker) are fed through
  places for one request and answer through places for one result; numbers or
  revisions tell whether a result is still wanted.
* Capture threads share a mailbox of flags and the newest frame with the thread
  that renders.

### What is hard to test here

The `hazards` list of `PROJECT.json` has each one at its line. The themes are:
the worker's publication landing between a caller's mark and the handling of its
command; counters kept by hand beside the containers they describe; a failed
finalization that leaves a writer open; a failed batch whose tail returns to
the queue; a refused packet in the middle of a frame; a late result that meets a
newer request; a command or a sync that fails half-way; a crash between the
steps of a save; an ending thread and the callers that do not know yet.

## 2. The modules

| Module | Models | Correspondence |
|---|---|---|
| `PacketQueue` | `PacketQueue` of `queue.rs` | operators on `[packets, bytes]`; `bytes` is the code's counter, so that its upkeep is checked |
| `StreamSession` | `StreamSession` with its transport | one action per method, `Tick` for the passage of time; the setup chosen at the start is the TCP transport (a `BufWriter`) or the WebSocket one, and a drop policy |
| `PacketDelivery` | nothing in the code: the abstract promise | packets in order, at most once, leaving only by delivery, drop policy or close |
| `StreamConnection` | what the engine sees of a session: state and attempts used | operators only: a lost connection, the outcomes of a reconnect; `EngineOutputs` is built from them, `StreamSession` keeps to them |
| `EngineOutputs` | the outputs of `EngineSession` | one action per operation and its failure |
| `EngineWorker` | both sides of the worker, EXTENDS `EngineOutputs` | callers step through mark, send, reject or reply; the worker through receive, handle, publish, close |
| `DesktopOutput` | the window's output code, EXTENDS `EngineWorker` | the GUI thread is the only caller; a tick drains events, handles them one by one, then observes the phases |
| `PacketFile` | `AtomicPacketFileWriter` | operators on the writer's record; a file is what its bytes decode to, with the record the next write lands on |
| `RecordingFile` | one recording path over time, EXTENDS `PacketFile` | push, finalize, abort and their failures, the next recording, a crash |
| `SegmentedRecording` | `SegmentedPacketFileWriter`, EXTENDS `PacketFile` | push, rotate, finalize, abort and their failures |
| `PacketRecordings` | `RecordingOutput`: one file or segments, EXTENDS `RecordingFile`, INSTANCEs `SegmentedRecording` | a behaviour of the one or of the other |
| `ReplayBuffer` | `ReplayBuffer` of `replay.rs` | operators on `[packets, bytes, last]` |
| `OutputFanOut` | `emit_packet`, `dispatch_audio`, `push_program_frame`, EXTENDS `ReplayBuffer` | one action per program frame, start and stop |
| `SessionOutputs` | nothing of its own: `OutputFanOut` behind a name | lets one module speak of the fan-out beside the stream it feeds; the fan-out is run through it |
| `EngineAudio` | the inputs of the engine and `audio_routes.rs` | the engine thread steps through poll, schedule, read; the worker through receive, discover, open; a request number is the flag `newest`, which ends when the next is taken |
| `AudioOutputWorker` | `output_worker.rs` | every load, store and channel operation is a step |
| `StingerLoader` | the loader thread, `StingerLoadSession`, `StingerLoadController` and the Take button | one action per tick and press; the loader steps through receive, load, store |
| `LateResults` | `EngineAudio`, which it EXTENDS, and `StingerLoader`, which it INSTANCEs, side by side | a behaviour of the one or of the other, with the fairness of both |
| `ProjectModel`, `ProjectItems` | the values of a profile: sources, scenes, trees of items | operators that return the new document, or that the command is refused |
| `ProjectDocument` | `Project::apply` | one action per command, accepted or refused |
| `ProjectSession` | `ProjectSession` of `session.rs` | one action per method |
| `EditHistory` | nothing in the code: the abstract promise | a line of edits with a place on it |
| `ProjectWorkspace` | the session with the file store and the desktop's document and collection callbacks, EXTENDS `ProjectSession` | a save is a sequence of file-system steps, each of which may fail or be the last before a crash |
| `ControlRoom` | `DesktopState`: revision, Preview, Program, transition | one action per kind of command |
| `PreviewRenderer` | `preview_sync.rs`, `preview_render.rs` | operators on the renderer: sync by difference, rendering, the copies on their way back, the buffers of still scenes |
| `PreviewWorker` | the tick and the worker thread, EXTENDS `ControlRoom` and `PreviewRenderer` | the window's tick, the worker's receive, sync and render, the two slots |
| `CameraSource` | the camera source and its capture threads | the rendering thread inside one call at a time; a capture thread from one driver call or flag to the next |
| `MC...` | | the small instances; a module whose constants a configuration can give is run itself |
| `..._proofs` | | theorems |

Each model keeps the control and drops the data. A packet is an identifier or a
timestamp, a kind and a length. A file is a sequence of records, `Torn` standing
for the bytes of a write that failed half-way. All packets of a recording have
one size, so that a write in the wrong place replaces a record exactly; this
makes damage visible rather than hiding it. A project is a value where it is
stored, a tree of items where it is edited, and its scenes, sources and settings
where it is rendered. A definition whose comment says *Mutant* is a plausible
mistake, used only to show that a property would notice.

Choices that a reader may ask about:

* `EngineWorker` models the handling of a command as one step: the session is
  private to the thread, and no caller can see the middle. Marking, sending,
  rejecting, handling and publishing are separate steps, since each touches one
  shared cell atomically and anything may happen in between.
* `start_streaming_target_configured`, which the window uses, does not take its
  mark back when the channel is full, unlike the other requests; `Reject`
  has it that way. `try_stop_replay_buffer` restores a phase it read before
  its mark; `Begin` reads it there.
* `RecordingFile` lets a crash undo renames, because nothing synchronises the
  directory: the final path may go back to any file it held since the last
  crash. The constant `RenameDurable` says whether a file system does so.
  `ProjectWorkspace` takes a rename as durable; section 6 says what that hides.
* The stream in `EngineOutputs` is a connection state and the attempts used.
  That is all the engine can see of a session, which `StreamSession` has in
  full; that the two agree is `EngineSeesConnection`. In the same way a document is three different abstractions in
  `ProjectDocument`, `ProjectWorkspace` and `ControlRoom`, which say so.
* Sizes of packets in files are one unit; a byte target is thereby a packet
  target. `MAX_RECORDING_FRAMES` and the other limits are constants.
* `EngineAudio` has request numbers as a flag: numbers are only ever compared
  with the newest, so that what a request needs to know is whether it still is.
  `StingerLoader` keeps the numbers, because there the two sides compare
  different ones.
* What walks a sequence is a recursive function of its length (`BytesOf`,
  `Packets`, `PacketsOf`, `Dispatch`, `Among`, `ResolveParent`), about which the
  provers can reason, where an operator that calls itself is beyond them. For the
  same reason a scene's tree is a function from paths to nodes, so that what lies
  below an item is a set, and one scene reaches another (`Reaches`) if no set of
  scenes that is closed under references has the one without the other.
* `CopyOf` keeps the identifier it copies whole, where `copy_identity` cuts a long
  one short to make room for the suffix (`source_definitions.rs:66`). Two bases may
  then lead to one name; names are tried until one is free either way.
* `PastesItem` pastes an item of the document as it is or of any starting document:
  the clipboard keeps its item until another project is opened (`state.rs:509`), so
  that what it refers to may be gone. An item as it was between the two states
  is not pasted; the lemma about pasting (`PasteItemIsSound`) is about any item.
* `CameraSource` has one source at a time and a canvas per source: the renderer
  creates its sources anew for another canvas, with the settings they have.
* An assumption on the constants of a module that is only instanced is a
  definition there (`PolicyIsValid`, `NullIsNoLoad`, `LimitsAreValid`), which the
  module that names the instance assumes.

## 3. What the runs check

Ten runs pass and two show a disagreement. Each is one question. What a
theorem states of every instance and another property of the run covers in part
(`InOrderInv`, `EngineSeesConnection`, `RecordingKeptUntilCommitted`, `NewsIsTrue`)
is proved and not run again.

| Run | Question and answer |
|---|---|
| `stream` | Can any pattern of refused connections, partial batches, reconnects and time lose, double or reorder a packet, over either transport and under either drop policy? No: it implements the abstract promise (`ImplementsDelivery`), byte counter and metrics stay exact and, without a buffer, nothing is lost that was not discarded on purpose (`AccountingExact`). It reconnects no more often than its budget allows and fails only with the last attempt (`ReconnectBudget`). Over TCP, what is lost had been taken by the transport. |
| `worker_outputs` | Two threads share the handle, one controls a recording and a stream, the other pushes frames; the stream loses its connection and regains it. The frame counter is exact at every instant (`QueuedFramesExact`), lifecycles agree with what is open (`PhaseMatchesOutput`), the last event and the snapshot are true once nothing is under way (`EventsConclude`, `QuietSnapshot`). |
| `desktop_output` | With every button of the window and automatic recording: an output that was refused, failed or ended does not stay claimed (`StaleClaimsClear`), and a tick that ends while nothing is under way and nothing was refused leaves no claim on an output that is not there (`ReconciledClaimsHold`); in-flight phases and the save status settle (`PhasesSettle`), and every call returns, the drop of the handle at closing included (`CallsReturn`). |
| `packet_recordings` | With failed writes, flushes, renames, reopenings and removals, and crashes that may undo renames: the open file of a single recording holds exactly the accepted packets (`FileHoldsAccepted`), the final path changes only by a commit (`CommitsAccepted`) and keeps what was committed (`CommittedSurvives`). A split recording keeps every packet across rotations and their failures (`NothingLost`), in complete files that start at a keyframe (`SegmentsPlayable`) and respect size, duration and number (`SegmentsWithinTarget`), with the qualification in section 6. |
| `recording_file_retry` | And if the header patch or its sync fails? Violation of `FileHoldsAccepted`: `finalize` returns with the stream open and its cursor behind the header, the recording goes on, and the next packet overwrites the first record. |
| `audio_output` | Are the monitoring worker's counters exact under every interleaving of two callers, the worker and the cancellation (`QueuedExact`, `CallsAnswered`), is a failure explained to whoever sees it (`FailureIsExplained`), does a cancelled worker end (`CancelledEnds`)? Yes. |
| `late_results` | Two threads that answer late. The audio routes: an open input is the selected device in the format of the mix, whatever was discovered before (`SelectionIsPinned`), and a route worker that keeps up brings every channel to its device (`DefaultIsFollowed`). The stinger loader: what is ready, loading or waited for is current and under way (`LoadsAreCurrent`), and when the user is done the selected stinger is ready or reported as failed (`StingerSettles`). |
| `fan_out` | Whatever starts, stops and refuses, and whichever packets a recording fails to write: is the replay history the longest end that fits, its counter exact, and what is saved the longest such end that starts at a keyframe (`RetainsLongestEnd`); nothing streamed that an open recording lacks (`StreamedIsRecorded`); nothing doubled or reordered, and a streamed frame whole everywhere (`FramesInOrderAndWhole`)? Yes. |
| `project` | After any three accepted commands, with any refused ones between: can the document be read back (`DocumentParses`), does a refusal leave nothing behind (`RefusedChangesNothing`), does rearranging neither lose nor make an item (`RearrangingConserves`), and does ungrouping undo grouping (`GroupingIsUndone`)? Yes, but for the depth of groups (section 6). And whatever is edited, saved, exported, opened, recovered, created, renamed, imported or interrupted: is a clean session's project whole in a file and no final file torn (`SavedWorkIsKept`), and do undo and redo walk one line of edits (`ImplementsEditHistory`, a refinement of `EditHistory`)? Yes. |
| `preview_worker` | Whatever commands move the document and the selections, and whichever requests, results and syncs are lost: do the selections stay on scenes of the document (`SelectionsHold`), is what is rendered for the current revision the current project (`RendersCurrentProject`), and does a live scene that is left alone come to be shown, or an error reported (`PreviewCatchesUp`)? Yes for documents outside the divergences of section 6. |
| `preview_sync_fails` | And when the source that fails is not the first? Violation of `RendersCurrentProject`: the sources before it have taken the new settings, the applied project stays the old one, and after the edit is taken back the sync finds nothing to change. |
| `camera` | Whichever driver calls fail, are denied or outlast the second of a shutdown: is one thread of a source in the driver and what is rendered captured with the current settings (`DeviceIsCurrent`), is a denial left to the user (`DenialStands`), and is a camera whose format is the canvas's never given up (`CameraComesBack`)? Yes; in another format it is (section 6). |

### Bounds, and why they are enough

* `stream`: a queue of three bytes, packets of one, two and four (the last is
  refused), four submissions, two reconnect attempts. A batch can fail before,
  between and after its packets; an eviction can take one packet or two; the
  backoff reaches its cap.
* `worker_outputs`, `desktop_output`: a channel of one, full whenever anything
  is queued; events of one or two, so that the oldest is overwritten; one or two
  reconnect attempts. Requests are unbounded in number: the state space closes.
  The desktop has two presses, each of any button; its ticks are unbounded.
* `packet_recordings`: two packets, a third record for torn bytes, two
  timestamps, two recordings to one path: an overwrite, a late packet, the frame
  limit and a replaced file all happen. Split: six packets, segments of two
  packets or one tick, three segments: each limit is reached with packets to
  come. Torn bytes are left only by the first write of a segment there; the
  single file has them anywhere. `SegmentFrames` and `SegmentRecords` bound a
  segment's file as `MaxFrames` and `MaxRecords` bound the single one: in the code
  `MAX_RECORDING_FRAMES` is one constant. The run has every fault but `sync`, which
  breaks `FileHoldsAccepted`: that is `recording_file_retry`.
* `audio_output`: two callers, two blocks, six calls: enough for a full channel,
  a rejection, and calls before and after the end of the worker.
* `late_results`: two microphones and one pair of speakers, two formats, two
  changes by the user, the devices or a fault, intervals of two ticks: a
  selection can be changed and changed back while a result is under way, and a
  result can be one, two or three requests old. Stingers: two that are preloaded
  and one that is not, two formats, three changes, unbounded ticks and Takes. The
  two share a run because they share nothing: a behaviour is one of the one or
  of the other, and the properties of each speak of its own variables.
* `fan_out`: four packets; a history of four bytes, three packets, one tick, so
  that each bound evicts alone and together with another. An audio packet has one
  byte, a video packet two, or five, which neither the history nor the stream
  takes. A recording fails to write any set of the packets to come, in the
  middle of a frame or between two, for once or for good.
* `project`, inside a document: a camera in a group of a scene that another scene shows,
  three accepted commands, six items, indexes up to two, selections of two, groups
  of depth two, two filters, a clipboard with an item of the start or of now,
  identifiers made of five names. Every command is accepted and refused; `MaxDepth`
  is the code's `MAX_GROUP_NESTING_DEPTH` made small.
* `project`, around it: two documents, two paths, a history of two, so that an
  edit evicts; the number of operations, saves and crashes is unbounded. As
  in `late_results`, a behaviour is one of the document or of the workspace.
* `preview_worker`: two commands, five documents over two profiles, two scenes,
  two canvases and three sources; ticks, renders and copies are unbounded.
  Source 1 is a camera with settings that are refused or a colour, so that a
  change of its kind fails half-way and leaves a source that is gone. No document
  changes a source that is hidden in it or in the other, and what is refused is
  synced first (`HiddenSourcesKept`, `RefusedSourcesFirst`, which TLC evaluates of the
  instance): without the former the code falls behind (section 6), and
  what happens without the latter is `preview_sync_fails`, with two documents.
* `camera`: two formats and two devices, so that settings differ from each other and
  from the canvas; two updates or removals, a retry every two renders.
  Two threads are enough to have one that was walked away from beside one that
  replaced it; the model waits for a thread where the code would start a third.

`MaxSubmits`, `MaxPackets`, `MaxRecords`, `SegmentRecords`, `MaxRecordings`,
`MaxCalls`, `MaxPresses`, `MaxTime`, `MaxAudio`, `MaxChanges`, `MaxSelections`,
`MaxEdits`, `MaxItems`, `MaxIndex`, `MaxSelected`, `MaxCopies`, `MaxCommands` and
the names in `Names` are the bounds that exist only for TLC; all other constants are parameters of the program. `CHECK_DEADLOCK
FALSE` is set where the system may stop: a closed session, a dropped worker, a
recording that has ended, a bound that is used up.

### Fairness, and why the code justifies it

* `DesktopOutput`: the scheduler runs the worker thread, and the GUI thread when
  it is inside a call or a callback (weak fairness); the timer repeats, and the
  preview worker keeps delivering frames. The last is strong fairness on
  `TickFrame`, since a tick without a frame disables nothing for good but may
  always come first. Without the ticks, a refused
  `start_streaming_target_configured` leaves `Starting` published for ever. The
  user is never obliged to press a button.
* `AudioOutputWorker`: weak fairness of the worker thread, which assumes that
  the device's calls return. Callers are not fair.
* `EngineAudio`: weak fairness of the engine thread, which goes on with frames,
  and of the route worker. Neither waits for the other; how long discovery takes
  is open. `DefaultIsFollowed` has the premise `KeepsUp`: from some time on, the
  worker has answered when the next refresh is due. Without it the property
  fails (section 6).
* `StingerLoader`: the timer goes on and the loader thread runs, its decoder
  answering with a clip or an error.
* `PreviewWorker`: the timer fires, the worker runs, the GPU completes what was
  submitted, a transition's time passes. `TickSeesFrame` is strongly fair: the
  timer (16 ms) fires twice as often as renders are asked for (33 ms), so the
  worker does not for ever replace each picture before a tick has seen it.
* `CameraSource`: scenes are rendered for ever, the one-second wait of a shutdown
  ends, a capture thread runs and the driver's calls return at some time, which
  may be after any number of seconds.
* The other modules state safety only.

## 4. What is proved

The theorems hold for every value of the constants that satisfies the named
assumptions (`CallersAssumption`, `PolicyAssumption` and so on, each as weak as
the constructors' checks).

* `StreamSession_proofs`, about the session: `TypeCorrect`, `StretchesInOrder`,
  `DeliveryInOrder`, `AccountingIsExact`, `SessionImplementsDelivery`, `BudgetIsKept`,
  `ConnectionIsAsSeen`. The last closes the gap between two levels: the engine's
  theorems reckon with `Reconnects`, and this says that every session, of any
  policy and transport, does nothing else.
  `InOrderDelivery` speaks of the network alone and is not inductive: a flush
  that sends what is queued needs the queue to be increasing and to come after
  what was sent, and a reconnect that writes out the old buffer needs the buffer
  to lie between the two. `InOrderInv` says that network, buffer and queue are
  consecutive stretches of the submission order. `AInv` adds the accounts: the
  byte counter is the sum of what is queued (`BytesExact`), the counted packets
  are all that was submitted (`CountsExact`), and over an unbuffered transport
  every one is on the network, queued or discarded (`WireExact`). The
  refinement's step lemmas show that each action hands some stretch of the
  pending packets to the network and loses another (`Hands` of `PacketDelivery`);
  what is pending is a union of three sets of identifiers, and that the stretches
  divide it is `InOrderInv` again.
* `StreamSession_proofs`, about the fan-out that feeds it: `HistoryIsLongest`,
  `RecordedBeforeStreamed`, `FramesReachOutputsWhole`. The invariant `FanOutInv`
  says of each output that it holds packets in order, none later than the last
  one encoded, and `Retains` says of the history that it is the end of what was
  captured from the first packet at which the bounds allow one. That it is the
  longest follows from monotonicity: an end of an end that fits, fits. That
  evicting for a new packet finds it again needs the eviction to stop: without
  any packet the new one fits. The loop over the packets of a frame has an
  invariant of its own (`HandedOut`): until the first refusal the recording and
  the history got every packet, and after it the stream lacks the newest one.
* `EngineWorker_proofs`: `TypeCorrect`, `PhasesAgree`, `FlowingIsReported`,
  `RecordingKept`, `CounterExact`, `SnapshotIsCurrent`, `EventsAreConcluded`,
  `EventsAreTrue`, and of the desktop `TicksReconcileClaims` and
  `NewsIsAlwaysTrue`. The invariants are proved of `WorkerSpec`, in which a caller
  may make any request at all. `Spec` implements it (`AnyRequests`) and so does the
  desktop (`DesktopIsACaller`): a button, a callback and a tick are either a
  caller's step or change only the window. The invariant is `OutputsInv` for the outputs, preserved by
  each session operation, and `Types`, `ControlsAwaited` and `QueuedFramesExact`
  for the worker. `ControlsAwaited` is needed because handling a `Control`
  command sends its caller back to rest: were that caller in the middle of
  pushing a frame, the count would be off. Types are needed because the counter
  is decremented: that it never wraps is a consequence of the equation, whose
  terms are cardinalities of finite sets. `SnapshotCurrent` widens
  `QuietSnapshot` to callers that are not at rest but have nothing to send or to
  take back.
  `EventsInv` names what the conclusion of an announced stream request is owed
  by: a caller before its send, a place in the channel, or the worker's hands.
  `EventsAreConcluded` assumes `NoTargetRequests`, as the run has it: a refused
  `start_streaming_target_configured`, the desktop's way to start a stream,
  leaves its `Starting` without a conclusion (section 6). `EventsAreTrue` needs no
  such assumption: a last event that says running or stopped is right.
  `NewsIsAlwaysTrue` carries that to what the tick has already taken from the
  queue (`NewsIsLast`: while nothing newer is queued, the end of the batch is the
  last event). `TicksReconcileClaims` joins the agreement of the snapshot with the
  session (`QuietSnapshot`), the phases of what is closed (`ClosedIsStopped`) and
  that only `Observe` ends a tick (`TickEnds`): it goes by the snapshot of that
  moment, and so undoes what an old event of the same tick may have claimed.
* `RecordingFile_proofs`: `TypeCorrect`, and, assuming that the header patch
  and its sync do not fail (`HeaderNeverFails`; `recording_file_retry` is the
  counterexample otherwise), of a single file `RecordingKeepsPackets`,
  `FinalFileIsWhole`, `OnlyWholeFilesCommitted`, `CommittedFileSurvives`, and of a
  split recording `SplitLosesNothing`, `SegmentsArePlayable`,
  `SegmentsKeepTheirTarget`. The invariant `Kept` adds to the properties that the
  cursor of an open stream is behind the last record (else a push overwrites),
  that every file at the final path or that a crash may bring back is
  synchronised (else the crash tears it), and that the latter were committed;
  `Surviving` relates the final path to the commits. The lemmas `HoldsPacket` and
  `HoldsTorn` carry the packets' places through a write. Of the segments,
  `SegInv` says that the open one counts its packets, started where the writer
  believes it did, and starts with a keyframe unless the failed write of one is
  recorded in `headless`. The writers of both are the same, which is a lemma
  (`SameWriters`), since an instance has definitions of its own.
* `AudioOutputWorker_proofs`: `QueuedBlocksExact`, `EveryCallAnswered`,
  `FailureHasItsError`, for any finite set of callers. As with the frame counter,
  what is counted is a set of callers between two atomics, the channel, and the
  worker's hands; the invariant says which of them each place of the two
  programs stands for.
* `EngineAudio_proofs`: `SelectionPinned`. The invariant says of every request
  and result that carries the newest number that it was made for the current
  selection and format; the engine's half is that whoever changes either takes
  the next number. And `NoLateLoad` about the stinger loader: `LoaderInv` says that
  whatever is in the channel, in the loader or in the slot under the number of
  the session's load was asked for the session's resource in its format
  (`Answers`), that a number is used once, and that a load somebody waits for is
  in one of the three places (`Delivered`), which a refused request must leave
  so.
* `Project_proofs`, about the workspace: `TypeCorrect`, `HistoryBounded`,
  `WorkIsKept`, `HistoryIsALine`. `WorkIsKept` needs to know of a save under way which file is
  written, that its document is the one the session will mark clean, and that
  until then the old final file is as it was. `HistoryIsALine` is the refinement:
  the undo stack, the project and the reversed redo stack are one sequence
  (`Line`), and each operation maps to a step of `EditHistory` or none, for every
  bound on the history.
* `Project_proofs`, about the document: `DocumentAlwaysParses`,
  `RefusalsChangeNothing`, `RearrangingLosesNothing` and `GroupingIsAlwaysUndone`, for
  any identifiers and filters, any starting profiles that parse
  (`DocumentsAssumption`), and whatever the bounds are, the depth of groups and
  the number of ordinals included. `Parses` is inductive together with
  the shape of a profile (`IsProfile`). It is proved per layer. A list operation
  keeps a list free of repetitions and has the entries it should (`MovedFacts`,
  `SplicedFacts`, ...). Each operation on a tree (`Detached`, `Attached`,
  `GroupOf`, `Dissolved`, a new order) keeps lists and paths in agreement
  (`...IsGood`) and refers to nothing that its parts did not (`...Refers`). A
  command keeps scenes apart that were (`NoNewCircle`): the scenes reached from a
  new reference's target are a closed set without the owner, which the new
  reference leaves closed (`ApartByClosed`), and a copy of a scene is referred to
  by nobody. That a refusal changes nothing is plain for all commands but the two
  that copy first, a paste and the duplicate of a scene; those are refused after
  it only if an identifier that was tried against the taken ones is taken
  (`CopyFacts`).
  Rearranging is counted over slots, the places of a profile that hold an item
  which is no group (`IsSlot`). Every move, within a list, to another group or
  scene, into a new group or out of one, is a shift (`Shifted`): the slots of one
  scene at and beyond a path are found again at and beyond another, with the same
  items, and the others stay where they were. A shift is a bijection of slots, so
  that every item is used as often as before (`UsesByShift`).
  That ungrouping undoes grouping is an equation between trees, proved node by
  node. Neighbours are a run of their parent's list (`RunOf`). Grouped, the run
  is cut out of the list and the group stands in its place
  (`InsteadOfRun`, `RunGrouped`); dissolved, the run is spliced back where the
  group stood, which is the list there was (`RunReturns`), and all that was below
  the run is at its old path with its old contents (`RunDissolved`). That the
  path of the new group leads to it, and not through a nested scene into another,
  is `LocalTarget`.
* `PreviewWorker_proofs`: `SelectionsStay`, for any documents and any number of
  commands; `RendersAppliedProject`: what the renderer has applied under the
  current revision is the current project; and `RendersCurrent`, what then runs.
  It assumes nothing of the documents, and says what the two
  divergences leave standing (`OnlyStraysDiffer`): whichever requests were replaced and syncs
  failed, when the worker draws the current revision every source that a scene
  shows has an instance, none is gone, and it runs on the current settings,
  unless it strays: some edit changes that source, and either it is hidden at
  that time or some source may be refused. The invariant `RuntimeInv` says of
  every instance (`InstanceOK`) that it runs on settings some document gives its
  source or is gone, and, where nothing is ever refused, that it is not gone and,
  unless it may be hidden, runs on the settings last applied; and that all are in line with the document
  when its revision is applied (`InLine`). A failed sync keeps the first part
  (`FailingKeeps`), a sync that succeeds establishes the second, since one that
  meets a gone source fails.
* `CameraSource_proofs`: `TypeCorrect`, `OneThreadInDriver`,
  `DenialIsNotRetried`. The invariant says of each place the rendering thread may
  wait in which thread it waits for, and that a thread that is neither the
  source's nor walked away from has ended.

Sums of bytes, packets among records and the frame's loop are recursive
functions of a length. What such a function computes is proved from its
recursion equation and the least length at which a claim would fail
(`LeastNumber`, from the well-foundedness of the numbers, and `InductionUpTo`),
since the library's induction theorems take an operator as a parameter, which
the provers here cannot instantiate. The theorems about a component that
another module only instances stand in the proof module of the component it
works with: segments with the single file, the stinger loader with the audio
routes, the fan-out with the stream.

Only model-checked: all liveness, which needs fairness (`StaleClaimsClear`,
`PhasesSettle`, `CallsReturn`, `CancelledEnds`, `DefaultIsFollowed`,
`StingerSettles`, `PreviewCatchesUp`, `CameraComesBack`).

## 5. Findings

`PROJECT.json` lists two, each with its run.

* `recording_file_retry` (`writers/atomic.rs:489`): a finalization whose header
  flush or `sync_all` fails leaves the writer open with its cursor behind the
  header, so that the recording, which the engine keeps "so the captured packets
  are not silently discarded" (`session_output.rs:501`), writes its next packet over
  its first.
* `preview_sync_fails` (`preview_sync.rs:128`): a sync stops at the first source that
  fails and keeps what it did to the sources before it. `applied`, "The project
  the runtime currently mirrors" (`preview.rs:43`), is then not what the runtime
  mirrors, and a revert to it changes nothing in the instances.

## 6. Observed while modelling, without a run

Most of these the models contain too, and the properties are stated so as to
allow them, or the instances leave them out as section 3 says; the rest were met
while reading. Paths are those of the crate named first in each group.

Outputs (obs-rs-output, obs-rs-engine, obs-rs-gui):

* A failed reconnect attempt clears the desktop's streaming claim, and nothing
  restores it when a later attempt succeeds (`callbacks/mod.rs:628`, against the
  comment at 553): the desktop sends a running stream no frames.
* Nothing gives a reconnect attempt back (`ReconnectBudget`; `session.rs:226`): a
  stream that is up for hours between failures still ends after the configured
  number of them.
* Once the reconnect budget is spent, `submit` fails and `push_program_frame`
  stops at the first error (`session_runtime.rs:307`), so of each frame only the
  first packet is recorded; `PARITY-MATRIX.md:1279` has the outputs independent.
  In the same way a packet that the replay history refuses reaches neither the
  recording nor the stream (`session_runtime.rs:302`).
* `session_media.rs:98` moves the session's clock only after a frame that reached all
  outputs; the model's `now` is the clock of the renderer, which goes on in any
  case. A frame from before the last one taken (82) reaches no output, which can
  happen only after the renderer was replaced and started at zero again.
* `stream/transport.rs:200`: over TCP a packet counts as delivered once it is in
  the `BufWriter`; when the batch's flush fails, those packets are not queued
  again, although `stream/session.rs:160` says a failed packet is put back. That
  part of `AccountingExact` is therefore stated for the unbuffered transport.
* `worker_runtime.rs:342`: the whole snapshot is replaced after every command,
  so the publication of an earlier command may put `Idle` over a caller's fresh
  `Starting`. The desktop (`callbacks/mod.rs:618`) then clears its claim on a
  recording that starts a moment later and runs unclaimed.
* `worker_output.rs:534`: a refused `try_stop_replay_buffer` writes back the
  phase it read before its mark; if that was `Starting` and the worker settled
  it meanwhile, `Starting` stays until the next publication.
* `worker_output.rs:622`: a `start_streaming_target_configured` that is refused by
  a full channel leaves the phase and the event `Starting`, which no conclusion
  follows; its sibling at 642 reports `Failed`.
* After a failed commit the engine keeps the recording open but the desktop
  clears its claim, so that its button can only ask for a new start, which is
  refused (`callbacks/output.rs:47`). A native stream whose close fails leaves
  the phase `Stopping` with no stream behind it (`session_output.rs:805`). A
  replay save whose finalization fails keeps its temporary file
  (`session_output.rs:624`).
* `writers/atomic.rs:464` says that a failed finalize removes the temporary
  file; it keeps it, for the retry.
* `writers/atomic.rs:451`: bytes of a failed write stay in the file, between
  packets that are whole. `finalize` publishes such a file; its header counts
  the packets, but a reader meets the torn bytes first. `Torn` stands for them.
* `writers/atomic.rs:502`: the directory is not synchronised after the rename,
  so a crash may undo a reported commit, and the next recording to that path
  truncates the temporary file. A crash between `native_remux.rs:152`'s hard link
  and the removal of the temporary file leaves both.
* `writers.rs:302`: `push` rotates before it writes the keyframe; if that write
  fails, the next interframe is the first packet of the new segment (`headless`
  in `SegmentedRecording`). A rotation that fails at the header or the sync has
  the same consequence as in `recording_file_retry`. An abort forgets the
  segments whose removal failed (`writers.rs:353`), and segment names depend on
  the base path only, so that a second recording to it replaces the first's
  (`writers.rs:477`).
* `output_worker.rs:102`: `try_write` looks at the cancellation only, so a block
  may be accepted after `Failed` was published; and blocks sent while the worker
  returns stay counted in `queued_blocks` for ever (`output_worker.rs:237`).

Engine audio (obs-rs-engine):

* `session_runtime.rs:36`: a stale result ticks off the request in flight, so the
  next refresh is asked for while the worker still works, with the next number;
  one that always takes longer than the interval (250 ms) has every result
  outdated when it is taken, and an automatic route never follows its default
  again, against `PARITY-MATRIX.md:1267`. TLC shows it when `DefaultIsFollowed` is
  stated without `KeepsUp`. The number is taken also when the channel refuses
  the request.
* The comment at `next_audio_deadline = None` has a failed read re-anchor the
  next tick, but `drain_audio_until` assigns the deadline it took before
  (`session_runtime.rs:229`), so the block is skipped. `set_audio_format` and a
  project synchronisation start the timeline again at zero while timestamps go
  on: the next drain mixes every block from zero. The reconnect deadline after a
  selection is the first second of media time, which is over in a running
  session.

Stinger (obs-rs-gui): a Take plays the clip that is ready without looking at the
selected scene (`stinger_take.rs:33`), so between a selection and the next tick it
plays the former scene's; a load that failed is not tried again until the
selection changes; a change of the canvas drops the pending Take of a stinger that
is not preloaded without a message.

Project and its files (obs-rs-project, obs-rs-ui, obs-rs-gui):

* `model/scene.rs:14`: the depth of groups (64) is checked when an item is added
  or pasted at the root and between scenes, not when items are grouped, moved
  within a scene or pasted into groups. `flatten` (`model.rs:343`) and
  `decode_item` (`codec.rs:622`) refuse what is deeper: such a document is saved
  and cannot be loaded. `DocumentParses` leaves the depth out. The size of a
  document is likewise bounded only when it is parsed.
* `persist_session` (`settings_controller.rs:127`) saves the open document to
  `settings.project_path`, which only the settings dialog changes
  (`settings_commit.rs:311`): closing overwrites that collection's file with
  another collection's document, also after New and after "Discard".
* `create_collection` (`menu_collections.rs:196`): with an active path that has
  no file and a new collection of the same path, the open document is saved and
  then overwritten by the starter, against the comment in it.
* The Save As dialog edits the project's path itself (`dialogs.slint:73`,
  `main_modals.slint:119`): that another existing file is refused
  (`callbacks/project.rs:280`) never applies, and cancelling leaves the typed path active.
* New (`menu.rs:146`) replaces the whole `DesktopState`: shortcuts, language and
  claims go with it, and the revision starts again at one, which the preview
  worker and the output may have applied. `NewProject` is therefore no command of
  `ControlRoom`. `SwapPreviewProgram` leaves the selected sources as they were.
* A failed save removes the temporary file, an older recovery document in it
  included, a later save truncates one without a word, and the directory is not
  synchronised after the rename.

Preview (obs-rs-gui):

* `preview_render.rs:424`: `readback_async` returns the copy of whatever was drawn
  before, and `render_target` keeps it as the buffer of the still scene asked for,
  for good (against `preview.rs:56`). A still scene's request that is replaced by
  the next tick's poll is never rendered (`preview_worker.rs:136`), nor does a
  first request start its own copy while an older one is in flight.
  `PreviewCatchesUp` is about scenes that are not still. The CPU compositor
  reports an error each time a still scene is polled, and a scene without visible
  layers leaves the former picture up.
* `preview_sync.rs:126`: a source that no scene shows is skipped, with its instance
  kept, and the project taken for applied (76); shown again, the source runs on
  its former settings, or as its former kind, although `sync_project` "Brings the
  runtime in line with `project`" (43). `RendersCurrentProject` is violated by such
  documents, which `preview_worker` leaves out; `RendersCurrent` excepts the source.
* `preview_sync.rs:160`: a source that a failing sync creates has no mirrored state,
  and every later sync refuses it while a scene shows it. One that is destroyed for a change of its kind
  and cannot be created again keeps its place in `source_ids` (`preview_sync.rs:169`):
  every later sync fails that attaches it to a scene (267) or, once the user has
  removed it, destroys it a second time (337): only another canvas or a restart
  brings it back. The models have both.
* A result that was not taken when the next came loses its frame and its
  `source_settings_updates`. A change of the canvas opens the new renderer's
  devices before the old are dropped.

Capture (obs-rs-capture, obs-rs-builtins, obs-rs-sandbox):

* `factories.rs:417`: a source whose format is not the canvas's is refused before
  its state is looked at, so that while the two differ a lost camera is not
  reopened and a blocked one does not notice that its thread has ended.
  A change of the canvas leaves the sources' settings as they are
  (obs-rs-project, `commands.rs:360`); only an update by the user, of the format,
  brings the camera back. `CameraComesBack` is about sources that fit.
* A source that is blocked by a thread that did not end stays so when that thread
  ends denied, until an update with other settings. An update with the same
  settings returns early and is no way out of a denial (`factories.rs:445` says
  update is). `threaded.rs` says a thread never outlives its source; after the
  second of grace it does. Error paths publish the end before the device is
  dropped, so a driver that hangs there hangs the unbounded join
  (`threaded.rs:212`).
* `builtins/windows.rs`: a retry that was postponed while a shutdown was blocked
  is never taken, and settings put back after a failed update do not reopen.
* Sandbox: after the reader's error or the child's exit the device stays
  "running" and only gives errors until an update; `stop` kills the child, but a
  grandchild that holds the pipe keeps the reader and its join waiting
  (`frame_reader.rs:162`: a late frame races the kill).

Updater (obs-rs-update, which no other crate uses): a crash while staging leaves
`.X.part`, after which that version is refused as already staged; a crash between
activation and the end of the health check leaves an unchecked version active
(`lib.rs:422`); directories are not synchronised.

## 7. What could come next

The plan was: streams, engine worker and desktop, writers, audio output, fan-out;
then the project's document, session and files; the preview with the control
room; the camera; the late results of audio routes and stingers. All of it is
done. What is left in reach, in the order of its worth:

1. The frame queues and the pacer of obs-rs-audio and obs-rs-video
   (`queue.rs`, `worker.rs`): every frame is delivered, dropped and counted, or
   waiting; deadlines over rationals.
2. The sandboxed source: the child and its reader, which end in either order.
3. The updater and the native remux manifest, with crashes between their steps.
4. A composition of `EngineOutputs` with the files: a replay save through
   `PacketFile` beside a recording to the same path.
5. The other targets of the preview worker: Program, multiview, projectors and
   the encoder.

Every safety property of every passing run is stated by a theorem, `RendersCurrentProject`
in the form that holds of all documents (`OnlyStraysDiffer`). What TLC alone
checks are the liveness properties (section 4). Theorems worth proving next would
come with those models.

## 8. Not modelled, and why

* The native GStreamer outputs: their pipelines run inside a library. In the
  engine they replace the packet recording and the packet stream, one flag at a
  time.
* The `Disconnected` and `Reconnecting` output events: the worker never emits
  them. A pump that reconnects emits no event at all, which is why the desktop's
  claim is not restored.
* The frames the worker refuses while it is full are counted in a separate
  counter (`dropped_frames`) that nothing reads back into a decision.
* Sizes of packets in files, the layout of headers and the WebSocket framing:
  conversions, tested in the crates. The project codec likewise: the models say
  what it refuses, not how it reads.
* The mixer, resampler, filters, transitions and renderers: floating-point or
  pixel arithmetic, out of a model checker's reach.
* The media clock and timeline: sequential rational arithmetic.
* Capture back ends and audio devices: wire protocols and system interfaces. The
  camera's driver is a choice of answers in `CameraSource`; the portal sessions'
  opener has a channel of its own per attempt, so that no result of an old one
  can arrive.
* Engine configuration and project synchronisation: wiring and validation.
* Blocking starts and finishes of outputs (`start_recording`, ...) used by the
  command-line tools: the same marks and handlers as their `try_` forms, with a
  wait for the answer.
* Consoles, settings, translations, widgets, docks, dialogs, diagnostics bundles,
  entry points, benchmarks and scripts: text, geometry and documents on one
  thread. They are most of the repository's lines.
