-------------------------- MODULE AudioOutputWorker -------------------------
(* The monitoring-output worker of obs-rs-audio (output_worker.rs): threads
   that submit blocks with try_write, a bounded channel, and the worker thread
   that owns the device.  They share atomics, so try_write and the worker's
   loop are split at every load, store and channel operation.  Blocks are
   indistinguishable and the channel is how many of them wait in it. *)
EXTENDS Integers, FiniteSets

CONSTANTS Producers,   \* threads holding a clone of the handle
          Capacity,    \* capacity_blocks
          MaxCalls     \* bound: try_write calls in one behaviour

ASSUME ProducersAssumption == IsFiniteSet(Producers)
ASSUME CapacityAssumption == Capacity \in Nat \ {0}
ASSUME MaxCallsAssumption == MaxCalls \in Nat

VARIABLES waiting,      \* blocks in the channel
          receiver,     \* the receiving end exists
          state, lastError, queued, dropped, cancelled,   \* the shared cells
          worker,       \* where the worker thread is
          producer,     \* where each caller of try_write is
          calls, accepted   \* try_write calls begun, and answered true

shared == <<state, lastError, cancelled>>
counts == <<queued, dropped, calls, accepted>>
vars == <<waiting, receiver, shared, counts, worker, producer>>

Init ==
    /\ waiting = 0
    /\ receiver = TRUE
    /\ state = "Starting"
    /\ lastError = FALSE
    /\ queued = 0
    /\ dropped = 0
    /\ cancelled = FALSE
    /\ worker = "Opening"
    /\ producer = [p \in Producers |-> "Idle"]
    /\ calls = 0
    /\ accepted = 0
-----------------------------------------------------------------------------
Moves(p, from, to) == producer[p] = from /\ producer' = [producer EXCEPT ![p] = to]

(* try_write: a cancelled worker refuses at once. *)
TryWrite(p) ==
    /\ calls < MaxCalls
    /\ calls' = calls + 1
    /\ \/ ~cancelled /\ Moves(p, "Idle", "Counting") /\ UNCHANGED dropped
       \/ /\ cancelled /\ producer[p] = "Idle"
          /\ dropped' = dropped + 1
          /\ UNCHANGED producer
    /\ UNCHANGED <<waiting, receiver, shared, queued, accepted, worker>>

CountQueued(p) ==
    /\ Moves(p, "Counting", "Sending")
    /\ queued' = queued + 1
    /\ UNCHANGED <<waiting, receiver, shared, dropped, calls, accepted, worker>>

TrySend(p) ==
    /\ receiver /\ waiting < Capacity
    /\ Moves(p, "Sending", "Idle")
    /\ waiting' = waiting + 1
    /\ accepted' = accepted + 1
    /\ UNCHANGED <<receiver, shared, queued, dropped, calls, worker>>

TrySendFails(p) ==
    /\ ~receiver \/ waiting = Capacity
    /\ Moves(p, "Sending", "Rejected")
    /\ UNCHANGED <<waiting, receiver, shared, counts, worker>>

(* Mutant: a rejected block stays counted as queued. *)
RejectKeepsQueued(p) ==
    /\ Moves(p, "Rejected", "Idle")
    /\ dropped' = dropped + 1
    /\ UNCHANGED <<waiting, receiver, shared, queued, calls, accepted, worker>>

(* Mutant: a rejected block is not counted as dropped. *)
RejectUncounted(p) ==
    /\ Moves(p, "Rejected", "Idle")
    /\ queued' = queued - 1
    /\ UNCHANGED <<waiting, receiver, shared, dropped, calls, accepted, worker>>

Reject(p) ==
    /\ Moves(p, "Rejected", "Idle")
    /\ queued' = queued - 1
    /\ dropped' = dropped + 1
    /\ UNCHANGED <<waiting, receiver, shared, calls, accepted, worker>>

(* The owner drops the worker. *)
Cancel ==
    /\ ~cancelled
    /\ cancelled' = TRUE
    /\ UNCHANGED <<waiting, receiver, state, lastError, counts, worker, producer>>
-----------------------------------------------------------------------------
Steps(from, to) == worker = from /\ worker' = to

(* A worker cancelled before it opened the device returns at once. *)
ReturnUnopened ==
    /\ cancelled
    /\ Steps("Opening", "Returning")
    /\ state' = "Stopped"
    /\ UNCHANGED <<waiting, receiver, lastError, cancelled, counts, producer>>

Open ==
    /\ Steps("Opening", "Receiving")
    /\ UNCHANGED <<waiting, receiver, shared, counts, producer>>

(* Mutant: the state is published before the error. *)
FailPublishesFirst(from) ==
    /\ Steps(from, "Failing")
    /\ state' = "Failed"
    /\ UNCHANGED <<waiting, receiver, lastError, cancelled, counts, producer>>

(* fail_worker: the error first, the state after it. *)
Fail(from) ==
    /\ Steps(from, "Failing")
    /\ lastError' = TRUE
    /\ UNCHANGED <<waiting, receiver, state, cancelled, counts, producer>>

PublishFailed ==
    /\ Steps("Failing", "Draining")
    /\ state' = "Failed"
    /\ UNCHANGED <<waiting, receiver, lastError, cancelled, counts, producer>>

Receive ==
    /\ waiting > 0
    /\ Steps("Receiving", "Received")
    /\ waiting' = waiting - 1
    /\ UNCHANGED <<receiver, shared, counts, producer>>

(* Mutant: a time-out does not look at the cancellation. *)
TimeOutForever ==
    /\ waiting = 0 /\ cancelled
    /\ worker = "Receiving"
    /\ UNCHANGED vars

(* recv_timeout finds nothing: the loop ends only if it was cancelled. *)
TimeOut ==
    /\ waiting = 0 /\ cancelled
    /\ Steps("Receiving", "Stopping")
    /\ UNCHANGED <<waiting, receiver, shared, counts, producer>>

Uncount ==
    /\ Steps("Received", "Holding")
    /\ queued' = queued - 1
    /\ UNCHANGED <<waiting, receiver, shared, dropped, calls, accepted, producer>>

StopHolding ==
    /\ cancelled
    /\ Steps("Holding", "Stopping")
    /\ UNCHANGED <<waiting, receiver, shared, counts, producer>>

(* The cancellation was last looked at before the device is written. *)
BeginWrite ==
    /\ ~cancelled
    /\ Steps("Holding", "Writing")
    /\ UNCHANGED <<waiting, receiver, shared, counts, producer>>

Write ==
    /\ Steps("Writing", "Receiving")
    /\ state' = "Running"
    /\ UNCHANGED <<waiting, receiver, lastError, cancelled, counts, producer>>

Stop ==
    /\ Steps("Stopping", "Draining")
    /\ state' = "Stopped"
    /\ UNCHANGED <<waiting, receiver, lastError, cancelled, counts, producer>>

(* drain_queue: one block, its count, and the empty channel that ends it. *)
Drain ==
    /\ waiting > 0
    /\ Steps("Draining", "Drained")
    /\ waiting' = waiting - 1
    /\ UNCHANGED <<receiver, shared, counts, producer>>

UncountDrained ==
    /\ Steps("Drained", "Draining")
    /\ queued' = queued - 1
    /\ UNCHANGED <<waiting, receiver, shared, dropped, calls, accepted, producer>>

DrainedAll ==
    /\ waiting = 0
    /\ Steps("Draining", "Returning")
    /\ UNCHANGED <<waiting, receiver, shared, counts, producer>>

(* The thread returns and drops the receiver with what is in the channel. *)
Return ==
    /\ Steps("Returning", "Done")
    /\ receiver' = FALSE
    /\ waiting' = 0
    /\ UNCHANGED <<shared, counts, producer>>

WorkerNext ==
    \/ ReturnUnopened \/ Open \/ Fail("Opening")
    \/ PublishFailed
    \/ Receive \/ TimeOut \/ Uncount \/ StopHolding \/ BeginWrite
    \/ Write \/ Fail("Writing")
    \/ Stop \/ Drain \/ UncountDrained \/ DrainedAll \/ Return

ProducerNext(p) ==
    TryWrite(p) \/ CountQueued(p) \/ TrySend(p) \/ TrySendFails(p) \/ Reject(p)

Next == WorkerNext \/ Cancel \/ \E p \in Producers : ProducerNext(p)

(* The worker thread keeps running, and the device's calls return. *)
Spec == Init /\ [][Next]_vars /\ WF_vars(WorkerNext)
-----------------------------------------------------------------------------
Counted == {p \in Producers : producer[p] \in {"Sending", "Rejected"}}
Uncounted == IF worker \in {"Received", "Drained"} THEN 1 ELSE 0

(* While the worker runs, queued_blocks is exactly the blocks in the channel,
   those a caller has counted and not yet sent or taken back, and the one the
   worker has received and not yet uncounted: it never passes zero, where the
   unsigned counter would wrap.  The channel stays within its capacity. *)
QueuedExact ==
    /\ waiting \in 0..Capacity
    /\ receiver => queued = waiting + Cardinality(Counted) + Uncounted

(* Every call is answered true, counted as dropped, or still running. *)
CallsAnswered ==
    calls = accepted + dropped + Cardinality({p \in Producers : producer[p] # "Idle"})

(* Whoever sees Failed finds its error: fail_worker writes the error first. *)
FailureIsExplained == state = "Failed" => lastError

(* Dropping the worker makes its thread end, whatever the callers still send. *)
CancelledEnds == cancelled ~> worker = "Done"
=============================================================================
