---------------------- MODULE AudioOutputWorker_proofs ----------------------
(***************************************************************************)
(* Proofs about AudioOutputWorker, for any finite set of callers, any      *)
(* capacity and any number of calls: the shared counters are exact between *)
(* any two accesses to them.                                               *)
(***************************************************************************)
EXTENDS AudioOutputWorker, FiniteSetTheorems, TLAPS

Places == {"Idle", "Counting", "Sending", "Rejected"}
Busy == {"Counting", "Sending", "Rejected"}
Holding == {"Sending", "Rejected"}

\* The callers of try_write that are at one of these places.
CallersAt(f, places) == {p \in Producers : f[p] \in places}

(* The unsigned counter is in Int here: that it never passes zero while the
   worker runs follows from QueuedExact. *)
Types ==
    /\ waiting \in Nat
    /\ receiver \in BOOLEAN
    /\ cancelled \in BOOLEAN
    /\ queued \in Int
    /\ dropped \in Nat
    /\ calls \in Nat
    /\ accepted \in Nat
    /\ producer \in [Producers -> Places]
    /\ receiver <=> worker # "Done"

\* fail_worker is between its two stores, or behind both.
FailureFollows ==
    worker = "Failing" \/ state = "Failed" => lastError

(* The invariant, the callers that have counted a block and those in a call
   being so many. *)
InvWith(holding, busy) ==
    /\ Types /\ FailureFollows
    /\ waiting <= Capacity
    /\ receiver => queued = waiting + holding + Uncounted
    /\ calls = accepted + dropped + busy

Inv == InvWith(Cardinality(CallersAt(producer, Holding)),
               Cardinality(CallersAt(producer, Busy)))

-----------------------------------------------------------------------------
(* Counting callers *)

LEMMA CallersCounted ==
    ASSUME NEW f, NEW places
    PROVE  IsFiniteSet(CallersAt(f, places)) /\ Cardinality(CallersAt(f, places)) \in Nat
<1>1. CallersAt(f, places) \subseteq Producers
  BY DEF CallersAt
<1> QED
  BY <1>1, ProducersAssumption, FS_Subset, FS_CardinalityType

(* One caller moves: it enters or leaves the count by one at most. *)
LEMMA MovedCounts ==
    ASSUME producer \in [Producers -> Places], NEW p \in Producers,
           NEW from, NEW to \in Places, Moves(p, from, to), NEW places
    PROVE  Cardinality(CallersAt(producer', places)) =
             Cardinality(CallersAt(producer, places))
               + (IF to \in places THEN 1 ELSE 0) - (IF from \in places THEN 1 ELSE 0)
<1> DEFINE before == CallersAt(producer, places)
           after == CallersAt(producer', places)
<1>1. /\ producer[p] = from /\ producer'[p] = to
      /\ \A q \in Producers \ {p} : producer'[q] = producer[q]
  BY DEF Moves
<1>2. IsFiniteSet(before) /\ Cardinality(before) \in Nat
  BY CallersCounted
<1>3. CASE from \in places <=> to \in places
  <2>1. after = before
    BY <1>1, <1>3 DEF CallersAt
  <2> QED
    BY <1>2, <1>3, <2>1
<1>4. CASE from \in places /\ to \notin places
  <2>1. after = before \ {p} /\ p \in before
    BY <1>1, <1>4 DEF CallersAt
  <2>2. Cardinality(before \ {p}) = Cardinality(before) - 1
    BY <1>2, <2>1, FS_RemoveElement
  <2> QED
    BY <1>2, <1>4, <2>1, <2>2
<1>5. CASE from \notin places /\ to \in places
  <2>1. after = before \cup {p} /\ p \notin before
    BY <1>1, <1>5 DEF CallersAt
  <2>2. Cardinality(before \cup {p}) = Cardinality(before) + 1
    BY <1>2, <2>1, FS_AddElement
  <2> QED
    BY <1>2, <1>5, <2>1, <2>2
<1> QED
  BY <1>3, <1>4, <1>5

-----------------------------------------------------------------------------
(* Every step of the worker thread leaves the callers alone. *)
LEMMA WorkerKeepsInv ==
    ASSUME NEW holding \in Nat, NEW busy \in Nat, InvWith(holding, busy),
           WorkerNext \/ Cancel
    PROVE  InvWith(holding, busy)' /\ UNCHANGED producer
<1> USE CapacityAssumption DEF InvWith, Types, FailureFollows, Uncounted, Steps, shared, counts
<1>1. CASE ReturnUnopened
  BY <1>1 DEF ReturnUnopened
<1>2. CASE Open
  BY <1>2 DEF Open
<1>3. ASSUME NEW from \in {"Opening", "Writing"}, Fail(from)
      PROVE  InvWith(holding, busy)' /\ UNCHANGED producer
  BY <1>3 DEF Fail
<1>4. CASE PublishFailed
  BY <1>4 DEF PublishFailed
<1>5. CASE Receive
  BY <1>5 DEF Receive
<1>6. CASE TimeOut
  BY <1>6 DEF TimeOut
<1>7. CASE Uncount
  BY <1>7 DEF Uncount
<1>8. CASE StopHolding
  BY <1>8 DEF StopHolding
<1>9. CASE BeginWrite
  BY <1>9 DEF BeginWrite
<1>10. CASE Write
  BY <1>10 DEF Write
<1>11. CASE Stop
  BY <1>11 DEF Stop
<1>12. CASE Drain
  BY <1>12 DEF Drain
<1>13. CASE UncountDrained
  BY <1>13 DEF UncountDrained
<1>14. CASE DrainedAll
  BY <1>14 DEF DrainedAll
<1>15. CASE Return
  <2>1. waiting' = 0 /\ receiver' = FALSE /\ worker = "Returning" /\ worker' = "Done"
    BY <1>15 DEF Return
  <2>2. UNCHANGED <<state, lastError, cancelled, queued, dropped, calls, accepted, producer>>
    BY <1>15 DEF Return
  <2>3. 0 \in Nat /\ 0 <= Capacity
    OBVIOUS
  <2> QED
    BY <2>1, <2>2, <2>3
<1>16. CASE Cancel
  BY <1>16 DEF Cancel
<1> QED
  BY <1>1, <1>2, <1>3, <1>4, <1>5, <1>6, <1>7, <1>8, <1>9, <1>10, <1>11, <1>12, <1>13,
     <1>14, <1>15, <1>16 DEF WorkerNext

(* A caller that moves takes its block's count with it. *)
LEMMA ProducerKeepsInv ==
    ASSUME Inv, NEW p \in Producers, ProducerNext(p)
    PROVE  Inv'
<1>1. PICK holding \in Nat, busy \in Nat :
          /\ holding = Cardinality(CallersAt(producer, Holding))
          /\ busy = Cardinality(CallersAt(producer, Busy))
  BY CallersCounted
<1>2. InvWith(holding, busy)
  BY <1>1 DEF Inv
<1>3. producer \in [Producers -> Places]
  BY <1>2 DEF InvWith, Types
<1>4. ASSUME NEW from, NEW to \in Places, Moves(p, from, to),
             InvWith(holding + (IF to \in Holding THEN 1 ELSE 0) - (IF from \in Holding THEN 1 ELSE 0),
                     busy + (IF to \in Busy THEN 1 ELSE 0) - (IF from \in Busy THEN 1 ELSE 0))'
      PROVE  Inv'
  <2>1. Cardinality(CallersAt(producer', Holding)) =
          holding + (IF to \in Holding THEN 1 ELSE 0) - (IF from \in Holding THEN 1 ELSE 0)
    BY <1>1, <1>3, <1>4, MovedCounts
  <2>2. Cardinality(CallersAt(producer', Busy)) =
          busy + (IF to \in Busy THEN 1 ELSE 0) - (IF from \in Busy THEN 1 ELSE 0)
    BY <1>1, <1>3, <1>4, MovedCounts
  <2> QED
    BY <1>4, <2>1, <2>2 DEF Inv
<1>5. CASE TryWrite(p)
  <2>1. CASE ~cancelled /\ Moves(p, "Idle", "Counting") /\ UNCHANGED dropped
    <3>1. InvWith(holding, busy + 1)'
      BY <1>1, <1>2, <1>3, <1>5, <2>1
      DEF TryWrite, InvWith, Types, FailureFollows, Uncounted, Moves, Places, shared
    <3>2. holding + 0 - 0 = holding /\ busy + 1 - 0 = busy + 1
      BY <1>1
    <3> QED
      BY <1>4, <2>1, <3>1, <3>2 DEF Holding, Busy, Places
  <2>2. CASE cancelled /\ dropped' = dropped + 1 /\ UNCHANGED producer
    <3>1. InvWith(holding, busy)'
      BY <1>1, <1>2, <1>5, <2>2 DEF TryWrite, InvWith, Types, FailureFollows, Uncounted, shared
    <3> QED
      BY <1>1, <2>2, <3>1 DEF Inv
  <2> QED
    BY <1>5, <2>1, <2>2 DEF TryWrite
<1>6. CASE CountQueued(p)
  <2>1. InvWith(holding + 1, busy)'
    BY <1>1, <1>2, <1>3, <1>6
    DEF CountQueued, InvWith, Types, FailureFollows, Uncounted, Moves, Places, shared
  <2>2. holding + 1 - 0 = holding + 1 /\ busy + 1 - 1 = busy
    BY <1>1
  <2> QED
    BY <1>4, <1>6, <2>1, <2>2 DEF CountQueued, Holding, Busy, Places
<1>7. CASE TrySend(p)
  <2>1. InvWith(holding - 1, busy - 1)'
    BY <1>1, <1>2, <1>3, <1>7, CapacityAssumption
    DEF TrySend, InvWith, Types, FailureFollows, Uncounted, Moves, Places, shared
  <2>2. holding + 0 - 1 = holding - 1 /\ busy + 0 - 1 = busy - 1
    BY <1>1
  <2> QED
    BY <1>4, <1>7, <2>1, <2>2 DEF TrySend, Holding, Busy, Places
<1>8. CASE TrySendFails(p)
  <2>1. InvWith(holding, busy)'
    BY <1>1, <1>2, <1>3, <1>8
    DEF TrySendFails, InvWith, Types, FailureFollows, Uncounted, Moves, Places, shared, counts
  <2>2. holding + 1 - 1 = holding /\ busy + 1 - 1 = busy
    BY <1>1
  <2> QED
    BY <1>4, <1>8, <2>1, <2>2 DEF TrySendFails, Holding, Busy, Places
<1>9. CASE Reject(p)
  <2>1. /\ queued' = queued - 1 /\ dropped' = dropped + 1
        /\ UNCHANGED <<waiting, receiver, state, lastError, cancelled, calls, accepted, worker>>
        /\ producer' = [producer EXCEPT ![p] = "Idle"]
    BY <1>9 DEF Reject, Moves, shared
  <2>2. Types' /\ FailureFollows' /\ Uncounted' = Uncounted /\ Uncounted \in Int
    BY <1>2, <1>3, <2>1 DEF InvWith, Types, FailureFollows, Uncounted, Places
  <2>3. InvWith(holding - 1, busy - 1)'
    BY <1>1, <1>2, <2>1, <2>2 DEF InvWith, Types
  <2>4. holding + 0 - 1 = holding - 1 /\ busy + 0 - 1 = busy - 1
    BY <1>1
  <2> QED
    BY <1>4, <1>9, <2>3, <2>4 DEF Reject, Holding, Busy, Places
<1> QED
  BY <1>5, <1>6, <1>7, <1>8, <1>9 DEF ProducerNext

-----------------------------------------------------------------------------
THEOREM Invariant == Spec => []Inv
<1>1. Init => Inv
  <2> SUFFICES ASSUME Init PROVE Inv
    OBVIOUS
  <2>1. CallersAt(producer, Holding) = {} /\ CallersAt(producer, Busy) = {}
    BY DEF Init, CallersAt, Holding, Busy
  <2>2. Cardinality({}) = 0
    BY FS_EmptySet
  <2>3. producer \in [Producers -> Places]
    BY DEF Init, Places
  <2>4. InvWith(0, 0)
    <3>1. Types /\ FailureFollows
      <4>1. /\ waiting \in Nat /\ queued \in Int /\ dropped \in Nat
            /\ calls \in Nat /\ accepted \in Nat
        BY DEF Init
      <4>2. receiver \in BOOLEAN /\ cancelled \in BOOLEAN
        BY DEF Init
      <4>3. receiver = TRUE /\ worker # "Done" /\ worker # "Failing" /\ state # "Failed"
        BY DEF Init
      <4> QED
        BY <2>3, <4>1, <4>2, <4>3 DEF Types, FailureFollows
    <3>2. waiting = 0 /\ queued = 0 /\ calls = 0 /\ accepted = 0 /\ dropped = 0 /\ Uncounted = 0
      BY DEF Init, Uncounted
    <3> QED
      BY <3>1, <3>2, CapacityAssumption DEF InvWith
  <2> QED
    BY <2>1, <2>2, <2>4 DEF Inv
<1>2. Inv /\ [Next]_vars => Inv'
  <2> SUFFICES ASSUME Inv, [Next]_vars
               PROVE  Inv'
    OBVIOUS
  <2>1. PICK holding \in Nat, busy \in Nat :
            /\ holding = Cardinality(CallersAt(producer, Holding))
            /\ busy = Cardinality(CallersAt(producer, Busy))
    BY CallersCounted
  <2>2. InvWith(holding, busy)
    BY <2>1 DEF Inv
  <2>3. CASE WorkerNext \/ Cancel
    <3>1. InvWith(holding, busy)' /\ UNCHANGED producer
      BY <2>2, <2>3, WorkerKeepsInv
    <3> QED
      BY <2>1, <3>1 DEF Inv
  <2>4. CASE \E p \in Producers : ProducerNext(p)
    BY <2>4, ProducerKeepsInv
  <2>5. CASE UNCHANGED vars
    BY <2>5 DEF Inv, InvWith, Types, FailureFollows, Uncounted, vars, shared, counts
  <2> QED
    BY <2>3, <2>4, <2>5 DEF Next
<1> QED
  BY <1>1, <1>2, PTL DEF Spec

(* While the worker runs, queued_blocks is what the channel, the callers and
   the worker hold: the unsigned counter never wraps. *)
THEOREM QueuedBlocksExact == Spec => []QueuedExact
<1>1. Inv => QueuedExact
  <2>1. Types => Counted = CallersAt(producer, Holding)
    BY DEF Counted, CallersAt, Holding, Types
  <2> QED
    BY <2>1, CapacityAssumption DEF Inv, InvWith, Types, QueuedExact
<1> QED
  BY <1>1, Invariant, PTL

(* No call is answered twice or forgotten, whichever of the callers, the
   worker and the cancellation comes first. *)
THEOREM EveryCallAnswered == Spec => []CallsAnswered
<1>1. Inv => CallsAnswered
  <2>1. Types => {p \in Producers : producer[p] # "Idle"} = CallersAt(producer, Busy)
    BY DEF CallersAt, Busy, Types, Places
  <2> QED
    BY <2>1 DEF Inv, InvWith, CallsAnswered
<1> QED
  BY <1>1, Invariant, PTL

(* Whoever sees the Failed state finds the error that explains it. *)
THEOREM FailureHasItsError == Spec => []FailureIsExplained
<1>1. Inv => FailureIsExplained
  BY DEF Inv, InvWith, FailureFollows, FailureIsExplained
<1> QED
  BY <1>1, Invariant, PTL
=============================================================================
