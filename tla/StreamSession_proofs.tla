------------------------ MODULE StreamSession_proofs ------------------------
(* Proofs about StreamSession, for every capacity, policy, budget and transport:
   its type invariant, in-order and at-most-once delivery, exact accounting, and
   that it implements PacketDelivery.  The last part is about OutputFanOut, which
   hands packets to the replay history, the recording and the stream. *)
EXTENDS StreamSession, SessionOutputs, SequenceTheorems, FiniteSetTheorems,
        WellFoundedInduction, TLAPS

(* Take and Drop split a sequence; concatenation lays two out in a row. *)
LEMMA TakeProperties ==
    ASSUME NEW s \in Seq(Packet), NEW n \in 0..Len(s)
    PROVE  /\ Take(s, n) \in Seq(Packet)
           /\ DOMAIN Take(s, n) = 1..n
           /\ \A i \in 1..n : Take(s, n)[i] = s[i]
BY SubSeqProperties DEF Take

LEMMA DropProperties ==
    ASSUME NEW s \in Seq(Packet), NEW n \in 0..Len(s)
    PROVE  /\ Drop(s, n) \in Seq(Packet)
           /\ Len(Drop(s, n)) = Len(s) - n
           /\ DOMAIN Drop(s, n) = 1..(Len(s) - n)
           /\ \A i \in 1..(Len(s) - n) : Drop(s, n)[i] = s[n + i]
BY SubSeqProperties DEF Drop

(* An increasing stretch appended behind another one keeps the order. *)
LEMMA ConcatIncreasing ==
    ASSUME NEW s \in Seq(Packet), NEW t \in Seq(Packet),
           Increasing(s), Increasing(t), Before(s, t)
    PROVE  Increasing(s \o t)
<1> DEFINE u == s \o t
<1>1. /\ u \in Seq(Packet)
      /\ Len(u) = Len(s) + Len(t)
      /\ \A i \in 1..(Len(s) + Len(t)) :
            u[i] = IF i <= Len(s) THEN s[i] ELSE t[i - Len(s)]
  BY ConcatProperties
<1>2. /\ Len(s) \in Nat /\ DOMAIN s = 1..Len(s)
      /\ Len(t) \in Nat /\ DOMAIN t = 1..Len(t)
      /\ DOMAIN u = 1..(Len(s) + Len(t))
  BY <1>1, LenProperties
<1> HIDE DEF u
<1>3. SUFFICES ASSUME NEW i \in 1..(Len(s) + Len(t)), NEW j \in 1..(Len(s) + Len(t)), i < j
               PROVE  u[i].id < u[j].id
  BY <1>2 DEF Increasing, u
<1>4. CASE j <= Len(s)
  <2>1. i \in 1..Len(s) /\ j \in 1..Len(s) /\ u[i] = s[i] /\ u[j] = s[j]
    BY <1>1, <1>2, <1>3, <1>4
  <2> QED BY <2>1, <1>2, <1>3 DEF Increasing
<1>5. CASE i <= Len(s) /\ Len(s) < j
  <2>1. i \in 1..Len(s) /\ j - Len(s) \in 1..Len(t) /\ u[i] = s[i] /\ u[j] = t[j - Len(s)]
    BY <1>1, <1>2, <1>3, <1>5
  <2> QED BY <2>1, <1>2 DEF Before
<1>6. CASE Len(s) < i
  <2>1. /\ i - Len(s) \in 1..Len(t) /\ j - Len(s) \in 1..Len(t)
        /\ i - Len(s) < j - Len(s)
        /\ u[i] = t[i - Len(s)] /\ u[j] = t[j - Len(s)]
    BY <1>1, <1>2, <1>3, <1>6
  <2> QED BY <2>1, <1>2 DEF Increasing
<1> QED BY <1>2, <1>3, <1>4, <1>5, <1>6

LEMMA EmptyIsOrdered ==
    ASSUME NEW s
    PROVE  /\ <<>> \in Seq(Packet) /\ DOMAIN <<>> = {}
           /\ Increasing(<<>>) /\ Before(<<>>, s) /\ Before(s, <<>>)
BY DEF Increasing, Before

(* A piece of a sequence stays in order, and keeps its place before or after
   another sequence. *)
Piece(p, s) ==
    /\ p \in Seq(Packet)
    /\ \E k \in Nat : \A i \in DOMAIN p : k + i \in DOMAIN s /\ p[i] = s[k + i]

LEMMA PieceOrdered ==
    ASSUME NEW s \in Seq(Packet), NEW t \in Seq(Packet), NEW p, Piece(p, s)
    PROVE  /\ Increasing(s) => Increasing(p)
           /\ Before(s, t) => Before(p, t)
           /\ Before(t, s) => Before(t, p)
           /\ \A m \in Nat : (\A i \in DOMAIN s : s[i].id <= m)
                              => \A i \in DOMAIN p : p[i].id <= m
<1>1. PICK k \in Nat : \A i \in DOMAIN p : k + i \in DOMAIN s /\ p[i] = s[k + i]
  BY DEF Piece
<1>2. DOMAIN p \subseteq Int
  BY LenProperties DEF Piece
<1>3. Increasing(s) => Increasing(p)
  <2>1. SUFFICES ASSUME Increasing(s), NEW i \in DOMAIN p, NEW j \in DOMAIN p, i < j
                 PROVE  p[i].id < p[j].id
    BY DEF Increasing
  <2>2. k + i \in DOMAIN s /\ k + j \in DOMAIN s /\ k + i < k + j
    BY <1>1, <1>2, <2>1
  <2> QED BY <1>1, <2>1, <2>2 DEF Increasing
<1>4. Before(s, t) => Before(p, t)
  BY <1>1 DEF Before
<1>5. Before(t, s) => Before(t, p)
  BY <1>1 DEF Before
<1>6. \A m \in Nat : (\A i \in DOMAIN s : s[i].id <= m) => \A i \in DOMAIN p : p[i].id <= m
  BY <1>1
<1> QED BY <1>3, <1>4, <1>5, <1>6

LEMMA TakeDropPieces ==
    ASSUME NEW s \in Seq(Packet), NEW n \in 0..Len(s)
    PROVE  /\ Piece(Take(s, n), s)
           /\ Piece(Drop(s, n), s)
           /\ Increasing(s) => Before(Take(s, n), Drop(s, n))
<1> DEFINE first == Take(s, n)
           rest == Drop(s, n)
<1>1. /\ first \in Seq(Packet) /\ DOMAIN first = 1..n
      /\ \A i \in 1..n : first[i] = s[i]
  BY TakeProperties
<1>2. /\ rest \in Seq(Packet) /\ DOMAIN rest = 1..(Len(s) - n)
      /\ \A i \in 1..(Len(s) - n) : rest[i] = s[n + i]
  BY DropProperties
<1>3. Len(s) \in Nat /\ DOMAIN s = 1..Len(s)
  BY LenProperties
<1> HIDE DEF first, rest
<1>4. Piece(first, s)
  <2>1. \A i \in DOMAIN first : 0 + i \in DOMAIN s /\ first[i] = s[0 + i]
    BY <1>1, <1>3
  <2> QED BY <1>1, <2>1 DEF Piece
<1>5. Piece(rest, s)
  <2>1. \A i \in DOMAIN rest : n + i \in DOMAIN s /\ rest[i] = s[n + i]
    <3>1. TAKE i \in DOMAIN rest
    <3>2. i \in 1..(Len(s) - n) BY <1>2
    <3>3. n + i \in 1..Len(s) BY <1>3, <3>2
    <3> QED BY <1>2, <1>3, <3>2, <3>3
  <2> QED BY <1>2, <2>1 DEF Piece
<1>6. Increasing(s) => Before(first, rest)
  <2>1. SUFFICES ASSUME Increasing(s), NEW i \in 1..n, NEW j \in 1..(Len(s) - n)
                 PROVE  first[i].id < rest[j].id
    BY <1>1, <1>2 DEF Before
  <2>2. i \in DOMAIN s /\ n + j \in DOMAIN s /\ i < n + j
    BY <1>3
  <2>3. s[i].id < s[n + j].id
    BY <2>1, <2>2 DEF Increasing
  <2> QED BY <1>1, <1>2, <2>3
<1> QED BY <1>4, <1>5, <1>6 DEF first, rest

(* What the steps of the session do to the three stretches. *)

LEMMA ConcatElements ==
    ASSUME NEW s \in Seq(Packet), NEW t \in Seq(Packet), NEW i \in DOMAIN (s \o t)
    PROVE  \/ \E j \in DOMAIN s : (s \o t)[i] = s[j]
           \/ \E j \in DOMAIN t : (s \o t)[i] = t[j]
<1>1. /\ s \o t \in Seq(Packet)
      /\ Len(s \o t) = Len(s) + Len(t)
      /\ \A k \in 1..(Len(s) + Len(t)) :
            (s \o t)[k] = IF k <= Len(s) THEN s[k] ELSE t[k - Len(s)]
  BY ConcatProperties
<1>2. /\ Len(s) \in Nat /\ DOMAIN s = 1..Len(s)
      /\ Len(t) \in Nat /\ DOMAIN t = 1..Len(t)
      /\ DOMAIN (s \o t) = 1..(Len(s) + Len(t))
  BY <1>1, LenProperties
<1>3. CASE i <= Len(s)
  BY <1>1, <1>2, <1>3
<1>4. CASE Len(s) < i
  <2>1. i - Len(s) \in DOMAIN t /\ (s \o t)[i] = t[i - Len(s)]
    BY <1>1, <1>2, <1>4
  <2> QED BY <2>1
<1> QED BY <1>2, <1>3, <1>4

(* Losing parts of the buffer and of the queue. *)
LEMMA ConsecutivePieces ==
    ASSUME NEW w \in Seq(Packet), NEW b \in Seq(Packet), NEW q \in Seq(Packet), NEW m \in Nat,
           Consecutive(w, b, q, m), NEW c, Piece(c, b), NEW r, Piece(r, q)
    PROVE  Consecutive(w, c, r, m)
<1>1. c \in Seq(Packet) /\ r \in Seq(Packet)
  BY DEF Piece
<1>2. Increasing(c) /\ Increasing(r) /\ Before(w, c) /\ Before(w, r)
  BY PieceOrdered DEF Consecutive
<1>3. Before(c, q)
  BY PieceOrdered DEF Consecutive
<1>4. Before(c, r)
  BY <1>1, <1>3, PieceOrdered
<1>5. \A i \in DOMAIN c : c[i].id <= m
  BY PieceOrdered DEF Consecutive
<1>6. \A i \in DOMAIN r : r[i].id <= m
  BY PieceOrdered DEF Consecutive
<1> QED BY <1>2, <1>4, <1>5, <1>6 DEF Consecutive

(* Writing the head of the buffer to the network. *)
LEMMA ConsecutiveShift ==
    ASSUME NEW w \in Seq(Packet), NEW b \in Seq(Packet), NEW q \in Seq(Packet), NEW m \in Nat,
           Consecutive(w, b, q, m), NEW n \in 0..Len(b)
    PROVE  Consecutive(w \o Take(b, n), Drop(b, n), q, m)
<1> DEFINE h == Take(b, n)
           t == Drop(b, n)
<1>1. Piece(h, b) /\ Piece(t, b) /\ Before(h, t)
  BY TakeDropPieces DEF Consecutive
<1> HIDE DEF h, t
<1>2. h \in Seq(Packet) /\ t \in Seq(Packet)
  BY <1>1 DEF Piece
<1>3. /\ Increasing(h) /\ Increasing(t)
      /\ Before(w, h) /\ Before(w, t) /\ Before(h, q) /\ Before(t, q)
  BY <1>1, PieceOrdered DEF Consecutive
<1>4. /\ \A i \in DOMAIN h : h[i].id <= m
      /\ \A i \in DOMAIN t : t[i].id <= m
  BY <1>1, PieceOrdered DEF Consecutive
<1>5. Increasing(w \o h)
  BY <1>2, <1>3, ConcatIncreasing DEF Consecutive
<1>6. Before(w \o h, t) /\ Before(w \o h, q)
  <2>1. ASSUME NEW s, Before(w, s), Before(h, s) PROVE Before(w \o h, s)
    BY <1>2, <2>1, ConcatElements DEF Before
  <2> QED
    BY <1>1, <1>3, <2>1 DEF Consecutive
<1>7. \A i \in DOMAIN (w \o h) : (w \o h)[i].id <= m
  BY <1>2, <1>4, ConcatElements DEF Consecutive
<1>8. Consecutive(w \o h, t, q, m)
  BY <1>3, <1>4, <1>5, <1>6, <1>7 DEF Consecutive
<1> QED BY <1>8 DEF h, t

(* Taking the head of the queue into an empty buffer. *)
LEMMA ConsecutiveSplit ==
    ASSUME NEW w \in Seq(Packet), NEW q \in Seq(Packet), NEW m \in Nat,
           Consecutive(w, <<>>, q, m), NEW k \in 0..Len(q)
    PROVE  Consecutive(w, Take(q, k), Drop(q, k), m)
<1> DEFINE h == Take(q, k)
           t == Drop(q, k)
<1>1. Piece(h, q) /\ Piece(t, q) /\ Before(h, t)
  BY TakeDropPieces DEF Consecutive
<1> HIDE DEF h, t
<1>2. /\ Increasing(h) /\ Increasing(t) /\ Before(w, h) /\ Before(w, t)
  BY <1>1, PieceOrdered DEF Consecutive
<1>3. /\ \A i \in DOMAIN h : h[i].id <= m
      /\ \A i \in DOMAIN t : t[i].id <= m
  BY <1>1, PieceOrdered DEF Consecutive
<1>4. Consecutive(w, h, t, m)
  BY <1>1, <1>2, <1>3 DEF Consecutive
<1> QED BY <1>4 DEF h, t

(* Queueing the next packet. *)
LEMMA ConsecutiveAppend ==
    ASSUME NEW w \in Seq(Packet), NEW b \in Seq(Packet), NEW q \in Seq(Packet), NEW m \in Nat,
           Consecutive(w, b, q, m), NEW p \in Packet, p.id = m + 1
    PROVE  Consecutive(w, b, Append(q, p), m + 1)
<1> DEFINE r == Append(q, p)
<1>1. /\ r \in Seq(Packet) /\ Len(r) = Len(q) + 1
      /\ \A i \in 1..Len(q) : r[i] = q[i]
      /\ r[Len(q) + 1] = p
  BY AppendProperties
<1>2. Len(q) \in Nat /\ DOMAIN q = 1..Len(q) /\ DOMAIN r = 1..(Len(q) + 1)
  BY <1>1, LenProperties
<1> HIDE DEF r
<1>3. \A s \in {w, b, q} : \A i \in DOMAIN s : s[i].id \in Nat /\ s[i].id <= m /\ s[i].id < p.id
  <2>1. ASSUME NEW s \in Seq(Packet), NEW i \in DOMAIN s
        PROVE  s[i].id \in Nat
    <3>1. s[i] \in Packet BY LenProperties
    <3> QED BY <3>1 DEF Packet
  <2>2. \A s \in {w, b, q} : \A i \in DOMAIN s : s[i].id <= m
    BY DEF Consecutive
  <2> QED BY <2>1, <2>2
<1>4. \A i \in DOMAIN r : (i \in DOMAIN q /\ r[i] = q[i]) \/ (i = Len(q) + 1 /\ r[i] = p)
  BY <1>1, <1>2
<1>5. Increasing(r)
  <2>1. SUFFICES ASSUME NEW i \in DOMAIN r, NEW j \in DOMAIN r, i < j
                 PROVE  r[i].id < r[j].id
    BY DEF Increasing
  <2>2. i \in DOMAIN q /\ r[i] = q[i]
    BY <1>1, <1>2, <2>1
  <2>3. CASE j \in DOMAIN q /\ r[j] = q[j]
    BY <2>1, <2>2, <2>3 DEF Consecutive, Increasing
  <2>4. CASE r[j] = p
    BY <1>3, <2>2, <2>4
  <2> QED BY <1>4, <2>3, <2>4
<1>6. Before(w, r) /\ Before(b, r)
  BY <1>3, <1>4 DEF Before, Consecutive
<1>7. \A s \in {w, b, r} : \A i \in DOMAIN s : s[i].id <= m + 1
  <2>1. ASSUME NEW s \in {w, b, q}, NEW i \in DOMAIN s PROVE s[i].id <= m + 1
    BY <1>3
  <2>2. ASSUME NEW i \in DOMAIN r PROVE r[i].id <= m + 1
    BY <1>4, <2>1
  <2> QED BY <2>1, <2>2
<1>8. Consecutive(w, b, r, m + 1)
  BY <1>5, <1>6, <1>7 DEF Consecutive
<1> QED BY <1>8 DEF r

-----------------------------------------------------------------------------

IInv == TypeOK /\ InOrderInv

LEMMA InitIInv == Init => IInv
<1> SUFFICES ASSUME Init PROVE IInv
  OBVIOUS
<1>1. TypeOK
  <2>1. queue.packets = <<>> BY DEF Init, EmptyQueue
  <2>2. metrics \in Metrics BY DEF Init, Metrics
  <2>3. <<>> \in Seq(Packet) BY EmptySeq
  <2> QED BY <2>1, <2>2, <2>3 DEF Init, TypeOK, StreamStates
<1>2. Consecutive(<<>>, <<>>, <<>>, 0)
  BY EmptyIsOrdered DEF Consecutive
<1>3. InOrderInv
  BY <1>2 DEF Init, EmptyQueue, InOrderInv
<1> QED BY <1>1, <1>3 DEF IInv

LEMMA EmptyPiece ==
    ASSUME NEW s \in Seq(Packet)
    PROVE  Piece(<<>>, s)
BY DEF Piece

LEMMA DelayIsNat == \A a : DelayForAttempt(a) \in Nat
BY PolicyAssumption DEF DelayForAttempt

(* Dropping the transport's buffer, after a last write, leaves the stretches in
   order whatever the queue keeps. *)
LEMMA DropStreamInOrder ==
    ASSUME IInv, DropStream, NEW q, Piece(q, queue.packets)
    PROVE  /\ wire' \in Seq(Packet) /\ inBuffer' = <<>>
           /\ Consecutive(wire', inBuffer', q, nextId)
<1> USE DEF IInv, TypeOK, InOrderInv
<1>1. PICK n \in 0..Len(inBuffer) : wire' = wire \o Take(inBuffer, n)
  BY DEF DropStream
<1>2. Consecutive(wire', Drop(inBuffer, n), queue.packets, nextId)
  BY <1>1, ConsecutiveShift
<1>3. Take(inBuffer, n) \in Seq(Packet) /\ Drop(inBuffer, n) \in Seq(Packet)
  BY TakeProperties, DropProperties
<1>4. wire' \in Seq(Packet)
  BY <1>1, <1>3, ConcatProperties
<1>5. Piece(<<>>, Drop(inBuffer, n))
  BY <1>3, EmptyPiece
<1>6. Consecutive(wire', <<>>, q, nextId)
  BY <1>2, <1>3, <1>4, <1>5, ConsecutivePieces
<1> QED BY <1>4, <1>6 DEF DropStream

LEMMA WholeIsPiece ==
    ASSUME NEW s \in Seq(Packet)
    PROVE  Piece(s, s)
<1>1. \A i \in DOMAIN s : 0 + i = i
  BY LenProperties
<1> QED BY <1>1 DEF Piece

LEMMA CountsAreNat ==
    ASSUME metrics \in Metrics,
           NEW a \in Nat, NEW b \in Nat, NEW c \in Nat, NEW d \in Nat, Count(a, b, c, d)
    PROVE  metrics' \in Metrics
BY DEF Metrics, Count

LEMMA ConnectStep == IInv /\ Connect /\ UNCHANGED setup => IInv'
<1> SUFFICES ASSUME IInv, Connect, UNCHANGED setup PROVE IInv'
  OBVIOUS
<1> USE DEF IInv, TypeOK, InOrderInv, Connect, StreamStates
<1>1. CASE TransportConnects /\ state' = "Connected" /\ wait' = 0
  <2>1. /\ wire' \in Seq(Packet) /\ inBuffer' = <<>>
        /\ Consecutive(wire', inBuffer', queue.packets, nextId)
    BY <1>1, WholeIsPiece, DropStreamInOrder DEF TransportConnects
  <2> QED BY <1>1, <2>1 DEF TransportConnects
<1>2. CASE TransportRefuses /\ UNCHANGED <<state, wait>>
  BY <1>2 DEF TransportRefuses, transportVars
<1> QED BY <1>1, <1>2

LEMMA SubmitStep == ASSUME NEW size \in Sizes PROVE IInv /\ Submit(size) /\ UNCHANGED setup => IInv'
<1> SUFFICES ASSUME IInv, Submit(size), UNCHANGED setup PROVE IInv'
  OBVIOUS
<1> DEFINE p == [id |-> nextId + 1, bytes |-> size]
<1> USE DEF IInv, TypeOK, InOrderInv, StreamStates
<1>1. p \in Packet /\ p.id = nextId + 1
  BY SizesAssumption DEF Packet
<1>2. /\ nextId' = nextId + 1
      /\ UNCHANGED <<state, attempts, wait, socket, inBuffer, wire>>
  BY DEF Submit, transportVars
<1>3. CASE queue' = Enqueue(queue, p) /\ Count(1, 0, 0, 0)
           /\ UNCHANGED discarded
  <2>1. queue'.packets = Append(queue.packets, p)
    BY <1>3 DEF Enqueue
  <2>2. Consecutive(wire, inBuffer, Append(queue.packets, p), nextId + 1)
    BY <1>1, ConsecutiveAppend
  <2>3. metrics' \in Metrics
    BY <1>3, CountsAreNat
  <2>4. queue'.packets \in Seq(Packet)
    BY <1>1, <2>1, AppendProperties
  <2>5. discarded' \subseteq Nat
    BY <1>3
  <2> QED BY <1>2, <2>1, <2>2, <2>3, <2>4, <2>5
<1>4. CASE Count(1, 1, 0, 0)
           /\ discarded' = discarded \union {p.id} /\ UNCHANGED queue
  <2>1. \A s \in {wire, inBuffer, queue.packets} : \A i \in DOMAIN s : s[i].id <= nextId + 1
    <3>1. ASSUME NEW s \in Seq(Packet), NEW i \in DOMAIN s, s[i].id <= nextId
          PROVE  s[i].id <= nextId + 1
      <4>1. s[i] \in Packet BY LenProperties
      <4> QED BY <3>1, <4>1 DEF Packet
    <3> QED BY <3>1 DEF Consecutive
  <2>2. Consecutive(wire, inBuffer, queue.packets, nextId + 1)
    BY <2>1 DEF Consecutive
  <2>3. metrics' \in Metrics
    BY <1>4, CountsAreNat
  <2> QED BY <1>1, <1>2, <1>4, <2>2, <2>3
<1>5. ASSUME NEW n \in 0..Len(queue.packets),
             queue' = Enqueue(PopOldest(queue, n), p),
             Count(1, n, 0, 0),
             discarded' = discarded \union Ids(Take(queue.packets, n))
      PROVE  IInv'
  <2>1. queue'.packets = Append(Drop(queue.packets, n), p)
    BY <1>5 DEF Enqueue, PopOldest
  <2>2. Piece(Drop(queue.packets, n), queue.packets) /\ Drop(queue.packets, n) \in Seq(Packet)
    BY TakeDropPieces DEF Piece
  <2>3. Consecutive(wire, inBuffer, Drop(queue.packets, n), nextId)
    BY <2>2, WholeIsPiece, ConsecutivePieces
  <2>4. Consecutive(wire, inBuffer, Append(Drop(queue.packets, n), p), nextId + 1)
    BY <1>1, <2>2, <2>3, ConsecutiveAppend
  <2>5. Ids(Take(queue.packets, n)) \subseteq Nat
    <3>1. Take(queue.packets, n) \in Seq(Packet)
      BY TakeProperties
    <3>2. \A i \in DOMAIN Take(queue.packets, n) : Take(queue.packets, n)[i] \in Packet
      BY <3>1, LenProperties
    <3> QED BY <3>2 DEF Ids, Packet
  <2>6. n \in Nat
    BY LenProperties
  <2>7. metrics' \in Metrics
    BY <1>5, <2>6, CountsAreNat
  <2>8. queue'.packets \in Seq(Packet)
    BY <1>1, <2>1, <2>2, AppendProperties
  <2>9. discarded' \subseteq Nat
    BY <1>5, <2>5
  <2> QED BY <1>2, <2>1, <2>4, <2>7, <2>8, <2>9
<1> QED BY <1>3, <1>4, <1>5 DEF Submit

LEMMA FlushDeliversStep == IInv /\ FlushDelivers /\ UNCHANGED setup => IInv'
<1> SUFFICES ASSUME IInv, FlushDelivers, UNCHANGED setup PROVE IInv'
  OBVIOUS
<1> USE DEF IInv, TypeOK, InOrderInv, StreamStates
<1> DEFINE q == queue.packets
<1>1. /\ wire' = wire \o q /\ queue'.packets = <<>> /\ inBuffer' = inBuffer
      /\ inBuffer = <<>> /\ Count(0, 0, Len(q), 0)
      /\ UNCHANGED <<state, attempts, wait, socket, nextId, discarded>>
  BY DEF FlushDelivers, SendsAll, EmptyQueue
<1>2. wire \o q \in Seq(Packet) /\ Len(q) \in Nat /\ <<>> \in Seq(Packet)
  BY ConcatProperties, LenProperties, EmptySeq
<1>3. Consecutive(wire \o q, <<>>, <<>>, nextId)
  <2>1. Increasing(wire \o q)
    BY ConcatIncreasing DEF Consecutive
  <2>2. \A i \in DOMAIN (wire \o q) : (wire \o q)[i].id <= nextId
    BY ConcatElements DEF Consecutive
  <2> QED BY <2>1, <2>2, EmptyIsOrdered DEF Consecutive
<1>4. metrics' \in Metrics
  BY <1>1, <1>2, CountsAreNat
<1> QED BY <1>1, <1>2, <1>3, <1>4

(* A failed flush: k packets of the batch were counted, w of them written; the
   others wait in the buffer, or there is none, and the tail is queued again. *)
LEMMA FlushFailsInOrder ==
    ASSUME NEW w \in Seq(Packet), NEW q \in Seq(Packet), NEW m \in Nat,
           Consecutive(w, <<>>, q, m),
           NEW k \in 0..Len(q), NEW n \in 0..Len(Take(q, k)),
           NEW lost \in 0..Len(Drop(q, k))
    PROVE  Consecutive(w \o Take(Take(q, k), n), Drop(Take(q, k), n),
                       Drop(Drop(q, k), lost), m)
<1> DEFINE h == Take(q, k)
           t == Drop(q, k)
<1>1. h \in Seq(Packet) /\ t \in Seq(Packet)
  BY TakeProperties, DropProperties
<1>2. Consecutive(w, h, t, m)
  BY ConsecutiveSplit
<1> HIDE DEF h, t
<1>3. Consecutive(w \o Take(h, n), Drop(h, n), t, m)
  BY <1>1, <1>2, ConsecutiveShift DEF h
<1>4. Take(h, n) \in Seq(Packet) /\ Drop(h, n) \in Seq(Packet)
  BY <1>1, TakeProperties, DropProperties DEF h
<1>5. w \o Take(h, n) \in Seq(Packet)
  BY <1>4, ConcatProperties
<1>6. Piece(Drop(h, n), Drop(h, n)) /\ Piece(Drop(t, lost), t)
  BY <1>1, <1>4, WholeIsPiece, TakeDropPieces DEF t
<1>7. Consecutive(w \o Take(h, n), Drop(h, n), Drop(t, lost), m)
  BY <1>1, <1>3, <1>4, <1>5, <1>6, ConsecutivePieces
<1> QED BY <1>7 DEF h, t

(* The network and the buffer after a failed flush, whichever way the transport
   failed, are still consecutive with what is queued again. *)
LEMMA SendFailsInOrder ==
    ASSUME IInv, state = "Connected",
           NEW k \in 0..Len(queue.packets), SendFails(queue.packets, k),
           NEW lost \in 0..Len(Drop(queue.packets, k))
    PROVE  /\ wire' \in Seq(Packet) /\ inBuffer' \in Seq(Packet)
           /\ Consecutive(wire', inBuffer', Drop(Drop(queue.packets, k), lost), nextId)
<1> DEFINE q == queue.packets
           h == Take(q, k)
           t == Drop(q, k)
<1> USE DEF IInv, TypeOK, InOrderInv
<1>1. h \in Seq(Packet) /\ t \in Seq(Packet) /\ inBuffer = <<>>
  BY TakeProperties, DropProperties
<1>2. Consecutive(wire, h, t, nextId)
  BY <1>1, ConsecutiveSplit
<1>3. Piece(<<>>, h) /\ Piece(Drop(t, lost), t) /\ Drop(t, lost) \in Seq(Packet)
  BY <1>1, EmptyPiece, TakeDropPieces DEF Piece
<1>4. CASE ~socket
  <2>1. wire' = wire /\ inBuffer' = <<>>
    BY <1>1, <1>4 DEF SendFails
  <2>2. Consecutive(wire, <<>>, Drop(t, lost), nextId)
    BY <1>1, <1>2, <1>3, ConsecutivePieces
  <2> QED BY <2>1, <2>2
<1>5. CASE socket /\ Buffered
  <2>1. PICK n \in 0..k : /\ wire' = wire \o Take(Take(q, k), n)
                          /\ inBuffer' = Drop(Take(q, k), n)
    BY <1>5 DEF SendFails
  <2>2. n \in 0..Len(h)
    BY TakeProperties, <1>1, LenProperties
  <2>3. Take(h, n) \in Seq(Packet) /\ Drop(h, n) \in Seq(Packet)
    BY <1>1, <2>2, TakeProperties, DropProperties
  <2>4. wire' \in Seq(Packet)
    BY <2>1, <2>3, ConcatProperties
  <2>5. Consecutive(wire \o Take(h, n), Drop(h, n), Drop(t, lost), nextId)
    BY <1>1, <2>2, FlushFailsInOrder
  <2> QED BY <2>1, <2>3, <2>4, <2>5
<1>6. CASE socket /\ ~Buffered
  <2>1. wire' = wire \o h /\ inBuffer' = <<>>
    BY <1>1, <1>6 DEF SendFails
  <2>2. wire' \in Seq(Packet)
    BY <1>1, <2>1, ConcatProperties
  <2>3. Len(h) \in 0..Len(h) /\ Take(h, Len(h)) = h
    BY <1>1, LenProperties, SubSeqFull DEF Take
  <2>4. Consecutive(wire \o h, Drop(h, Len(h)), t, nextId)
    BY <1>1, <1>2, <2>3, ConsecutiveShift
  <2>5. Drop(h, Len(h)) \in Seq(Packet)
    BY <1>1, <2>3, DropProperties
  <2>6. Consecutive(wire \o h, <<>>, Drop(t, lost), nextId)
    BY <1>1, <1>3, <2>1, <2>2, <2>4, <2>5, EmptyPiece, ConsecutivePieces
  <2> QED BY <2>1, <2>2, <2>6
<1> QED BY <1>4, <1>5, <1>6

LEMMA IdsAreNat ==
    ASSUME NEW s \in Seq(Packet)
    PROVE  Ids(s) \subseteq Nat
<1>1. \A i \in DOMAIN s : s[i] \in Packet
  BY LenProperties
<1> QED BY <1>1 DEF Ids, Packet

LEMMA FlushFailsStep == IInv /\ FlushFails /\ UNCHANGED setup => IInv'
<1> SUFFICES ASSUME IInv, FlushFails, UNCHANGED setup PROVE IInv'
  OBVIOUS
<1> DEFINE q == queue.packets
<1>1. PICK k \in 0..Len(q) :
        /\ SendFails(q, k)
        /\ Count(0, 0, k, 0)
        /\ \E lost \in 0..Len(Drop(q, k)) :
             /\ queue' = Requeued(Drop(q, k), lost)
             /\ discarded' = discarded \union Ids(Take(Drop(q, k), lost))
             /\ wait' = IF lost = 0 THEN DelayForAttempt(attempts) ELSE wait
  BY DEF FlushFails
<1>2. PICK lost \in 0..Len(Drop(q, k)) :
        /\ queue'.packets = Drop(Drop(q, k), lost)
        /\ discarded' = discarded \union Ids(Take(Drop(q, k), lost))
        /\ wait' \in {DelayForAttempt(attempts), wait}
  BY <1>1 DEF Requeued
<1>3. state = "Connected" /\ state' = "Disconnected" /\ UNCHANGED <<attempts, nextId>>
  BY DEF FlushFails
<1>4. /\ wire' \in Seq(Packet) /\ inBuffer' \in Seq(Packet)
      /\ Consecutive(wire', inBuffer', Drop(Drop(q, k), lost), nextId)
  BY <1>1, <1>3, SendFailsInOrder
<1>5. Drop(q, k) \in Seq(Packet) /\ q \in Seq(Packet)
  BY DropProperties DEF IInv, TypeOK
<1>6. Drop(Drop(q, k), lost) \in Seq(Packet) /\ Take(Drop(q, k), lost) \in Seq(Packet)
  BY <1>5, DropProperties, TakeProperties
<1>7. discarded' \subseteq Nat
  BY <1>2, <1>6, IdsAreNat DEF IInv, TypeOK
<1>8. metrics' \in Metrics
  <2>1. k \in Nat BY <1>5, LenProperties
  <2> QED BY <1>1, <2>1, CountsAreNat DEF IInv, TypeOK
<1>9. wait' \in Nat
  BY <1>2, DelayIsNat DEF IInv, TypeOK
<1>10. socket' \in BOOLEAN
  BY <1>1 DEF SendFails, IInv, TypeOK
<1>11. TypeOK'
  BY <1>2, <1>3, <1>4, <1>6, <1>7, <1>8, <1>9, <1>10 DEF IInv, TypeOK, StreamStates
<1>12. InOrderInv'
  BY <1>2, <1>3, <1>4 DEF InOrderInv
<1> QED BY <1>11, <1>12 DEF IInv

LEMMA ReconnectStep == IInv /\ Reconnect /\ UNCHANGED setup => IInv'
<1> SUFFICES ASSUME IInv, Reconnect, UNCHANGED setup PROVE IInv'
  OBVIOUS
<1> USE DEF IInv, TypeOK, InOrderInv, StreamStates
<1>1. CASE ReconnectExhausted
  BY <1>1 DEF ReconnectExhausted, transportVars
<1>2. CASE ReconnectAttempt
  <2>1. attempts' \in Nat /\ UNCHANGED <<queue, nextId, discarded>>
    BY <1>2 DEF ReconnectAttempt
  <2>2. CASE TransportConnects /\ state' = "Connected" /\ wait' = 0 /\ Count(0, 0, 0, 1)
    <3>1. /\ wire' \in Seq(Packet) /\ inBuffer' = <<>>
          /\ Consecutive(wire', inBuffer', queue.packets, nextId)
      BY <2>2, WholeIsPiece, DropStreamInOrder DEF TransportConnects
    <3>2. metrics' \in Metrics
      BY <2>2, CountsAreNat
    <3> QED BY <2>1, <2>2, <3>1, <3>2, EmptySeq DEF TransportConnects
  <2>3. CASE /\ TransportRefuses
             /\ wait' = DelayForAttempt(attempts')
             /\ state' = IF attempts' >= MaxAttempts THEN "Failed" ELSE state
             /\ UNCHANGED metrics
    BY <2>1, <2>3, DelayIsNat DEF TransportRefuses, transportVars
  <2> QED BY <1>2, <2>2, <2>3 DEF ReconnectAttempt
<1> QED BY <1>1, <1>2 DEF Reconnect

LEMMA DisconnectStep == IInv /\ Disconnect /\ UNCHANGED setup => IInv'
<1> SUFFICES ASSUME IInv, Disconnect, UNCHANGED setup PROVE IInv'
  OBVIOUS
<1> USE DEF IInv, TypeOK, InOrderInv, StreamStates, Disconnect
<1>1. /\ wire' \in Seq(Packet) /\ inBuffer' = <<>>
      /\ Consecutive(wire', inBuffer', queue.packets, nextId)
  BY WholeIsPiece, DropStreamInOrder DEF TransportDisconnects
<1> QED BY <1>1, EmptySeq, DelayIsNat DEF TransportDisconnects

LEMMA CloseStep == IInv /\ Close /\ UNCHANGED setup => IInv'
<1> SUFFICES ASSUME IInv, Close, UNCHANGED setup PROVE IInv'
  OBVIOUS
<1> USE DEF IInv, TypeOK, InOrderInv, StreamStates, Close
<1>1. /\ wire' \in Seq(Packet) /\ inBuffer' = <<>>
      /\ Consecutive(wire', inBuffer', <<>>, nextId)
  BY EmptyPiece, DropStreamInOrder DEF TransportDisconnects
<1>2. Ids(queue.packets) \subseteq Nat
  BY IdsAreNat
<1> QED BY <1>1, <1>2, EmptySeq DEF TransportDisconnects, EmptyQueue

LEMMA TickStep == IInv /\ Tick /\ UNCHANGED setup => IInv'
BY DEF IInv, TypeOK, InOrderInv, Tick, transportVars, StreamStates

-----------------------------------------------------------------------------

LEMMA NextIInv == IInv /\ [Next]_vars => IInv'
<1> SUFFICES ASSUME IInv, [Next]_vars PROVE IInv'
  OBVIOUS
<1>1. CASE Next
  BY <1>1, ConnectStep, FlushDeliversStep, FlushFailsStep, ReconnectStep, DisconnectStep,
     CloseStep, TickStep, SubmitStep DEF Next, Step, Flush
<1>2. CASE UNCHANGED vars
  BY <1>2 DEF IInv, TypeOK, InOrderInv, vars, sessionVars, transportVars
<1> QED BY <1>1, <1>2

(* Every variable keeps its type in every session, whatever the capacity, the
   packet sizes, the drop policy, the reconnect budget and the transport. *)
THEOREM TypeCorrect == Spec => []TypeOK
<1>1. IInv => TypeOK
  BY DEF IInv
<1> QED BY <1>1, InitIInv, NextIInv, PTL DEF Spec

(* The network, the transport's buffer and the queue stay consecutive stretches
   of the submission order. *)
THEOREM StretchesInOrder == Spec => []InOrderInv
<1>1. IInv => InOrderInv
  BY DEF IInv
<1> QED BY <1>1, InitIInv, NextIInv, PTL DEF Spec

(* StreamSession::flush hands packets to the transport in submission order and
   none twice, over any number of failures, re-queues and reconnects. *)
THEOREM DeliveryInOrder == Spec => []InOrderDelivery
<1>1. IInv => InOrderDelivery
  BY DEF IInv, InOrderInv, Consecutive, InOrderDelivery
<1> QED BY <1>1, InitIInv, NextIInv, PTL DEF Spec

-----------------------------------------------------------------------------
(* The reconnect budget. *)

LEMMA InitBudget == Init => ReconnectBudget
BY PolicyAssumption DEF Init, ReconnectBudget

(* Only an attempt is counted and only an attempt succeeds; a session fails when
   the last is spent. *)
LEMMA ReconnectSpends ==
    ASSUME IInv, ReconnectBudget, Reconnect
    PROVE  ReconnectBudget'
<1>1. attempts \in Nat /\ metrics.reconnects \in Nat
  BY DEF IInv, TypeOK, Metrics
<1>2. CASE ReconnectExhausted
  BY <1>1, <1>2, PolicyAssumption DEF ReconnectExhausted, ReconnectBudget
<1>3. CASE ReconnectAttempt
  <2>1. attempts' = attempts + 1 /\ attempts' <= MaxAttempts
    BY <1>1, <1>3, PolicyAssumption DEF ReconnectAttempt
  <2>2. metrics'.reconnects \in {metrics.reconnects, metrics.reconnects + 1}
    BY <1>3 DEF ReconnectAttempt, Count
  <2>3. state' = "Failed" => attempts' >= MaxAttempts
    BY <1>3 DEF ReconnectAttempt, Connectable
  <2> QED BY <1>1, <2>1, <2>2, <2>3, PolicyAssumption DEF ReconnectBudget
<1> QED BY <1>2, <1>3 DEF Reconnect

LEMMA OthersSpendNothing ==
    ASSUME IInv, ReconnectBudget, [Next]_vars, ~Reconnect
    PROVE  ReconnectBudget'
<1>1. metrics.reconnects \in Nat
  BY DEF IInv, TypeOK, Metrics
<1>2. attempts' = attempts /\ (state' = "Failed" => state = "Failed")
  BY DEF Next, Step, Connect, Flush, FlushDelivers, FlushFails, Disconnect, Close, Tick,
     Submit, vars, sessionVars
<1>3. \A s, d, c : Count(s, d, c, 0) => metrics'.reconnects = metrics.reconnects
  BY <1>1 DEF Count
<1>4. CASE Flush \/ \E size \in Sizes : Submit(size)
  BY <1>2, <1>3, <1>4 DEF Flush, FlushDelivers, FlushFails, Submit, ReconnectBudget
<1>5. CASE Connect \/ Disconnect \/ Close \/ Tick \/ UNCHANGED vars
  BY <1>2, <1>5 DEF Connect, Disconnect, Close, Tick, vars, ReconnectBudget
<1> QED BY <1>4, <1>5 DEF Next, Step

(* However often a session fails, is connected or disconnected by hand, and
   reconnects, it attempts no more reconnects than its policy allows, and it
   fails only when it has: ReconnectBudget. *)
THEOREM BudgetIsKept == Spec => []ReconnectBudget
<1>1. IInv /\ ReconnectBudget /\ [Next]_vars => ReconnectBudget'
  BY ReconnectSpends, OthersSpendNothing
<1> QED BY <1>1, InitBudget, InitIInv, NextIInv, PTL DEF Spec

(* The outcomes the engine reckons with are those of a session. *)
LEMMA ReconnectIsSeen ==
    ASSUME IInv, Reconnect
    PROVE  \E r \in Seen!Reconnects(connection) :
               /\ connection' = r[1]
               /\ r[2] = "Reconnected" <=> metrics'.reconnects = metrics.reconnects + 1
<1>1. attempts \in Nat /\ metrics.reconnects \in Nat /\ state # "Failed"
  BY DEF IInv, TypeOK, Metrics, Reconnect, ReconnectExhausted, ReconnectAttempt, Connectable
<1>2. /\ connection.state = state /\ connection.attempts = attempts
      /\ connection' = [state |-> state', attempts |-> attempts']
  BY DEF connection
<1>3. CASE ReconnectExhausted
  <2>1. attempts >= MaxAttempts /\ metrics' = metrics
    BY <1>3 DEF ReconnectExhausted
  <2>2. connection' = [connection EXCEPT !.state = "Failed"]
    BY <1>3 DEF ReconnectExhausted, connection
  <2>3. <<connection', "Error">> \in Seen!Reconnects(connection)
    BY <1>1, <1>2, <2>1, <2>2 DEF Seen!Reconnects
  <2> QED BY <1>1, <2>1, <2>3
<1>4. CASE ReconnectAttempt
  <2>1. /\ ~(attempts >= MaxAttempts)
        /\ attempts' = attempts + 1
    BY <1>1, <1>4, PolicyAssumption DEF ReconnectAttempt
  <2>2. CASE state' = "Connected" /\ Count(0, 0, 0, 1)
    <3>1. <<connection', "Reconnected">> \in Seen!Reconnects(connection)
      BY <1>1, <1>2, <2>1, <2>2 DEF Seen!Reconnects
    <3>2. metrics'.reconnects = metrics.reconnects + 1
      BY <2>2 DEF Count
    <3> QED BY <3>1, <3>2
  <2>3. CASE /\ state' = IF attempts' >= MaxAttempts THEN "Failed" ELSE state
             /\ UNCHANGED metrics
    <3>1. <<connection', "Error">> \in Seen!Reconnects(connection)
      BY <1>1, <1>2, <2>1, <2>3 DEF Seen!Reconnects
    <3> QED BY <1>1, <2>3, <3>1
  <2> QED BY <1>4, <2>2, <2>3 DEF ReconnectAttempt
<1> QED BY <1>3, <1>4 DEF Reconnect

(* A flush keeps the connection or loses it, a reconnect ends as the engine
   reckons, and nothing else it calls touches the connection:
   EngineSeesConnection. *)
THEOREM ConnectionIsAsSeen == Spec => EngineSeesConnection
<1>1. IInv /\ [Next]_vars =>
        [/\ Flush => connection' \in {connection, Seen!Lost(connection)}
         /\ Reconnect => \E r \in Seen!Reconnects(connection) :
               /\ connection' = r[1]
               /\ r[2] = "Reconnected" <=> metrics'.reconnects = metrics.reconnects + 1
         /\ Connect \/ Flush \/ Reconnect \/ Disconnect \/ Close \/ UNCHANGED connection]_vars
  <2> SUFFICES ASSUME IInv, Next
               PROVE  /\ Flush => connection' \in {connection, Seen!Lost(connection)}
                      /\ Reconnect => \E r \in Seen!Reconnects(connection) :
                            /\ connection' = r[1]
                            /\ r[2] = "Reconnected"
                                 <=> metrics'.reconnects = metrics.reconnects + 1
                      /\ Connect \/ Flush \/ Reconnect \/ Disconnect \/ Close
                           \/ UNCHANGED connection
    OBVIOUS
  <2>1. Flush => connection' \in {connection, Seen!Lost(connection)}
    BY DEF Flush, FlushDelivers, FlushFails, connection, Seen!Lost
  <2>2. Tick \/ (\E size \in Sizes : Submit(size)) => UNCHANGED connection
    BY DEF Tick, Submit, connection
  <2> QED BY <2>1, <2>2, ReconnectIsSeen DEF Next, Step
<1> QED BY <1>1, InitIInv, NextIInv, PTL DEF Spec, EngineSeesConnection

-----------------------------------------------------------------------------
(* Induction over the packets of a sequence, and with it what TotalBytes
   computes. *)

(* Every non-empty set of numbers has a least one... *)
LEMMA LeastNumber ==
    ASSUME NEW T, T \subseteq Nat, T # {}
    PROVE  \E x \in T : \A y \in T : x <= y
<1> DEFINE R == {ss \in Nat \X Nat : ss[1] < ss[2]}
<1>1. IsWellFoundedOn(R, Nat)
  BY NatLessThanWellFounded, Zenon DEF OpToRel
<1>2. PICK x \in T : \A y \in T : ~ (<<y, x>> \in R)
  <2> HIDE DEF R
  <2> QED BY <1>1, WFMin, Zenon
<1>3. \A y \in T : ~ (y < x)
  <2>1. SUFFICES ASSUME NEW y \in T, y < x PROVE FALSE
    OBVIOUS
  <2>2. <<y, x>> \in R
    BY <2>1
  <2> QED BY <1>2, <2>2
<1> QED BY <1>2, <1>3

(* ... so a set that holds 0, and n + 1 with every n below m, holds 0..m. *)
LEMMA InductionUpTo ==
    ASSUME NEW m \in Nat, NEW S, 0 \in S, \A n \in 0..(m - 1) : n \in S => n + 1 \in S
    PROVE  \A n \in 0..m : n \in S
<1> DEFINE T == (0..m) \ S
<1>1. SUFFICES ASSUME T # {} PROVE FALSE
  OBVIOUS
<1>2. T \subseteq Nat
  OBVIOUS
<1>3. PICK x \in T : \A y \in T : x <= y
  <2> HIDE DEF T
  <2> QED BY <1>1, <1>2, LeastNumber
<1>4. x - 1 \in 0..(m - 1) /\ x - 1 \in S
  BY <1>3
<1> QED BY <1>3, <1>4

(* The sums a recursion over the first m packets of s computes. *)
Sums(s, m) ==
    {f \in [0..m -> Int] : f[0] = 0 /\ \A n \in 1..m : f[n] = f[n - 1] + s[n].bytes}

Sized(P) == \A p \in P : p.bytes \in Nat

LEMMA SizesAreNat ==
    ASSUME NEW P, Sized(P), NEW s \in Seq(P)
    PROVE  Len(s) \in Nat /\ \A n \in 1..Len(s) : s[n].bytes \in Nat
<1>1. Len(s) \in Nat /\ \A n \in 1..Len(s) : s[n] \in P
  BY LenProperties, ElementOfSeq
<1> QED BY <1>1 DEF Sized

LEMMA SumsExist ==
    ASSUME NEW P, Sized(P), NEW s \in Seq(P)
    PROVE  Sums(s, Len(s)) # {}
<1> DEFINE S == {m \in 0..Len(s) : Sums(s, m) # {}}
<1>1. Len(s) \in Nat /\ \A n \in 1..Len(s) : s[n].bytes \in Nat
  BY SizesAreNat
<1>2. 0 \in S
  <2>1. [n \in 0..0 |-> 0] \in Sums(s, 0)
    BY DEF Sums
  <2> QED BY <1>1, <2>1
<1>3. ASSUME NEW n \in 0..(Len(s) - 1), n \in S PROVE n + 1 \in S
  <2>1. PICK f \in Sums(s, n) : TRUE
    BY <1>3
  <2>2. f \in [0..n -> Int] /\ f[0] = 0 /\ \A k \in 1..n : f[k] = f[k - 1] + s[k].bytes
    BY <2>1 DEF Sums
  <2> DEFINE g == [k \in 0..(n + 1) |-> IF k <= n THEN f[k] ELSE f[n] + s[n + 1].bytes]
  <2>3. g \in [0..(n + 1) -> Int] /\ g[0] = 0
    BY <1>1, <2>2
  <2>4. \A k \in 1..(n + 1) : g[k] = g[k - 1] + s[k].bytes
    <3>1. TAKE k \in 1..(n + 1)
    <3>2. CASE k <= n BY <1>1, <2>2, <3>2
    <3>3. CASE k = n + 1 BY <1>1, <2>2, <3>3
    <3> QED BY <1>1, <3>2, <3>3
  <2>5. g \in Sums(s, n + 1)
    <3> HIDE DEF g
    <3> QED BY <2>3, <2>4 DEF Sums
  <2> QED BY <1>1, <2>5
<1>4. \A n \in 0..Len(s) : n \in S
  <2> HIDE DEF S
  <2> QED BY <1>1, <1>2, <1>3, InductionUpTo
<1> QED BY <1>1, <1>4

LEMMA SumsAreUnique ==
    ASSUME NEW P, Sized(P), NEW s \in Seq(P),
           NEW f \in Sums(s, Len(s)), NEW g \in Sums(s, Len(s))
    PROVE  f[Len(s)] = g[Len(s)]
<1> DEFINE S == {m \in 0..Len(s) : f[m] = g[m]}
<1>1. Len(s) \in Nat
  BY SizesAreNat
<1>2. 0 \in S
  BY <1>1 DEF Sums
<1>3. ASSUME NEW n \in 0..(Len(s) - 1), n \in S PROVE n + 1 \in S
  BY <1>1, <1>3 DEF Sums
<1>4. \A n \in 0..Len(s) : n \in S
  <2> HIDE DEF S
  <2> QED BY <1>1, <1>2, <1>3, InductionUpTo
<1> QED BY <1>1, <1>4

(* TotalBytes is the sum its recursion computes. *)
LEMMA TotalBytesIsSum ==
    ASSUME NEW P, Sized(P), NEW s \in Seq(P)
    PROVE  \E f \in Sums(s, Len(s)) : TotalBytes(s) = f[Len(s)]
<1> DEFINE Solves(g) ==
             g = [n \in 0..Len(s) |-> IF n = 0 THEN 0 ELSE g[n - 1] + s[n].bytes]
           f == CHOOSE g : Solves(g)
<1>1. Len(s) \in Nat /\ \A n \in 1..Len(s) : s[n].bytes \in Nat
  BY SizesAreNat
<1>2. TotalBytes(s) = f[Len(s)]
  BY DEF TotalBytes
<1>3. PICK h \in Sums(s, Len(s)) : TRUE
  BY SumsExist
<1>4. Solves(h)
  BY <1>1, <1>3 DEF Sums
<1>5. Solves(f)
  <2> HIDE DEF Solves
  <2> QED BY <1>4, Zenon
<1> HIDE DEF f
<1>6. \A n \in 1..Len(s) : n \in 0..Len(s) /\ n - 1 \in 0..Len(s) /\ n # 0
  BY <1>1
<1>7. f[0] = 0 /\ \A n \in 1..Len(s) : f[n] = f[n - 1] + s[n].bytes
  BY <1>1, <1>5, <1>6
<1>8. \A n \in 0..Len(s) : f[n] \in Int
  <2> DEFINE S == {n \in 0..Len(s) : f[n] \in Int}
  <2>1. 0 \in S
    BY <1>1, <1>7
  <2>2. ASSUME NEW n \in 0..(Len(s) - 1), n \in S PROVE n + 1 \in S
    <3>1. f[n + 1] = f[n] + s[n + 1].bytes
      BY <1>1, <1>7
    <3> QED BY <1>1, <2>2, <3>1
  <2> HIDE DEF S
  <2>3. \A n \in 0..Len(s) : n \in S
    BY <1>1, <2>1, <2>2, InductionUpTo
  <2> QED BY <2>3 DEF S
<1>9. f \in Sums(s, Len(s))
  BY <1>5, <1>7, <1>8 DEF Sums
<1> QED BY <1>2, <1>9

LEMMA BytesBySums ==
    ASSUME NEW P, Sized(P), NEW s \in Seq(P), NEW f \in Sums(s, Len(s))
    PROVE  TotalBytes(s) = f[Len(s)]
BY TotalBytesIsSum, SumsAreUnique

LEMMA BytesAreNat ==
    ASSUME NEW P, Sized(P), NEW s \in Seq(P)
    PROVE  TotalBytes(s) \in Nat
<1>1. PICK f \in Sums(s, Len(s)) : TotalBytes(s) = f[Len(s)]
  BY TotalBytesIsSum
<1>2. Len(s) \in Nat /\ \A n \in 1..Len(s) : s[n].bytes \in Nat
  BY SizesAreNat
<1> DEFINE S == {n \in 0..Len(s) : f[n] \in Nat}
<1>3. 0 \in S
  BY <1>2 DEF Sums
<1>4. ASSUME NEW n \in 0..(Len(s) - 1), n \in S PROVE n + 1 \in S
  <2>1. f[n + 1] = f[n] + s[n + 1].bytes
    BY <1>2 DEF Sums
  <2> QED BY <1>2, <1>4, <2>1
<1>5. \A n \in 0..Len(s) : n \in S
  <2> HIDE DEF S
  <2> QED BY <1>2, <1>3, <1>4, InductionUpTo
<1> QED BY <1>2, <1>1, <1>5

LEMMA BytesOfNone == TotalBytes(<<>>) = 0
<1>1. Sized({}) /\ <<>> \in Seq({}) /\ Len(<<>>) = 0
  BY EmptySeq DEF Sized
<1>2. [n \in 0..0 |-> 0] \in Sums(<<>>, 0)
  BY DEF Sums
<1>3. TotalBytes(<<>>) = [n \in 0..0 |-> 0][0]
  BY <1>1, <1>2, BytesBySums
<1> QED BY <1>3

LEMMA BytesOfAppend ==
    ASSUME NEW P, Sized(P), NEW s \in Seq(P), NEW p \in P
    PROVE  TotalBytes(Append(s, p)) = TotalBytes(s) + p.bytes
<1> DEFINE t == Append(s, p)
<1>1. PICK f \in Sums(s, Len(s)) : TotalBytes(s) = f[Len(s)]
  BY TotalBytesIsSum
<1>2. Len(s) \in Nat /\ p.bytes \in Nat
  BY SizesAreNat DEF Sized
<1>3. /\ t \in Seq(P) /\ Len(t) = Len(s) + 1
      /\ \A n \in 1..Len(s) : t[n] = s[n]
      /\ t[Len(s) + 1] = p
  BY AppendProperties
<1> DEFINE g == [n \in 0..(Len(s) + 1) |-> IF n <= Len(s) THEN f[n] ELSE f[Len(s)] + p.bytes]
<1> HIDE DEF t
<1>4. f \in [0..Len(s) -> Int] /\ f[0] = 0 /\ \A n \in 1..Len(s) : f[n] = f[n - 1] + s[n].bytes
  BY DEF Sums
<1>5. g \in [0..(Len(s) + 1) -> Int] /\ g[0] = 0 /\ g[Len(s) + 1] = f[Len(s)] + p.bytes
  BY <1>2, <1>4
<1>6. \A n \in 1..(Len(s) + 1) : g[n] = g[n - 1] + t[n].bytes
  <2>1. TAKE n \in 1..(Len(s) + 1)
  <2>2. CASE n <= Len(s)
    <3>1. g[n] = f[n] /\ g[n - 1] = f[n - 1] /\ t[n] = s[n] /\ n \in 1..Len(s)
      BY <1>2, <1>3, <2>2
    <3> QED BY <1>4, <3>1
  <2>3. CASE n = Len(s) + 1 BY <1>2, <1>3, <1>4, <2>3
  <2> QED BY <1>2, <2>2, <2>3
<1> HIDE DEF g
<1>7. g \in Sums(t, Len(t))
  BY <1>3, <1>5, <1>6 DEF Sums
<1>8. TotalBytes(t) = g[Len(t)]
  BY <1>3, <1>7, BytesBySums
<1> QED BY <1>1, <1>3, <1>5, <1>8 DEF t

LEMMA BytesOfSplit ==
    ASSUME NEW P, Sized(P), NEW s \in Seq(P), NEW m \in 0..Len(s)
    PROVE  TotalBytes(s) = TotalBytes(Take(s, m)) + TotalBytes(Drop(s, m))
<1> DEFINE h == Take(s, m)
           t == Drop(s, m)
<1>1. PICK f \in Sums(s, Len(s)) : TotalBytes(s) = f[Len(s)]
  BY TotalBytesIsSum
<1>2. f \in [0..Len(s) -> Int] /\ f[0] = 0 /\ \A n \in 1..Len(s) : f[n] = f[n - 1] + s[n].bytes
  BY DEF Sums
<1>3. Len(s) \in Nat /\ m \in Nat
  BY SizesAreNat
<1>4. h \in Seq(P) /\ Len(h) = m /\ \A n \in 1..m : h[n] = s[n]
  BY <1>3, SubSeqProperties DEF Take
<1>5. t \in Seq(P) /\ Len(t) = Len(s) - m /\ \A n \in 1..(Len(s) - m) : t[n] = s[m + n]
  BY <1>3, SubSeqProperties DEF Drop
<1> HIDE DEF h, t
<1> DEFINE a == [n \in 0..m |-> f[n]]
           b == [n \in 0..(Len(s) - m) |-> f[m + n] - f[m]]
<1>6. a \in Sums(h, m)
  <2>1. a \in [0..m -> Int] /\ a[0] = 0
    BY <1>2, <1>3
  <2>2. \A n \in 1..m : a[n] = a[n - 1] + h[n].bytes
    BY <1>2, <1>3, <1>4
  <2> HIDE DEF a
  <2> QED BY <2>1, <2>2 DEF Sums
<1>7. b \in Sums(t, Len(s) - m)
  <2>1. \A n \in 0..(Len(s) - m) : f[m + n] - f[m] \in Int
    <3>1. TAKE n \in 0..(Len(s) - m)
    <3>2. m + n \in 0..Len(s) /\ m \in 0..Len(s)
      BY <1>3
    <3>3. f[m + n] \in Int /\ f[m] \in Int
      BY <1>2, <3>2
    <3> QED BY <3>3
  <2>2. b \in [0..(Len(s) - m) -> Int]
    BY <2>1
  <2>3. b[0] = 0
    <3>1. b[0] = f[m + 0] - f[m] /\ m + 0 = m /\ f[m] \in Int
      BY <1>2, <1>3
    <3> QED BY <3>1
  <2>4. \A n \in 1..(Len(s) - m) : b[n] = b[n - 1] + t[n].bytes
    <3>1. TAKE n \in 1..(Len(s) - m)
    <3>2. m + n \in 1..Len(s) /\ n - 1 \in 0..(Len(s) - m) /\ n \in 0..(Len(s) - m)
      BY <1>3
    <3>3. f[m + n] = f[m + n - 1] + s[m + n].bytes
      BY <1>2, <3>2
    <3>4. b[n] = f[m + n] - f[m] /\ b[n - 1] = f[m + (n - 1)] - f[m]
      BY <3>2
    <3>5. m + n \in 0..Len(s) /\ m + n - 1 \in 0..Len(s) /\ m \in 0..Len(s)
          /\ m + (n - 1) = m + n - 1
      BY <1>3
    <3>7. f[m + n] \in Int /\ f[m + n - 1] \in Int /\ f[m] \in Int
      BY <1>2, <3>5
    <3>8. s[m + n].bytes \in Nat
      BY <3>2, SizesAreNat
    <3>6. t[n] = s[m + n]
      BY <1>5
    <3> HIDE DEF b
    <3> DEFINE x == f[m + n]
               y == f[m + n - 1]
               z == f[m]
               d == t[n].bytes
    <3>9. /\ x \in Int /\ y \in Int /\ z \in Int /\ d \in Nat
          /\ x = y + d /\ b[n] = x - z /\ b[n - 1] = y - z
      BY <3>3, <3>4, <3>5, <3>6, <3>7, <3>8
    <3> HIDE DEF x, y, z, d
    <3>10. x - z = (y - z) + d
      BY <3>9
    <3> QED BY <3>9, <3>10 DEF d
  <2> HIDE DEF b
  <2> QED BY <2>2, <2>3, <2>4 DEF Sums
<1>8. TotalBytes(h) = f[m] /\ TotalBytes(t) = f[Len(s)] - f[m]
  <2>1. a[m] = f[m] /\ b[Len(s) - m] = f[Len(s)] - f[m]
    BY <1>3
  <2> HIDE DEF a, b
  <2> QED BY <1>4, <1>5, <1>6, <1>7, <2>1, BytesBySums
<1>9. f[m] \in Int /\ f[Len(s)] \in Int
  BY <1>2, <1>3
<1> QED BY <1>1, <1>8, <1>9 DEF h, t

-----------------------------------------------------------------------------
(* The counters.  What is exact at every step: the byte counter of the queue;
   the metrics; and, without a write buffer, which packets went where. *)

BytesExact == queue.bytes = TotalBytes(queue.packets) /\ queue.bytes <= Capacity

CountsExact ==
    LET open == metrics.dropped + metrics.sent + Len(queue.packets)
    IN  /\ open <= metrics.submitted
        /\ state # "Closed" => open = metrics.submitted

WireExact ==
    ~Buffered => /\ inBuffer = <<>>
                 /\ metrics.sent = Len(wire)
                 /\ 1..nextId = Ids(wire) \union Ids(queue.packets) \union discarded

AInv == IInv /\ BytesExact /\ CountsExact /\ WireExact

LEMMA PacketsAreSized == Sized(Packet)
BY DEF Sized, Packet

LEMMA IdsOfNone == Ids(<<>>) = {}
BY DEF Ids

LEMMA IdsOfConcat ==
    ASSUME NEW s \in Seq(Packet), NEW t \in Seq(Packet)
    PROVE  Ids(s \o t) = Ids(s) \union Ids(t)
<1> DEFINE u == s \o t
<1>1. /\ u \in Seq(Packet)
      /\ Len(u) = Len(s) + Len(t)
      /\ \A i \in 1..(Len(s) + Len(t)) :
            u[i] = IF i <= Len(s) THEN s[i] ELSE t[i - Len(s)]
  BY ConcatProperties
<1>2. /\ Len(s) \in Nat /\ DOMAIN s = 1..Len(s)
      /\ Len(t) \in Nat /\ DOMAIN t = 1..Len(t)
      /\ DOMAIN u = 1..(Len(s) + Len(t))
  BY <1>1, LenProperties
<1>3. Ids(u) \subseteq Ids(s) \union Ids(t)
  BY ConcatElements DEF Ids
<1> HIDE DEF u
<1>4. \A i \in DOMAIN s : i \in DOMAIN u /\ u[i] = s[i]
  BY <1>1, <1>2
<1>5. \A i \in DOMAIN t : Len(s) + i \in DOMAIN u /\ u[Len(s) + i] = t[i]
  <2>1. TAKE i \in DOMAIN t
  <2>2. Len(s) + i \in 1..(Len(s) + Len(t)) /\ ~ (Len(s) + i <= Len(s)) /\ Len(s) + i - Len(s) = i
    BY <1>2
  <2> QED BY <1>1, <1>2, <2>2
<1>6. Ids(s) \union Ids(t) \subseteq Ids(u)
  BY <1>4, <1>5 DEF Ids
<1> QED BY <1>3, <1>6 DEF u

LEMMA IdsOfAppend ==
    ASSUME NEW s \in Seq(Packet), NEW p \in Packet
    PROVE  Ids(Append(s, p)) = Ids(s) \union {p.id}
<1> DEFINE u == Append(s, p)
<1>1. /\ u \in Seq(Packet) /\ Len(u) = Len(s) + 1
      /\ \A i \in 1..Len(s) : u[i] = s[i]
      /\ u[Len(s) + 1] = p
  BY AppendProperties
<1>2. /\ Len(s) \in Nat /\ DOMAIN s = 1..Len(s) /\ DOMAIN u = 1..(Len(s) + 1)
  BY <1>1, LenProperties
<1> HIDE DEF u
<1>3. DOMAIN u = DOMAIN s \union {Len(s) + 1}
  BY <1>2
<1>4. Ids(u) = Ids(s) \union {p.id}
  BY <1>1, <1>2, <1>3 DEF Ids
<1> QED BY <1>4 DEF u

LEMMA IdsOfSplit ==
    ASSUME NEW s \in Seq(Packet), NEW n \in 0..Len(s)
    PROVE  Ids(s) = Ids(Take(s, n)) \union Ids(Drop(s, n))
<1> DEFINE h == Take(s, n)
           d == Drop(s, n)
<1>1. DOMAIN h = 1..n /\ \A i \in 1..n : h[i] = s[i]
  BY TakeProperties
<1>2. DOMAIN d = 1..(Len(s) - n) /\ \A i \in 1..(Len(s) - n) : d[i] = s[n + i]
  BY DropProperties
<1>3. Len(s) \in Nat /\ DOMAIN s = 1..Len(s)
  BY LenProperties
<1> HIDE DEF h, d
<1>4. Ids(h) \subseteq Ids(s)
  BY <1>1, <1>3 DEF Ids
<1>5. Ids(d) \subseteq Ids(s)
  <2>1. \A i \in 1..(Len(s) - n) : n + i \in DOMAIN s
    BY <1>3
  <2> QED BY <1>2, <2>1 DEF Ids
<1>6. Ids(s) \subseteq Ids(h) \union Ids(d)
  <2>1. SUFFICES ASSUME NEW i \in DOMAIN s PROVE s[i].id \in Ids(h) \union Ids(d)
    BY DEF Ids
  <2>2. CASE i <= n
    <3>1. i \in DOMAIN h /\ h[i] = s[i]
      BY <1>1, <1>3, <2>2
    <3> QED BY <3>1 DEF Ids
  <2>3. CASE n < i
    <3>1. i - n \in 1..(Len(s) - n) /\ n + (i - n) = i
      BY <1>3, <2>3
    <3>2. i - n \in DOMAIN d /\ d[i - n] = s[i]
      BY <1>2, <3>1
    <3> QED BY <3>2 DEF Ids
  <2> QED BY <1>3, <2>2, <2>3
<1> QED BY <1>4, <1>5, <1>6 DEF h, d

LEMMA InitAInv == Init => AInv
<1> SUFFICES ASSUME Init PROVE AInv
  OBVIOUS
<1>1. queue.packets = <<>> /\ queue.bytes = 0
  BY DEF Init, EmptyQueue
<1>2. BytesExact
  BY <1>1, BytesOfNone, CapacityAssumption DEF BytesExact
<1>3. CountsExact
  BY <1>1 DEF Init, CountsExact
<1>4. WireExact
  BY <1>1, IdsOfNone DEF Init, WireExact
<1> QED BY <1>2, <1>3, <1>4, InitIInv DEF AInv

(* Steps that move no packet between the queue, the counters and the wire. *)
LEMMA CountersKept ==
    ASSUME AInv, UNCHANGED <<queue, nextId, discarded, setup>>,
           metrics' = metrics \/ Count(0, 0, 0, 1),
           inBuffer = <<>> => UNCHANGED <<inBuffer, wire>>,
           state = "Closed" => state' = "Closed"
    PROVE  BytesExact' /\ CountsExact' /\ WireExact'
<1>1. /\ metrics'.submitted = metrics.submitted
      /\ metrics'.dropped = metrics.dropped
      /\ metrics'.sent = metrics.sent
  <2>1. metrics.submitted \in Nat /\ metrics.dropped \in Nat /\ metrics.sent \in Nat
    BY DEF AInv, IInv, TypeOK, Metrics
  <2> QED BY <2>1 DEF Count
<1>2. BytesExact' /\ CountsExact'
  BY <1>1 DEF AInv, BytesExact, CountsExact
<1>3. WireExact'
  BY <1>1 DEF AInv, WireExact, Buffered
<1> QED BY <1>2, <1>3

(* With nothing in the write buffer, dropping it writes nothing. *)
LEMMA DropStreamEmpty ==
    ASSUME TypeOK, DropStream
    PROVE  inBuffer = <<>> => UNCHANGED <<inBuffer, wire>>
<1>1. SUFFICES ASSUME inBuffer = <<>> PROVE UNCHANGED <<inBuffer, wire>>
  OBVIOUS
<1>2. PICK n \in 0..0 : wire' = wire \o Take(<<>>, n)
  BY <1>1 DEF DropStream
<1>3. n = 0 /\ <<>> \in Seq(Packet)
  BY EmptySeq
<1>4. Take(<<>>, n) = <<>>
  BY <1>3, SubSeqEmpty DEF Take
<1>5. wire \o <<>> = wire
  BY ConcatEmptySeq DEF TypeOK
<1> QED BY <1>1, <1>2, <1>4, <1>5 DEF DropStream

LEMMA ConnectCounts == AInv /\ Connect /\ UNCHANGED setup => AInv'
<1> SUFFICES ASSUME AInv, Connect, UNCHANGED setup PROVE AInv'
  OBVIOUS
<1>1. IInv'
  BY ConnectStep DEF AInv
<1>2. inBuffer = <<>> => UNCHANGED <<inBuffer, wire>>
  BY DropStreamEmpty DEF Connect, TransportConnects, TransportRefuses, transportVars, AInv, IInv
<1>3. state # "Closed" /\ UNCHANGED <<queue, metrics, nextId, discarded>>
  BY DEF Connect, Connectable
<1> QED BY <1>1, <1>2, <1>3, CountersKept DEF AInv

LEMMA ReconnectCounts == AInv /\ Reconnect /\ UNCHANGED setup => AInv'
<1> SUFFICES ASSUME AInv, Reconnect, UNCHANGED setup PROVE AInv'
  OBVIOUS
<1>1. IInv'
  BY ReconnectStep DEF AInv
<1>2. inBuffer = <<>> => UNCHANGED <<inBuffer, wire>>
  BY DropStreamEmpty DEF Reconnect, ReconnectExhausted, ReconnectAttempt, TransportConnects,
     TransportRefuses, transportVars, AInv, IInv
<1>3. /\ state # "Closed" /\ UNCHANGED <<queue, nextId, discarded>>
      /\ metrics' = metrics \/ Count(0, 0, 0, 1)
  BY DEF Reconnect, ReconnectExhausted, ReconnectAttempt, Connectable
<1> QED BY <1>1, <1>2, <1>3, CountersKept DEF AInv

LEMMA DisconnectCounts == AInv /\ Disconnect /\ UNCHANGED setup => AInv'
<1> SUFFICES ASSUME AInv, Disconnect, UNCHANGED setup PROVE AInv'
  OBVIOUS
<1>1. IInv'
  BY DisconnectStep DEF AInv
<1>2. inBuffer = <<>> => UNCHANGED <<inBuffer, wire>>
  BY DropStreamEmpty DEF Disconnect, TransportDisconnects, AInv, IInv
<1>3. state # "Closed" /\ UNCHANGED <<queue, metrics, nextId, discarded>>
  BY DEF Disconnect
<1> QED BY <1>1, <1>2, <1>3, CountersKept DEF AInv

LEMMA TickCounts == AInv /\ Tick /\ UNCHANGED setup => AInv'
<1> SUFFICES ASSUME AInv, Tick, UNCHANGED setup PROVE AInv'
  OBVIOUS
<1>1. IInv'
  BY TickStep DEF AInv
<1>2. UNCHANGED <<state, queue, inBuffer, wire, metrics, nextId, discarded>>
  BY DEF Tick, transportVars
<1> QED BY <1>1, <1>2, CountersKept DEF AInv

(* Closing discards what is queued: the metrics no longer count it. *)
LEMMA CloseCounts == AInv /\ Close /\ UNCHANGED setup => AInv'
<1> SUFFICES ASSUME AInv, Close, UNCHANGED setup PROVE AInv'
  OBVIOUS
<1>1. IInv'
  BY CloseStep DEF AInv
<1>2. /\ state' = "Closed" /\ queue'.packets = <<>> /\ queue'.bytes = 0
      /\ discarded' = discarded \union Ids(queue.packets)
      /\ UNCHANGED <<metrics, nextId>>
  BY DEF Close, EmptyQueue
<1>3. inBuffer = <<>> => UNCHANGED <<inBuffer, wire>>
  BY DropStreamEmpty DEF Close, TransportDisconnects, AInv, IInv
<1>4. BytesExact'
  BY <1>2, BytesOfNone, CapacityAssumption DEF BytesExact
<1>5. CountsExact'
  <2>1. /\ Len(queue.packets) \in Nat /\ Len(<<>>) = 0
        /\ metrics.dropped \in Nat /\ metrics.sent \in Nat /\ metrics.submitted \in Nat
    BY LenProperties, EmptySeq DEF AInv, IInv, TypeOK, Metrics
  <2>2. metrics.dropped + metrics.sent + Len(queue.packets) <= metrics.submitted
    BY DEF AInv, CountsExact
  <2>3. metrics.dropped + metrics.sent + 0 <= metrics.submitted
    BY <2>1, <2>2
  <2> QED BY <1>2, <2>1, <2>3 DEF CountsExact
<1>6. WireExact'
  BY <1>2, <1>3, IdsOfNone DEF AInv, WireExact, Buffered
<1> QED BY <1>1, <1>4, <1>5, <1>6 DEF AInv

LEMMA SessionTypes ==
    ASSUME IInv
    PROVE  /\ queue.packets \in Seq(Packet) /\ Len(queue.packets) \in Nat
           /\ wire \in Seq(Packet) /\ Len(wire) \in Nat
           /\ metrics.submitted \in Nat /\ metrics.dropped \in Nat /\ metrics.sent \in Nat
           /\ nextId \in Nat
<1>1. queue.packets \in Seq(Packet) /\ wire \in Seq(Packet) /\ metrics \in Metrics /\ nextId \in Nat
  BY DEF IInv, TypeOK
<1>2. Len(queue.packets) \in Nat /\ Len(wire) \in Nat
  BY <1>1, LenProperties
<1> QED BY <1>1, <1>2 DEF Metrics

(* The counters of an open session stay exact when they grow by as much as the
   queue does. *)
LEMMA CountsKept ==
    ASSUME IInv, CountsExact, state # "Closed",
           NEW a \in Nat, NEW d \in Nat, NEW c \in Nat, Count(a, d, c, 0),
           queue'.packets \in Seq(Packet),
           Len(queue'.packets) = Len(queue.packets) + a - d - c
    PROVE  CountsExact'
<1> DEFINE l == Len(queue.packets)
           m == Len(queue'.packets)
           x == metrics.submitted
           y == metrics.dropped
           z == metrics.sent
<1>1. l \in Nat /\ m \in Nat /\ m = l + a - d - c
  BY SessionTypes, LenProperties
<1>2. x \in Nat /\ y \in Nat /\ z \in Nat /\ y + z + l = x
  BY SessionTypes DEF CountsExact
<1>3. metrics'.submitted = x + a /\ metrics'.dropped = y + d /\ metrics'.sent = z + c
  BY DEF Count
<1> HIDE DEF l, m, x, y, z
<1>4. (y + d) + (z + c) + m = x + a /\ x + a \in Nat
  BY <1>1, <1>2
<1>5. metrics'.dropped + metrics'.sent + m = metrics'.submitted /\ metrics'.submitted \in Nat
  BY <1>3, <1>4
<1> QED BY <1>5 DEF m, CountsExact

(* A packet finds room, after n of the oldest ones went. *)
LEMMA SubmitCounts ==
    ASSUME NEW size \in Sizes
    PROVE  AInv /\ Submit(size) /\ UNCHANGED setup => AInv'
<1> SUFFICES ASSUME AInv, Submit(size), UNCHANGED setup PROVE AInv'
  OBVIOUS
<1> DEFINE p == [id |-> nextId + 1, bytes |-> size]
           q == queue.packets
<1>1. IInv'
  BY SubmitStep DEF AInv
<1>2. /\ q \in Seq(Packet) /\ Len(q) \in Nat /\ nextId \in Nat
      /\ metrics.submitted \in Nat /\ metrics.dropped \in Nat /\ metrics.sent \in Nat
  BY SessionTypes DEF AInv
<1>3. p \in Packet /\ p.bytes = size /\ size \in Nat /\ p.id = nextId + 1
  BY <1>2, SizesAssumption DEF Packet
<1>4. TotalBytes(q) \in Nat
  BY <1>2, PacketsAreSized, BytesAreNat
<1>5. /\ queue.bytes = TotalBytes(q) /\ TotalBytes(q) <= Capacity /\ Capacity \in Nat
      /\ state # "Closed" => metrics.dropped + metrics.sent + Len(q) = metrics.submitted
  BY CapacityAssumption DEF AInv, BytesExact, CountsExact
<1>6. /\ state # "Closed" /\ nextId' = nextId + 1
      /\ UNCHANGED <<state, inBuffer, wire>>
  BY DEF Submit, transportVars
<1>7. 1..(nextId + 1) = (1..nextId) \union {p.id}
  BY <1>2, <1>3
<1> HIDE DEF p
<1>8. ASSUME NEW n \in 0..Len(q), HasRoom(PopOldest(queue, n), p),
             queue'.packets = Append(Drop(q, n), p),
             queue'.bytes = queue.bytes - TotalBytes(Take(q, n)) + p.bytes,
             Count(1, n, 0, 0),
             discarded' = discarded \union Ids(Take(q, n))
      PROVE  BytesExact' /\ CountsExact' /\ WireExact'
  <2>1. Take(q, n) \in Seq(Packet) /\ Drop(q, n) \in Seq(Packet) /\ Len(Drop(q, n)) = Len(q) - n
    BY <1>2, TakeProperties, DropProperties
  <2>2. TotalBytes(q) = TotalBytes(Take(q, n)) + TotalBytes(Drop(q, n))
    BY <1>2, PacketsAreSized, BytesOfSplit
  <2>3. TotalBytes(Take(q, n)) \in Nat /\ TotalBytes(Drop(q, n)) \in Nat
    BY <2>1, PacketsAreSized, BytesAreNat
  <2>4. TotalBytes(queue'.packets) = TotalBytes(Drop(q, n)) + p.bytes
    BY <1>3, <1>8, <2>1, PacketsAreSized, BytesOfAppend
  <2>5. p.bytes <= Capacity - (queue.bytes - TotalBytes(Take(q, n)))
    BY <1>8 DEF HasRoom, PopOldest
  <2>6. BytesExact'
    BY <1>3, <1>5, <1>8, <2>2, <2>3, <2>4, <2>5 DEF BytesExact
  <2>7. Len(queue'.packets) = Len(q) - n + 1
    <3> DEFINE d == Drop(q, n)
    <3>1. d \in Seq(Packet) /\ Len(d) = Len(q) - n /\ queue'.packets = Append(d, p)
      BY <1>8, <2>1
    <3> HIDE DEF d
    <3>2. Len(Append(d, p)) = Len(d) + 1
      BY <1>3, <3>1, AppendProperties
    <3> QED BY <3>1, <3>2
  <2>8. /\ metrics'.submitted = metrics.submitted + 1
        /\ metrics'.dropped = metrics.dropped + n
        /\ metrics'.sent = metrics.sent
    BY <1>2, <1>8 DEF Count
  <2>9. CountsExact'
    <3>1. queue'.packets \in Seq(Packet) /\ n \in Nat
      BY <1>1, <1>2 DEF IInv, TypeOK
    <3>2. Len(queue'.packets) = Len(q) + 1 - n - 0
      BY <1>2, <2>7, <3>1
    <3> QED BY <1>6, <1>8, <3>1, <3>2, CountsKept DEF AInv
  <2>10. Ids(q) = Ids(Take(q, n)) \union Ids(Drop(q, n))
    BY <1>2, IdsOfSplit
  <2>11. Ids(queue'.packets) = Ids(Drop(q, n)) \union {p.id}
    BY <1>3, <1>8, <2>1, IdsOfAppend
  <2>12. ASSUME ~Buffered
         PROVE  1..nextId' = Ids(wire') \union Ids(queue'.packets) \union discarded'
    <3>1. 1..nextId = Ids(wire) \union Ids(q) \union discarded
      BY <2>12 DEF AInv, WireExact
    <3>2. 1..nextId' = Ids(wire) \union Ids(Take(q, n)) \union Ids(Drop(q, n)) \union {p.id}
                         \union discarded
      BY <1>6, <1>7, <2>10, <3>1
    <3> QED BY <1>6, <1>8, <2>11, <3>2
  <2>13. WireExact'
    BY <1>6, <2>8, <2>12 DEF AInv, WireExact, Buffered
  <2> QED BY <2>6, <2>9, <2>13
<1>9. CASE HasRoom(queue, p) /\ queue' = Enqueue(queue, p) /\ Count(1, 0, 0, 0)
           /\ UNCHANGED discarded
  <2>1. Take(q, 0) = <<>> /\ Drop(q, 0) = q
    BY <1>2, SubSeqEmpty, SubSeqFull DEF Take, Drop
  <2>2. TotalBytes(Take(q, 0)) = 0 /\ Ids(Take(q, 0)) = {}
    BY <2>1, BytesOfNone, IdsOfNone
  <2>3. queue'.packets = Append(Drop(q, 0), p) /\ queue'.bytes = queue.bytes + p.bytes
    BY <1>9, <2>1 DEF Enqueue
  <2>4. queue.bytes - TotalBytes(Take(q, 0)) = queue.bytes
    BY <1>4, <1>5, <2>2
  <2>5. HasRoom(PopOldest(queue, 0), p)
    BY <1>9, <2>4 DEF HasRoom, PopOldest
  <2>6. discarded' = discarded \union Ids(Take(q, 0)) /\ 0 \in 0..Len(q)
    BY <1>2, <1>9, <2>2
  <2> QED BY <1>1, <1>8, <1>9, <2>3, <2>4, <2>5, <2>6 DEF AInv
<1>10. CASE Count(1, 1, 0, 0) /\ discarded' = discarded \union {p.id} /\ UNCHANGED queue
  <2>1. /\ metrics'.submitted = metrics.submitted + 1
        /\ metrics'.dropped = metrics.dropped + 1
        /\ metrics'.sent = metrics.sent
    BY <1>2, <1>10 DEF Count
  <2>2. BytesExact'
    BY <1>10 DEF AInv, BytesExact
  <2>3. CountsExact'
    <3>1. Len(queue'.packets) = Len(q) + 1 - 1 - 0
      BY <1>2, <1>10
    <3> QED BY <1>2, <1>6, <1>10, <3>1, CountsKept DEF AInv
  <2>4. WireExact'
    BY <1>6, <1>7, <1>10, <2>1 DEF AInv, WireExact, Buffered
  <2> QED BY <1>1, <2>2, <2>3, <2>4 DEF AInv
<1>11. ASSUME NEW n \in 0..Len(q), Evicts(queue, p, n),
              queue' = Enqueue(PopOldest(queue, n), p), Count(1, n, 0, 0),
              discarded' = discarded \union Ids(Take(q, n))
       PROVE  AInv'
  <2>1. /\ queue'.packets = Append(Drop(q, n), p)
        /\ queue'.bytes = queue.bytes - TotalBytes(Take(q, n)) + p.bytes
    BY <1>11 DEF Enqueue, PopOldest
  <2>2. HasRoom(PopOldest(queue, n), p)
    BY <1>11 DEF Evicts
  <2> QED BY <1>1, <1>8, <1>11, <2>1, <2>2 DEF AInv
<1> QED BY <1>9, <1>10, <1>11 DEF Submit, p

(* A whole batch is sent. *)
LEMMA FlushDeliversCounts == AInv /\ FlushDelivers /\ UNCHANGED setup => AInv'
<1> SUFFICES ASSUME AInv, FlushDelivers, UNCHANGED setup PROVE AInv'
  OBVIOUS
<1> DEFINE q == queue.packets
<1>1. IInv'
  BY FlushDeliversStep DEF AInv
<1>2. /\ q \in Seq(Packet) /\ Len(q) \in Nat /\ wire \in Seq(Packet) /\ Len(wire) \in Nat
      /\ metrics.submitted \in Nat /\ metrics.dropped \in Nat /\ metrics.sent \in Nat
  BY SessionTypes DEF AInv
<1>3. /\ state = "Connected" /\ wire' = wire \o q
      /\ queue'.packets = <<>> /\ queue'.bytes = 0
      /\ Count(0, 0, Len(q), 0) /\ UNCHANGED <<state, inBuffer, nextId, discarded>>
  BY DEF FlushDelivers, SendsAll, EmptyQueue
<1>4. /\ metrics'.submitted = metrics.submitted
      /\ metrics'.dropped = metrics.dropped
      /\ metrics'.sent = metrics.sent + Len(q)
  BY <1>2, <1>3 DEF Count
<1>5. BytesExact'
  BY <1>3, BytesOfNone, CapacityAssumption DEF BytesExact
<1>6. CountsExact'
  <2>1. Len(<<>>) = 0
    BY EmptySeq
  <2> QED BY <1>2, <1>3, <1>4, <2>1 DEF AInv, CountsExact
<1>7. WireExact'
  <2>1. Len(wire \o q) = Len(wire) + Len(q) /\ Ids(wire \o q) = Ids(wire) \union Ids(q)
    BY <1>2, ConcatProperties, IdsOfConcat
  <2> QED BY <1>3, <1>4, <2>1, IdsOfNone DEF AInv, WireExact, Buffered
<1> QED BY <1>1, <1>5, <1>6, <1>7 DEF AInv

(* The tail of a batch that failed fits in the queue it came from, whose counter
   was exact: none of it is lost. *)
LEMMA FlushFailsRequeues ==
    ASSUME IInv, BytesExact, FlushFails
    PROVE  \E k \in 0..Len(queue.packets) :
              /\ SendFails(queue.packets, k) /\ Count(0, 0, k, 0)
              /\ queue'.packets = Drop(queue.packets, k)
              /\ queue'.bytes = TotalBytes(Drop(queue.packets, k))
              /\ TotalBytes(Drop(queue.packets, k)) \in 0..Capacity
              /\ discarded' = discarded
<1> DEFINE q == queue.packets
<1>1. q \in Seq(Packet) /\ Len(q) \in Nat
  BY SessionTypes
<1>2. PICK k \in 0..Len(q) :
        /\ SendFails(q, k) /\ Count(0, 0, k, 0)
        /\ \E lost \in 0..Len(Drop(q, k)) :
             /\ Requeues(Drop(q, k), lost)
             /\ queue' = Requeued(Drop(q, k), lost)
             /\ discarded' = discarded \union Ids(Take(Drop(q, k), lost))
  BY DEF FlushFails
<1> DEFINE h == Take(q, k)
           t == Drop(q, k)
<1>3. h \in Seq(Packet) /\ t \in Seq(Packet) /\ Len(t) \in Nat
  <2>1. h \in Seq(Packet) /\ t \in Seq(Packet)
    BY <1>1, TakeProperties, DropProperties
  <2> QED BY <2>1, LenProperties
<1>4. TotalBytes(t) \in Nat /\ TotalBytes(t) <= Capacity /\ Capacity \in Nat
  <2>1. TotalBytes(q) = TotalBytes(h) + TotalBytes(t)
    BY <1>1, PacketsAreSized, BytesOfSplit
  <2>2. TotalBytes(h) \in Nat /\ TotalBytes(t) \in Nat
    BY <1>3, PacketsAreSized, BytesAreNat
  <2> QED BY <2>1, <2>2, CapacityAssumption DEF BytesExact
<1> HIDE DEF h, t
<1>5. PICK lost \in 0..Len(t) :
        /\ Requeues(t, lost)
        /\ queue' = Requeued(t, lost)
        /\ discarded' = discarded \union Ids(Take(t, lost))
  BY <1>2 DEF t
<1>6. Drop(t, 0) = t /\ Take(t, 0) = <<>>
  BY <1>3, SubSeqFull, SubSeqEmpty DEF Drop, Take
<1>7. lost = 0
  <2>1. SUFFICES ASSUME lost # 0 PROVE FALSE
    OBVIOUS
  <2>2. 0 \in 0..(lost - 1)
    BY <1>3, <2>1
  <2>3. TotalBytes(Drop(t, 0)) > Capacity
    BY <1>5, <2>2 DEF Requeues
  <2> QED BY <1>4, <1>6, <2>3
<1>8. queue'.packets = t /\ queue'.bytes = TotalBytes(t) /\ discarded' = discarded
  BY <1>5, <1>6, <1>7, IdsOfNone DEF Requeued
<1> QED BY <1>2, <1>4, <1>8 DEF t

(* A batch fails after k packets: the k are counted, the rest is queued. *)
LEMMA FlushFailsCounts == AInv /\ FlushFails /\ UNCHANGED setup => AInv'
<1> SUFFICES ASSUME AInv, FlushFails, UNCHANGED setup PROVE AInv'
  OBVIOUS
<1> DEFINE q == queue.packets
<1>1. IInv'
  BY FlushFailsStep DEF AInv
<1>2. /\ q \in Seq(Packet) /\ Len(q) \in Nat /\ wire \in Seq(Packet) /\ Len(wire) \in Nat
      /\ metrics.submitted \in Nat /\ metrics.dropped \in Nat /\ metrics.sent \in Nat
  BY SessionTypes DEF AInv
<1>3. PICK k \in 0..Len(q) :
        /\ SendFails(q, k) /\ Count(0, 0, k, 0)
        /\ queue'.packets = Drop(q, k)
        /\ queue'.bytes = TotalBytes(Drop(q, k))
        /\ TotalBytes(Drop(q, k)) \in 0..Capacity
        /\ discarded' = discarded
  BY FlushFailsRequeues DEF AInv
<1> DEFINE h == Take(q, k)
           t == Drop(q, k)
<1>4. h \in Seq(Packet) /\ Len(h) = k /\ k \in Nat
  <2>1. h \in Seq(Packet) /\ DOMAIN h = 1..k /\ k \in Nat
    BY <1>2, TakeProperties
  <2> HIDE DEF h
  <2> QED BY <2>1, LenProperties
<1>5. Len(queue'.packets) = Len(q) - k
  BY <1>2, <1>3, DropProperties
<1>6. state # "Closed" /\ state' = "Disconnected" /\ nextId' = nextId
  BY DEF FlushFails
<1> HIDE DEF h, t
<1>7. /\ metrics'.submitted = metrics.submitted
      /\ metrics'.dropped = metrics.dropped
      /\ metrics'.sent = metrics.sent + k
  BY <1>2, <1>3 DEF Count
<1>8. BytesExact'
  BY <1>3, CapacityAssumption DEF BytesExact
<1>9. CountsExact'
  <2>1. queue'.packets \in Seq(Packet)
    BY <1>1 DEF IInv, TypeOK
  <2>2. ASSUME NEW l \in Nat PROVE l - k = l + 0 - 0 - k
    BY <1>4
  <2>3. Len(queue'.packets) = Len(q) + 0 - 0 - k
    BY <1>2, <1>5, <2>2
  <2> QED BY <1>3, <1>4, <1>6, <2>1, <2>3, CountsKept DEF AInv
<1>10. ASSUME ~Buffered
       PROVE  /\ inBuffer' = inBuffer
              /\ Len(wire') = Len(wire) + k
              /\ Ids(wire') = Ids(wire) \union Ids(h)
  <2>1. CASE socket
    <3>1. wire' = wire \o h /\ inBuffer' = inBuffer
      BY <1>3, <1>10, <2>1 DEF SendFails, h
    <3> QED BY <1>2, <1>4, <3>1, ConcatProperties, IdsOfConcat
  <2>2. CASE ~socket
    <3>1. k = 0 /\ wire' = wire /\ inBuffer' = inBuffer
      BY <1>3, <2>2 DEF SendFails
    <3>2. h = <<>>
      BY <1>4, <3>1, EmptySeq
    <3> QED BY <1>2, <3>1, <3>2, IdsOfNone
  <2> QED BY <2>1, <2>2
<1>11. WireExact'
  <2>1. Ids(q) = Ids(h) \union Ids(t) /\ queue'.packets = t
    BY <1>2, <1>3, IdsOfSplit DEF h, t
  <2> QED BY <1>3, <1>6, <1>7, <1>10, <2>1 DEF AInv, WireExact, Buffered
<1> QED BY <1>1, <1>8, <1>9, <1>11 DEF AInv

LEMMA NextAInv == AInv /\ [Next]_vars => AInv'
<1> SUFFICES ASSUME AInv, [Next]_vars PROVE AInv'
  OBVIOUS
<1>1. CASE Next
  BY <1>1, ConnectCounts, FlushDeliversCounts, FlushFailsCounts, ReconnectCounts,
     DisconnectCounts, CloseCounts, TickCounts, SubmitCounts DEF Next, Step, Flush
<1>2. CASE UNCHANGED vars
  <2>1. IInv'
    BY <1>2, NextIInv DEF AInv
  <2> QED BY <1>2, <2>1 DEF AInv, BytesExact, CountsExact, WireExact, Buffered, vars,
                            sessionVars, transportVars
<1> QED BY <1>1, <1>2

(* PacketQueue's byte counter is the length of what is queued, StreamMetrics
   account for every submitted packet, and without a write buffer every packet
   is on the wire, queued or knowingly discarded: for every capacity, packet
   sizes, drop policy, transport and reconnect budget. *)
THEOREM AccountingIsExact == Spec => []AccountingExact
<1>1. AInv => AccountingExact
  BY DEF AInv, BytesExact, CountsExact, WireExact, AccountingExact
<1> QED BY <1>1, InitAInv, NextAInv, PTL DEF Spec

-----------------------------------------------------------------------------
(* The session implements PacketDelivery. *)

Pending == Ids(inBuffer) \union Ids(queue.packets)
IdSeq(s) == [i \in DOMAIN s |-> s[i].id]

LEMMA IdSeqProperties ==
    ASSUME NEW s \in Seq(Packet)
    PROVE  /\ IdSeq(s) \in Seq(Nat) /\ Len(IdSeq(s)) = Len(s)
           /\ DOMAIN IdSeq(s) = 1..Len(s) /\ Len(s) \in Nat
           /\ \A i \in 1..Len(s) : IdSeq(s)[i] = s[i].id
           /\ Range(IdSeq(s)) = Ids(s)
<1>1. Len(s) \in Nat /\ DOMAIN s = 1..Len(s)
  BY LenProperties
<1>2. \A i \in 1..Len(s) : s[i].id \in Nat
  <2>1. \A i \in 1..Len(s) : s[i] \in Packet
    BY ElementOfSeq
  <2> QED BY <2>1 DEF Packet
<1>3. IdSeq(s) = [i \in 1..Len(s) |-> s[i].id]
  BY <1>1 DEF IdSeq
<1>4. IdSeq(s) \in [1..Len(s) -> Nat]
  BY <1>2, <1>3
<1>5. IdSeq(s) \in Seq(Nat) /\ Len(IdSeq(s)) = Len(s)
  BY <1>1, <1>2, <1>3, IsASeq
<1>6. Range(IdSeq(s)) = Ids(s)
  BY <1>1, <1>3 DEF Range, Ids
<1> QED BY <1>1, <1>3, <1>5, <1>6

LEMMA IdSeqOfConcat ==
    ASSUME NEW s \in Seq(Packet), NEW t \in Seq(Packet)
    PROVE  IdSeq(s \o t) = IdSeq(s) \o IdSeq(t)
<1> DEFINE u == s \o t
           a == IdSeq(s)
           b == IdSeq(t)
           c == IdSeq(u)
<1>1. /\ u \in Seq(Packet) /\ Len(u) = Len(s) + Len(t)
      /\ \A i \in 1..(Len(s) + Len(t)) :
            u[i] = IF i <= Len(s) THEN s[i] ELSE t[i - Len(s)]
  BY ConcatProperties
<1>2. /\ a \in Seq(Nat) /\ Len(a) = Len(s) /\ Len(s) \in Nat
      /\ \A i \in 1..Len(s) : a[i] = s[i].id
  BY IdSeqProperties
<1>3. /\ b \in Seq(Nat) /\ Len(b) = Len(t) /\ Len(t) \in Nat
      /\ \A i \in 1..Len(t) : b[i] = t[i].id
  BY IdSeqProperties
<1>4. /\ c \in Seq(Nat) /\ Len(c) = Len(u)
      /\ \A i \in 1..Len(u) : c[i] = u[i].id
  BY <1>1, IdSeqProperties
<1> HIDE DEF u, a, b, c
<1> DEFINE d == a \o b
<1>5. /\ d \in Seq(Nat) /\ Len(d) = Len(a) + Len(b)
      /\ \A i \in 1..(Len(a) + Len(b)) :
            d[i] = IF i <= Len(a) THEN a[i] ELSE b[i - Len(a)]
  BY <1>2, <1>3, ConcatProperties
<1> HIDE DEF d
<1>6. \A i \in 1..Len(c) : c[i] = d[i]
  <2>1. TAKE i \in 1..Len(c)
  <2>2. i \in 1..(Len(s) + Len(t)) /\ c[i] = u[i].id
    BY <1>1, <1>4
  <2>3. CASE i <= Len(s)
    <3>1. i \in 1..Len(s) /\ i \in 1..(Len(a) + Len(b)) /\ i <= Len(a)
      BY <1>2, <1>3, <2>2, <2>3
    <3>2. u[i] = s[i] /\ d[i] = a[i] /\ a[i] = s[i].id
      BY <1>1, <1>2, <1>5, <2>2, <2>3, <3>1
    <3> QED BY <2>2, <3>2
  <2>4. CASE ~ (i <= Len(s))
    <3>1. i - Len(s) \in 1..Len(t)
      BY <1>2, <1>3, <2>2, <2>4
    <3> QED BY <1>1, <1>2, <1>3, <1>5, <2>2, <2>4, <3>1
  <2> QED BY <2>3, <2>4
<1>7. c = d
  BY <1>1, <1>2, <1>3, <1>4, <1>5, <1>6, SeqEqual
<1> QED BY <1>7 DEF a, b, c, d, u

LEMMA IdsAreFinite ==
    ASSUME NEW s \in Seq(Packet)
    PROVE  IsFiniteSet(Ids(s))
<1>1. Len(s) \in Nat /\ DOMAIN s = 1..Len(s)
  BY LenProperties
<1>2. IsFiniteSet(1..Len(s))
  BY <1>1, FS_Interval
<1> DEFINE f == [i \in 1..Len(s) |-> s[i].id]
<1>3. f \in Surjection(1..Len(s), Ids(s))
  BY <1>1 DEF Surjection, Ids
<1> HIDE DEF f
<1> QED BY <1>2, <1>3, FS_Surjection

(* Increasing ids of a finite set are no more than the set has members. *)
LEMMA IncreasingIsShort ==
    ASSUME NEW S, IsFiniteSet(S), NEW s \in Seq(Packet), Increasing(s), Ids(s) \subseteq S
    PROVE  IdSeq(s) \in SeqOf(S, Cardinality(S))
<1> DEFINE f == IdSeq(s)
<1>1. /\ Len(s) \in Nat /\ DOMAIN f = 1..Len(s)
      /\ \A i \in 1..Len(s) : f[i] = s[i].id
      /\ DOMAIN s = 1..Len(s)
  BY IdSeqProperties, LenProperties
<1>2. f \in [1..Len(s) -> S]
  <2>1. \A i \in 1..Len(s) : s[i].id \in S
    BY <1>1 DEF Ids
  <2>2. f = [i \in 1..Len(s) |-> s[i].id]
    BY <1>1 DEF IdSeq
  <2> QED BY <2>1, <2>2
<1>3. \A i, j \in 1..Len(s) : i # j => f[i] # f[j]
  <2>1. SUFFICES ASSUME NEW i \in 1..Len(s), NEW j \in 1..Len(s), i < j
                 PROVE  f[i] # f[j]
    BY <1>1
  <2>2. s[i].id < s[j].id /\ s[i].id \in Nat /\ s[j].id \in Nat
    <3>1. s[i] \in Packet /\ s[j] \in Packet
      BY ElementOfSeq
    <3> QED BY <1>1, <2>1, <3>1 DEF Increasing, Packet
  <2> QED BY <1>1, <2>2
<1> HIDE DEF f
<1>4. f \in Injection(1..Len(s), S)
  <2>1. IsInjective(f)
    BY <1>1, <1>3 DEF IsInjective
  <2> QED BY <1>2, <2>1 DEF Injection
<1>5. Cardinality(1..Len(s)) <= Cardinality(S)
  BY <1>4, FS_Injection
<1>6. Cardinality(1..Len(s)) = Len(s) /\ Cardinality(S) \in Nat
  <2>1. Cardinality(1..Len(s)) = IF 1 > Len(s) THEN 0 ELSE Len(s) - 1 + 1
    BY <1>1, FS_Interval
  <2>2. Cardinality(S) \in Nat
    BY FS_CardinalityType
  <2> QED BY <1>1, <2>1, <2>2
<1>7. Len(s) \in 0..Cardinality(S)
  BY <1>1, <1>5, <1>6
<1> QED BY <1>2, <1>7 DEF SeqOf, f

(* The library's operators, as PacketDelivery uses them, are the library's. *)
LEMMA DeliveryOperators ==
    /\ \A S : Delivery!Cardinality(S) = Cardinality(S)
    /\ \A S, n : Delivery!SeqOf(S, n) = SeqOf(S, n)
    /\ \A f : Delivery!Range(f) = Range(f)
<1>1. \A S : Delivery!Cardinality(S) = Cardinality(S)
  BY Zenon DEF Delivery!Cardinality, Cardinality
<1>2. \A S, n : Delivery!SeqOf(S, n) = SeqOf(S, n)
  BY Zenon DEF Delivery!SeqOf, SeqOf
<1>3. \A f : Delivery!Range(f) = Range(f)
  BY Zenon DEF Delivery!Range, Range
<1> QED BY <1>1, <1>2, <1>3

(* The oldest pending packets are handed over or lost, all but `kept`. *)
HandsAllBut(kept) ==
    \E sent \in SeqOf(Pending, Cardinality(Pending)), lost \in SUBSET Pending :
        /\ Delivery!Hands(sent, lost)
        /\ Pending \ (Range(sent) \union lost) = kept

(* The session hands `sent` to the network and loses `lost`, both ahead of what
   stays pending. *)
LEMMA SessionHands ==
    ASSUME NEW sent \in Seq(Packet), NEW lost \in Seq(Packet), NEW kept \in Seq(Packet),
           IInv, Pending = Ids(sent) \union Ids(lost) \union Ids(kept),
           Increasing(sent), Before(sent, kept), Before(lost, kept),
           lost = <<>> \/ Buffered, wire' = wire \o sent
    PROVE  HandsAllBut(Ids(kept))
<1>1. queue.packets \in Seq(Packet) /\ inBuffer \in Seq(Packet) /\ wire \in Seq(Packet)
  BY DEF IInv, TypeOK
<1>2. IsFiniteSet(Pending)
  BY <1>1, IdsAreFinite, FS_Union DEF Pending
<1>3. IdSeq(sent) \in SeqOf(Pending, Cardinality(Pending))
  BY <1>2, IncreasingIsShort
<1>4. Range(IdSeq(sent)) = Ids(sent)
  BY IdSeqProperties
<1>5. \A old \in Ids(sent) \union Ids(lost), young \in Ids(kept) : old < young
  BY DEF Ids, Before
<1>6. \A n \in Ids(kept) : n \in Nat
  BY IdsAreNat
<1>7. Pending \ (Ids(sent) \union Ids(lost)) = Ids(kept)
  <2>1. \A n \in Ids(kept) : n \notin Ids(sent) \union Ids(lost)
    BY <1>5, <1>6
  <2> QED BY <2>1
<1>8. Delivery!Increasing(IdSeq(sent))
  <2>1. /\ DOMAIN IdSeq(sent) = DOMAIN sent
        /\ \A i \in DOMAIN sent : IdSeq(sent)[i] = sent[i].id
    BY DEF IdSeq
  <2> HIDE DEF IdSeq
  <2> QED BY <2>1 DEF Delivery!Increasing, Increasing
<1>9. Ids(lost) = {} \/ Buffered
  BY IdsOfNone
<1>10. IdSeq(wire') = IdSeq(wire) \o IdSeq(sent)
  BY <1>1, IdSeqOfConcat
<1>11. \A old \in Range(IdSeq(sent)) \union Ids(lost),
          young \in Pending \ (Range(IdSeq(sent)) \union Ids(lost)) : old < young
  BY <1>4, <1>5, <1>7
<1>12. Delivery!Hands(IdSeq(sent), Ids(lost))
  <2>1. /\ IdSeq(wire') = [i \in DOMAIN wire' |-> wire'[i].id]
        /\ IdSeq(wire) = [i \in DOMAIN wire |-> wire[i].id]
    BY DEF IdSeq
  <2> HIDE DEF IdSeq
  <2> QED BY <1>8, <1>9, <1>10, <1>11, <2>1, DeliveryOperators DEF Delivery!Hands, Pending
<1>13. Ids(lost) \in SUBSET Pending
  OBVIOUS
<1>14. Pending \ (Range(IdSeq(sent)) \union Ids(lost)) = Ids(kept)
  BY <1>4, <1>7
<1> DEFINE s == IdSeq(sent)
           l == Ids(lost)
           k == Ids(kept)
<1> HIDE DEF s, l, k
<1>15. /\ s \in SeqOf(Pending, Cardinality(Pending)) /\ l \in SUBSET Pending
       /\ Delivery!Hands(s, l)
       /\ Pending \ (Range(s) \union l) = k
  BY <1>3, <1>12, <1>13, <1>14 DEF s, l, k
<1>16. HandsAllBut(k)
  BY <1>15, Zenon DEF HandsAllBut
<1> QED BY <1>16 DEF k

(* Writing the head of the buffer, and dropping its tail, as a delivery. *)
LEMMA DropStreamHands ==
    ASSUME AInv, DropStream
    PROVE  HandsAllBut(Ids(queue.packets))
<1>1. PICK n \in 0..Len(inBuffer) : wire' = wire \o Take(inBuffer, n)
  BY DEF DropStream
<1> DEFINE h == Take(inBuffer, n)
           t == Drop(inBuffer, n)
           q == queue.packets
<1>2. q \in Seq(Packet) /\ inBuffer \in Seq(Packet)
  BY DEF AInv, IInv, TypeOK
<1>3. /\ Increasing(inBuffer) /\ Before(inBuffer, q)
  BY DEF AInv, IInv, InOrderInv, Consecutive
<1>4. Piece(h, inBuffer) /\ Piece(t, inBuffer)
  BY <1>2, TakeDropPieces
<1>5. h \in Seq(Packet) /\ t \in Seq(Packet)
  BY <1>4 DEF Piece
<1>6. Ids(inBuffer) = Ids(h) \union Ids(t)
  BY <1>2, IdsOfSplit
<1>7. t = <<>> \/ Buffered
  <2>1. SUFFICES ASSUME ~Buffered PROVE t = <<>>
    OBVIOUS
  <2>2. inBuffer = <<>> /\ Len(<<>>) = 0
    BY <2>1, EmptySeq DEF AInv, WireExact
  <2>3. n \in 0..Len(inBuffer) /\ Len(t) = Len(inBuffer) - n
    BY <1>2, DropProperties
  <2>4. Len(t) = 0
    BY <2>2, <2>3
  <2> QED BY <1>5, <2>4, EmptySeq
<1> HIDE DEF h, t
<1>8. Increasing(h) /\ Before(h, q) /\ Before(t, q)
  BY <1>2, <1>3, <1>4, PieceOrdered
<1>9. Pending = Ids(h) \union Ids(t) \union Ids(q)
  BY <1>6 DEF Pending
<1>10. wire' = wire \o h /\ IInv
  BY <1>1 DEF AInv, h
<1> QED BY <1>2, <1>5, <1>7, <1>8, <1>9, <1>10, SessionHands

(* A hand-over is a Deliver of the abstract session while the session is open,
   and its Close when it ends there. *)
LEMMA HandsIsDeliver ==
    ASSUME HandsAllBut(Pending'), UNCHANGED <<nextId, setup>>,
           state # "Closed", state' # "Closed"
    PROVE  Delivery!Next
<1>1. PICK sent \in SeqOf(Pending, Cardinality(Pending)), lost \in SUBSET Pending :
         /\ Delivery!Hands(sent, lost)
         /\ Pending' = Pending \ (Range(sent) \union lost)
  BY Zenon DEF HandsAllBut
<1>2. /\ sent \in Delivery!SeqOf(Pending, Delivery!Cardinality(Pending))
      /\ Pending' = Pending \ (Delivery!Range(sent) \union lost)
  BY <1>1, DeliveryOperators
<1>3. Delivery!Deliver
  BY <1>1, <1>2 DEF Delivery!Deliver, Pending
<1> QED BY <1>3 DEF Delivery!Next, Buffered, DropPolicy

LEMMA HandsIsClose ==
    ASSUME NEW kept, HandsAllBut(kept), Pending' = {}, UNCHANGED <<nextId, setup>>,
           state # "Closed", state' = "Closed"
    PROVE  Delivery!Next
<1>1. PICK sent \in SeqOf(Pending, Cardinality(Pending)), lost \in SUBSET Pending :
         Delivery!Hands(sent, lost)
  BY Zenon DEF HandsAllBut
<1>2. sent \in Delivery!SeqOf(Pending, Delivery!Cardinality(Pending))
  BY <1>1, DeliveryOperators
<1>3. Delivery!Close
  BY <1>1, <1>2 DEF Delivery!Close, Pending
<1> QED BY <1>3 DEF Delivery!Next, Buffered, DropPolicy

(* A step that moves no packet. *)
Stutters == UNCHANGED <<queue, inBuffer, wire, nextId, setup>> /\ (state' = "Closed" <=> state = "Closed")
Delivers == Delivery!Next \/ Stutters

LEMMA DropStreamDelivers ==
    ASSUME AInv, DropStream, UNCHANGED <<queue, nextId, setup>>,
           state # "Closed", state' # "Closed"
    PROVE  Delivers
<1>1. Pending' = Ids(queue.packets)
  BY IdsOfNone DEF Pending, DropStream
<1> QED BY <1>1, DropStreamHands, HandsIsDeliver DEF Delivers

LEMMA ConnectDelivers == AInv /\ Connect /\ UNCHANGED setup => Delivers
<1> SUFFICES ASSUME AInv, Connect, UNCHANGED setup PROVE Delivers
  OBVIOUS
<1>1. CASE TransportConnects /\ state' = "Connected"
  BY <1>1, DropStreamDelivers DEF Connect, Connectable, TransportConnects
<1>2. CASE TransportRefuses /\ UNCHANGED <<state, wait>>
  BY <1>2 DEF Connect, TransportRefuses, transportVars, Delivers, Stutters
<1> QED BY <1>1, <1>2 DEF Connect

LEMMA ReconnectDelivers == AInv /\ Reconnect /\ UNCHANGED setup => Delivers
<1> SUFFICES ASSUME AInv, Reconnect, UNCHANGED setup PROVE Delivers
  OBVIOUS
<1>1. CASE ReconnectExhausted
  BY <1>1 DEF ReconnectExhausted, Connectable, transportVars, Delivers, Stutters
<1>2. CASE ReconnectAttempt
  <2>1. CASE TransportConnects /\ state' = "Connected"
    BY <1>2, <2>1, DropStreamDelivers DEF ReconnectAttempt, Connectable, TransportConnects
  <2>2. CASE TransportRefuses /\ state' \in {"Failed", state}
    BY <1>2, <2>2 DEF ReconnectAttempt, Connectable, TransportRefuses, transportVars,
       Delivers, Stutters
  <2> QED BY <1>2, <2>1, <2>2 DEF ReconnectAttempt
<1> QED BY <1>1, <1>2 DEF Reconnect

LEMMA DisconnectDelivers == AInv /\ Disconnect /\ UNCHANGED setup => Delivers
BY DropStreamDelivers DEF Disconnect, TransportDisconnects

LEMMA CloseDelivers == AInv /\ Close /\ UNCHANGED setup => Delivers
<1> SUFFICES ASSUME AInv, Close, UNCHANGED setup PROVE Delivers
  OBVIOUS
<1>1. DropStream /\ inBuffer' = <<>> /\ queue'.packets = <<>>
  BY DEF Close, TransportDisconnects, DropStream, EmptyQueue
<1>2. Pending' = {}
  BY <1>1, IdsOfNone DEF Pending
<1> QED BY <1>1, <1>2, DropStreamHands, HandsIsClose DEF Close, Delivers

LEMMA SubmitDelivers ==
    ASSUME NEW size \in Sizes
    PROVE  AInv /\ Submit(size) /\ UNCHANGED setup => Delivers
<1> SUFFICES ASSUME AInv, Submit(size), UNCHANGED setup PROVE Delivers
  OBVIOUS
<1> DEFINE p == [id |-> nextId + 1, bytes |-> size]
           q == queue.packets
<1>1. q \in Seq(Packet) /\ nextId \in Nat
  BY SessionTypes DEF AInv
<1>2. p \in Packet /\ p.id = nextId + 1
  BY <1>1, SizesAssumption DEF Packet
<1>3. /\ state # "Closed" /\ nextId' = nextId + 1
      /\ UNCHANGED <<state, inBuffer, wire>>
  BY DEF Submit, transportVars
<1> HIDE DEF p
<1>4. CASE \/ Pending' = Pending
           \/ \E kept \in SUBSET Pending :
                /\ kept = Pending \/ DropPolicy = "DropOldest"
                /\ Pending' = kept \union {nextId'}
  <2>1. [i \in DOMAIN wire |-> wire[i].id]' = [i \in DOMAIN wire |-> wire[i].id]
    BY <1>3
  <2>2. Delivery!Accept
    BY <1>3, <1>4, <2>1 DEF Delivery!Accept, Pending
  <2> QED BY <2>2 DEF Delivery!Next, Delivers, Buffered, DropPolicy
<1>5. CASE queue' = Enqueue(queue, p)
  <2>1. Ids(queue'.packets) = Ids(q) \union {p.id}
    BY <1>1, <1>2, <1>5, IdsOfAppend DEF Enqueue
  <2>2. Pending' = Pending \union {nextId'}
    BY <1>2, <1>3, <2>1 DEF Pending
  <2> QED BY <1>4, <2>2
<1>6. CASE UNCHANGED queue
  BY <1>3, <1>4, <1>6 DEF Pending
<1>7. ASSUME DropPolicy = "DropOldest", NEW n \in 0..Len(q),
             queue' = Enqueue(PopOldest(queue, n), p)
      PROVE  Delivers
  <2>1. queue'.packets = Append(Drop(q, n), p) /\ Drop(q, n) \in Seq(Packet)
    BY <1>1, <1>7, DropProperties DEF Enqueue, PopOldest
  <2>2. Ids(queue'.packets) = Ids(Drop(q, n)) \union {p.id}
    BY <1>2, <2>1, IdsOfAppend
  <2>3. Ids(Drop(q, n)) \subseteq Ids(q)
    BY <1>1, IdsOfSplit
  <2> DEFINE kept == Ids(inBuffer) \union Ids(Drop(q, n))
  <2>4. kept \in SUBSET Pending /\ Pending' = kept \union {nextId'}
    BY <1>2, <1>3, <2>2, <2>3 DEF Pending
  <2> QED BY <1>4, <1>7, <2>4
<1> QED BY <1>5, <1>6, <1>7 DEF Submit, p

LEMMA FlushDeliversDelivers == AInv /\ FlushDelivers /\ UNCHANGED setup => Delivers
<1> SUFFICES ASSUME AInv, FlushDelivers, UNCHANGED setup PROVE Delivers
  OBVIOUS
<1> DEFINE q == queue.packets
<1>1. /\ q \in Seq(Packet) /\ <<>> \in Seq(Packet) /\ inBuffer = <<>> /\ Increasing(q)
      /\ IInv
  BY SessionTypes, EmptySeq DEF AInv, IInv, InOrderInv, Consecutive, FlushDelivers
<1>2. /\ state = "Connected" /\ wire' = wire \o q /\ queue'.packets = <<>>
      /\ UNCHANGED <<state, inBuffer, nextId>>
  BY DEF FlushDelivers, SendsAll, EmptyQueue
<1>3. Pending = Ids(q) \union Ids(<<>>) \union Ids(<<>>) /\ Pending' = Ids(<<>>)
  BY <1>1, <1>2, IdsOfNone DEF Pending
<1>4. Before(q, <<>>) /\ Before(<<>>, <<>>)
  BY EmptyIsOrdered
<1> HIDE DEF q
<1>5. HandsAllBut(Ids(<<>>))
  BY <1>1, <1>2, <1>3, <1>4, SessionHands
<1> QED BY <1>2, <1>3, <1>5, HandsIsDeliver DEF Delivers

(* Of a failed batch the first n packets were sent; the others are still in the
   buffer or back in the queue. *)
LEMMA FlushFailsDelivers == AInv /\ FlushFails /\ UNCHANGED setup => Delivers
<1> SUFFICES ASSUME AInv, FlushFails, UNCHANGED setup PROVE Delivers
  OBVIOUS
<1> DEFINE q == queue.packets
<1>1. /\ q \in Seq(Packet) /\ <<>> \in Seq(Packet) /\ inBuffer = <<>> /\ IInv
      /\ Increasing(q) /\ wire \in Seq(Packet)
  BY SessionTypes, EmptySeq DEF AInv, IInv, InOrderInv, Consecutive, FlushFails
<1>2. PICK k \in 0..Len(q) : SendFails(q, k) /\ queue'.packets = Drop(q, k)
  BY FlushFailsRequeues DEF AInv
<1>3. state = "Connected" /\ state' = "Disconnected" /\ nextId' = nextId
  BY DEF FlushFails
<1> DEFINE h == Take(q, k)
           t == Drop(q, k)
<1> HIDE DEF q
<1>4. /\ h \in Seq(Packet) /\ Piece(h, q) /\ Piece(t, q) /\ Before(h, t) /\ Increasing(h)
      /\ t \in Seq(Packet)
  <2>1. Piece(h, q) /\ Piece(t, q) /\ (Increasing(q) => Before(h, t))
    BY <1>1, TakeDropPieces
  <2>2. h \in Seq(Packet) /\ t \in Seq(Packet)
    BY <2>1 DEF Piece
  <2> HIDE DEF h, t
  <2>3. Increasing(h)
    BY <1>1, <2>1, PieceOrdered
  <2> QED BY <1>1, <2>1, <2>2, <2>3
<1> USE DEF q
<1>5. Pending = Ids(h) \union Ids(t)
  BY <1>1, IdsOfSplit, IdsOfNone DEF Pending
<1> HIDE DEF h, t, q
<1>6. CASE ~socket
  <2>1. wire' = wire /\ inBuffer' = inBuffer /\ k = 0
    BY <1>2, <1>6 DEF SendFails
  <2>2. queue'.packets = queue.packets
    BY <1>1, <1>2, <2>1, SubSeqFull DEF Drop, q
  <2>3. Pending' = Pending
    BY <2>1, <2>2 DEF Pending
  <2>4. Pending = Ids(<<>>) \union Ids(<<>>) \union Ids(queue.packets) /\ wire' = wire \o <<>>
    BY <1>1, <2>1, IdsOfNone, ConcatEmptySeq DEF Pending
  <2>5. Increasing(<<>>) /\ Before(<<>>, queue.packets)
    BY EmptyIsOrdered
  <2>6. HandsAllBut(Ids(queue.packets))
    BY <1>1, <2>4, <2>5, SessionHands DEF q
  <2>7. Pending' = Ids(queue.packets)
    BY <1>1, <2>3, IdsOfNone DEF Pending
  <2> QED BY <1>3, <2>6, <2>7, HandsIsDeliver DEF Delivers
<1>7. CASE socket /\ ~Buffered
  <2>1. wire' = wire \o h /\ inBuffer' = <<>>
    BY <1>1, <1>2, <1>7 DEF SendFails, h
  <2>2. Pending = Ids(h) \union Ids(<<>>) \union Ids(t) /\ Pending' = Ids(t)
    BY <1>2, <1>5, <2>1, IdsOfNone DEF Pending, t
  <2>3. Before(<<>>, t)
    BY EmptyIsOrdered
  <2>4. HandsAllBut(Ids(t))
    BY <1>1, <1>4, <2>1, <2>2, <2>3, SessionHands
  <2> QED BY <1>3, <2>2, <2>4, HandsIsDeliver DEF Delivers
<1>8. CASE socket /\ Buffered
  <2>1. PICK n \in 0..k : wire' = wire \o Take(h, n) /\ inBuffer' = Drop(h, n)
    BY <1>2, <1>8 DEF SendFails, h
  <2>2. n \in 0..Len(h)
    <3>1. DOMAIN h = 1..k /\ k \in Nat /\ DOMAIN h = 1..Len(h) /\ Len(h) \in Nat
      BY <1>1, <1>4, TakeProperties, LenProperties DEF h
    <3>2. Len(h) = k
      BY <3>1
    <3> QED BY <3>1, <3>2
  <2> DEFINE a == Take(h, n)
             b == Drop(h, n)
             c == b \o t
  <2>3. /\ a \in Seq(Packet) /\ b \in Seq(Packet) /\ Piece(a, h) /\ Piece(b, h)
        /\ Increasing(a) /\ Before(a, b) /\ Ids(h) = Ids(a) \union Ids(b)
    BY <1>4, <2>2, TakeDropPieces, PieceOrdered, IdsOfSplit DEF Piece
  <2> HIDE DEF a, b
  <2>4. Before(a, t)
    BY <1>4, <2>3, PieceOrdered
  <2>5. c \in Seq(Packet) /\ Ids(c) = Ids(b) \union Ids(t) /\ Before(a, c)
    <3>1. c \in Seq(Packet) /\ Ids(c) = Ids(b) \union Ids(t)
      BY <1>4, <2>3, ConcatProperties, IdsOfConcat
    <3>2. Before(a, c)
      BY <1>4, <2>3, <2>4, ConcatElements DEF Before
    <3> QED BY <3>1, <3>2
  <2> HIDE DEF c
  <2>6. /\ Pending = Ids(a) \union Ids(<<>>) \union Ids(c)
        /\ Pending' = Ids(c) /\ wire' = wire \o a
    BY <1>2, <1>5, <2>1, <2>3, <2>5, IdsOfNone DEF Pending, t, a, b
  <2>7. Before(<<>>, c)
    BY EmptyIsOrdered
  <2>8. HandsAllBut(Ids(c))
    BY <1>1, <2>3, <2>5, <2>6, <2>7, SessionHands
  <2> QED BY <1>3, <2>6, <2>8, HandsIsDeliver DEF Delivers
<1> QED BY <1>6, <1>7, <1>8

LEMMA NextDelivers == AInv /\ [Next]_vars => Delivers
<1> SUFFICES ASSUME AInv, [Next]_vars PROVE Delivers
  OBVIOUS
<1>1. CASE Next
  <2>1. UNCHANGED setup
    BY <1>1 DEF Next
  <2>2. CASE Tick
    BY <2>1, <2>2 DEF Tick, transportVars, Delivers, Stutters
  <2>3. CASE \E size \in Sizes : Submit(size)
    BY <2>1, <2>3, SubmitDelivers
  <2>4. CASE Flush
    BY <2>1, <2>4, FlushDeliversDelivers, FlushFailsDelivers DEF Flush
  <2>5. CASE Connect \/ Reconnect \/ Disconnect \/ Close
    BY <2>1, <2>5, ConnectDelivers, ReconnectDelivers, DisconnectDelivers, CloseDelivers
  <2> QED BY <1>1, <2>2, <2>3, <2>4, <2>5 DEF Next, Step
<1>2. CASE UNCHANGED vars
  BY <1>2 DEF vars, sessionVars, transportVars, Delivers, Stutters
<1> QED BY <1>1, <1>2

(* What a reader of the abstract session sees of the session. *)
DeliveryStep ==
    [Delivery!Next]_<<Ids(inBuffer) \union Ids(queue.packets),
                      [i \in DOMAIN wire |-> wire[i].id], nextId, state = "Closed",
                      Buffered, DropPolicy = "DropOldest">>

LEMMA DeliversIsDeliveryStep == Delivers => DeliveryStep
<1>1. CASE Delivery!Next
  BY <1>1 DEF DeliveryStep
<1>2. CASE Stutters
  <2>1. /\ (Ids(inBuffer) \union Ids(queue.packets))' = Ids(inBuffer) \union Ids(queue.packets)
        /\ [i \in DOMAIN wire |-> wire[i].id]' = [i \in DOMAIN wire |-> wire[i].id]
        /\ nextId' = nextId
        /\ Buffered' = Buffered /\ (DropPolicy = "DropOldest")' = (DropPolicy = "DropOldest")
    BY <1>2 DEF Stutters, Buffered, DropPolicy
  <2>2. (state = "Closed")' = (state = "Closed")
    BY <1>2 DEF Stutters
  <2> QED BY <2>1, <2>2 DEF DeliveryStep
<1> QED BY <1>1, <1>2 DEF Delivers

LEMMA InitDelivers == Init => Delivery!Init
<1> SUFFICES ASSUME Init PROVE Delivery!Init
  OBVIOUS
<1>1. Ids(<<>>) = {} /\ inBuffer = <<>> /\ queue.packets = <<>> /\ wire = <<>>
  BY IdsOfNone DEF Init, EmptyQueue
<1>2. [i \in DOMAIN wire |-> wire[i].id] = <<>>
  BY <1>1
<1>3. Buffered \in BOOLEAN
  BY SetupsAssumption DEF Init, Buffered
<1> QED BY <1>1, <1>2, <1>3 DEF Init, Delivery!Init

(* The session is an in-order delivery service whatever the network does: over
   any number of failed batches, evictions and reconnects each of its steps
   delivers, accepts, closes or changes nothing its producer can see, a packet
   leaving only by reaching the network, by the drop policy, by closing, or, over
   the buffered transport, with the buffer of a lost connection. *)
THEOREM SessionImplementsDelivery == Spec => ImplementsDelivery
<1>1. AInv /\ [Next]_vars => DeliveryStep
  BY NextDelivers, DeliversIsDeliveryStep
<1> QED BY <1>1, InitAInv, NextAInv, InitDelivers, PTL
        DEF Spec, ImplementsDelivery, Delivery!Spec, DeliveryStep

-----------------------------------------------------------------------------
(* The fan-out of packets to the replay history, the recording and the stream,
   which hands them to sessions like the one above. *)

(* What the fan-out assumes of its constants. *)
LEMMA Limits ==
    /\ ReplayBytes \in Nat \ {0}
    /\ ReplayDuration \in Nat \ {0}
    /\ ReplayPackets \in Nat \ {0}
    /\ StreamCapacity \in Nat \ {0}
    /\ VideoSizes \subseteq Nat
    /\ {MaxAudio, MaxTime, MaxPackets} \subseteq Nat
BY LimitsAssumption DEF FanOut!LimitsAreValid, FanOut!HistoryIsValid

Frames == [id : Nat, kind : {"Audio", "Key", "Inter"}, time : Nat, bytes : Nat]

LEMMA FramesAreSized == Sized(Frames)
BY DEF Sized, Frames

LEMMA SameBytes == \A s : FanOut!BytesOf(s) = TotalBytes(s)
BY DEF FanOut!BytesOf, TotalBytes

LEMMA SameSequences ==
    ASSUME NEW s
    PROVE  FanOut!Last(s) = s[Len(s)] /\ FanOut!ToSet(s) = {s[i] : i \in DOMAIN s}
BY DEF FanOut!Last, FanOut!ToSet

LEMMA DropElements ==
    ASSUME NEW P, NEW s \in Seq(P), NEW n \in 0..Len(s)
    PROVE  /\ Drop(s, n) \in Seq(P)
           /\ Len(Drop(s, n)) = Len(s) - n
           /\ \A i \in 1..(Len(s) - n) : Drop(s, n)[i] = s[n + i]
<1>1. Len(s) \in Nat /\ \A i \in (n + 1)..Len(s) : s[i] \in P
  BY LenProperties, ElementOfSeq
<1> DEFINE m == n + 1
           l == Len(s)
<1>2. m \in Int /\ l \in Int /\ \A i \in m..l : s[i] \in P
  BY <1>1
<1> HIDE DEF m, l
<1>3. /\ SubSeq(s, m, l) \in Seq(P)
      /\ Len(SubSeq(s, m, l)) = IF m <= l THEN l - m + 1 ELSE 0
      /\ \A i \in 1..(l - m + 1) : SubSeq(s, m, l)[i] = s[m + i - 1]
  BY <1>2, SubSeqProperties
<1> DEFINE e == SubSeq(s, m, l)
<1>4. e = Drop(s, n)
  BY DEF Drop, m, l
<1> HIDE DEF e
<1>5. e \in Seq(P) /\ Len(e) = l - n
  BY <1>1, <1>3 DEF e, m, l
<1>6. \A i \in 1..(l - n) : e[i] = s[n + i]
  <2>1. TAKE i \in 1..(l - n)
  <2>2. i \in 1..(l - m + 1) /\ m + i - 1 = n + i
    BY <1>1 DEF m, l
  <2> QED BY <1>3, <2>2 DEF e
<1>7. Len(s) = l
  BY DEF l
<1> QED BY <1>4, <1>5, <1>6, <1>7

LEMMA SameElements ==
    ASSUME NEW P, NEW s \in Seq(P), NEW t \in Seq(P), Len(s) = Len(t),
           \A i \in 1..Len(s) : s[i] = t[i]
    PROVE  s = t
BY SeqEqual

(* Dropping twice, and dropping from what goes on with p. *)
LEMMA DropOfDrop ==
    ASSUME NEW P, NEW s \in Seq(P), NEW n \in 0..Len(s), NEW m \in 0..(Len(s) - n)
    PROVE  Drop(Drop(s, n), m) = Drop(s, n + m)
<1> DEFINE l == Len(s)
           e == Drop(s, n)
           x == Drop(e, m)
           y == Drop(s, n + m)
<1>1. l \in Nat /\ n \in Nat /\ m \in Nat /\ n + m \in 0..l /\ n + m \in 0..Len(s)
  BY LenProperties
<1>2. e \in Seq(P) /\ Len(e) = l - n /\ \A i \in 1..(l - n) : e[i] = s[n + i]
  BY DropElements
<1>3. y \in Seq(P) /\ Len(y) = l - (n + m) /\ \A i \in 1..(l - (n + m)) : y[i] = s[n + m + i]
  BY <1>1, DropElements
<1> HIDE DEF e, y, l
<1>4. m \in 0..Len(e)
  BY <1>1, <1>2
<1>5. x \in Seq(P) /\ Len(x) = Len(e) - m /\ \A i \in 1..(Len(e) - m) : x[i] = e[m + i]
  BY <1>2, <1>4, DropElements
<1> HIDE DEF x
<1>6. Len(x) = Len(y)
  BY <1>1, <1>2, <1>3, <1>5
<1>7. \A i \in 1..Len(x) : x[i] = y[i]
  <2>1. TAKE i \in 1..Len(x)
  <2>2. i \in 1..(l - (n + m)) /\ i \in 1..(Len(e) - m) /\ m + i \in 1..(l - n)
        /\ n + (m + i) = n + m + i
    BY <1>1, <1>2, <1>5
  <2> QED BY <1>2, <1>3, <1>5, <2>2
<1>8. x = y
  BY <1>3, <1>5, <1>6, <1>7, SameElements
<1> QED BY <1>8 DEF x, y, e

LEMMA DropOfAppend ==
    ASSUME NEW P, NEW s \in Seq(P), NEW p \in P, NEW n \in 0..Len(s)
    PROVE  Drop(Append(s, p), n) = Append(Drop(s, n), p)
<1> DEFINE l == Len(s)
           t == Append(s, p)
           e == Drop(s, n)
           x == Drop(t, n)
           y == Append(e, p)
<1>1. l \in Nat /\ n \in Nat /\ n <= l
  BY LenProperties
<1>2. t \in Seq(P) /\ Len(t) = l + 1 /\ t[l + 1] = p /\ \A i \in 1..l : t[i] = s[i]
  BY AppendProperties
<1>3. e \in Seq(P) /\ Len(e) = l - n /\ \A i \in 1..(l - n) : e[i] = s[n + i]
  BY DropElements
<1> HIDE DEF t, e
<1>4. n \in 0..Len(t)
  BY <1>1, <1>2
<1>5. x \in Seq(P) /\ Len(x) = Len(t) - n /\ \A i \in 1..(Len(t) - n) : x[i] = t[n + i]
  BY <1>2, <1>4, DropElements
<1>6. y \in Seq(P) /\ Len(y) = Len(e) + 1 /\ y[Len(e) + 1] = p
      /\ \A i \in 1..Len(e) : y[i] = e[i]
  BY <1>3, AppendProperties
<1> HIDE DEF x, y, l
<1>7. Len(x) = Len(y)
  BY <1>1, <1>2, <1>3, <1>5, <1>6
<1>8. \A i \in 1..Len(x) : x[i] = y[i]
  <2>1. TAKE i \in 1..Len(x)
  <2>2. CASE i = l - n + 1
    <3>1. n + i = l + 1 /\ i \in 1..(Len(t) - n) /\ i = Len(e) + 1
      BY <1>1, <1>2, <1>3, <2>2
    <3> QED BY <1>2, <1>5, <1>6, <3>1
  <2>3. CASE i \in 1..(l - n)
    <3>1. n + i \in 1..l /\ i \in 1..(Len(t) - n) /\ i \in 1..Len(e)
      BY <1>1, <1>2, <1>3, <2>3
    <3>2. x[i] = t[n + i] /\ t[n + i] = s[n + i] /\ y[i] = e[i] /\ e[i] = s[n + i]
      BY <1>2, <1>3, <1>5, <1>6, <2>3, <3>1
    <3> QED BY <3>2
  <2>4. i = l - n + 1 \/ i \in 1..(l - n)
    BY <1>1, <1>2, <1>5
  <2> QED BY <2>2, <2>3, <2>4
<1>9. x = y
  BY <1>5, <1>6, <1>7, <1>8, SameElements
<1> QED BY <1>9 DEF x, y, t, e
-----------------------------------------------------------------------------
(* The replay history. *)

InTime(s) == \A i, j \in 1..Len(s) : i <= j => s[i].time <= s[j].time

(* A packet at p's time may follow s. *)
Precedes(s, p) == s # <<>> => s[Len(s)].time <= p.time

LEMMA FrameFields ==
    ASSUME NEW s \in Seq(Frames)
    PROVE  /\ Len(s) \in Nat
           /\ \A i \in 1..Len(s) : s[i].time \in Nat /\ s[i].bytes \in Nat
           /\ TotalBytes(s) \in Nat
           /\ s # <<>> <=> Len(s) # 0
<1>1. Len(s) \in Nat /\ \A i \in 1..Len(s) : s[i] \in Frames
  BY LenProperties, ElementOfSeq
<1>2. TotalBytes(s) \in Nat
  BY FramesAreSized, BytesAreNat
<1>3. s # <<>> <=> Len(s) # 0
  BY EmptySeq
<1> QED BY <1>1, <1>2, <1>3 DEF Frames

LEMMA WithinBounds ==
    ASSUME NEW s \in Seq(Frames)
    PROVE  FanOut!Within(s) <=>
              /\ TotalBytes(s) <= ReplayBytes
              /\ Len(s) <= ReplayPackets
              /\ s # <<>> => s[Len(s)].time - s[1].time <= ReplayDuration
<1>1. s # <<>> => Head(s) = s[1]
  OBVIOUS
<1> QED BY <1>1, SameBytes, SameSequences DEF FanOut!Within

(* What is within the bounds with one more packet was so without it, and so is
   what is left when the oldest go. *)
LEMMA WithinBeforeAppend ==
    ASSUME NEW s \in Seq(Frames), NEW p \in Frames, Precedes(s, p),
           FanOut!Within(Append(s, p))
    PROVE  FanOut!Within(s)
<1> DEFINE t == Append(s, p)
<1>1. t \in Seq(Frames) /\ Len(t) = Len(s) + 1 /\ t[Len(s) + 1] = p
      /\ \A i \in 1..Len(s) : t[i] = s[i]
  BY AppendProperties
<1>2. TotalBytes(t) = TotalBytes(s) + p.bytes
  BY FramesAreSized, BytesOfAppend
<1> HIDE DEF t
<1>3. /\ TotalBytes(t) <= ReplayBytes
      /\ Len(t) <= ReplayPackets
      /\ t # <<>> => t[Len(t)].time - t[1].time <= ReplayDuration
  BY <1>1, WithinBounds DEF t
<1>4. p.bytes \in Nat /\ p.time \in Nat
  BY DEF Frames
<1>5. TotalBytes(s) <= ReplayBytes /\ Len(s) <= ReplayPackets
  BY <1>1, <1>2, <1>3, <1>4, FrameFields, Limits
<1>6. ASSUME s # <<>> PROVE s[Len(s)].time - s[1].time <= ReplayDuration
  <2>1. Len(s) \in Nat \ {0} /\ t # <<>> /\ t[1] = s[1] /\ t[Len(t)] = p
    BY <1>1, <1>6, FrameFields
  <2>2. s[Len(s)].time \in Nat /\ s[1].time \in Nat
    BY <2>1, FrameFields
  <2>3. s[Len(s)].time <= p.time /\ p.time - s[1].time <= ReplayDuration
    BY <1>3, <1>6, <2>1 DEF Precedes
  <2> QED BY <1>4, <2>2, <2>3, Limits
<1> QED BY <1>5, <1>6, WithinBounds

LEMMA WithinEnd ==
    ASSUME NEW s \in Seq(Frames), InTime(s), FanOut!Within(s), NEW n \in 0..Len(s)
    PROVE  FanOut!Within(Drop(s, n))
<1> DEFINE e == Drop(s, n)
           l == Len(s)
<1>1. e \in Seq(Frames) /\ Len(e) = l - n /\ \A i \in 1..(l - n) : e[i] = s[n + i]
  BY DropElements
<1>2. TotalBytes(s) = TotalBytes(Take(s, n)) + TotalBytes(e)
  BY FramesAreSized, BytesOfSplit
<1>3. TotalBytes(Take(s, n)) \in Nat
  <2>1. l \in Nat /\ \A i \in 1..n : s[i] \in Frames
    BY LenProperties, ElementOfSeq
  <2>2. Take(s, n) \in Seq(Frames)
    BY <2>1, SubSeqProperties DEF Take
  <2> QED BY <2>2, FrameFields
<1> HIDE DEF e
<1>4. TotalBytes(e) \in Nat /\ l \in Nat /\ n \in Nat /\ n <= l
  BY <1>1, FrameFields
<1>5. TotalBytes(e) <= ReplayBytes /\ Len(e) <= ReplayPackets
  BY <1>1, <1>2, <1>3, <1>4, WithinBounds, Limits
<1>6. ASSUME e # <<>> PROVE e[Len(e)].time - e[1].time <= ReplayDuration
  <2>1. Len(e) # 0
    BY <1>1, <1>6, FrameFields
  <2>2. Len(e) \in 1..(l - n) /\ 1 \in 1..(l - n) /\ n + Len(e) = l /\ n + 1 \in 1..l
        /\ l \in 1..l /\ 1 \in 1..l /\ s # <<>>
    BY <1>1, <1>4, <2>1, FrameFields
  <2>3. e[Len(e)] = s[l] /\ e[1] = s[n + 1]
    BY <1>1, <2>2
  <2>4. s[1].time <= s[n + 1].time
    BY <1>4, <2>2 DEF InTime
  <2>5. s[1].time \in Nat /\ s[n + 1].time \in Nat /\ s[l].time \in Nat
    BY <2>2, FrameFields
  <2>6. s[l].time - s[1].time <= ReplayDuration
    BY <2>2, WithinBounds
  <2> DEFINE a == s[1].time
             b == s[n + 1].time
             c == s[l].time
  <2>7. a \in Nat /\ b \in Nat /\ c \in Nat /\ a <= b /\ c - a <= ReplayDuration
        /\ ReplayDuration \in Nat
    BY <2>4, <2>5, <2>6, Limits
  <2> HIDE DEF a, b, c
  <2>8. c - b <= ReplayDuration
    BY <2>7
  <2> QED BY <2>3, <2>8 DEF b, c
<1>7. FanOut!Within(e)
  BY <1>1, <1>5, <1>6, WithinBounds
<1> QED BY <1>7 DEF e

(* The loops of push stop where the packet fits: where the history is within its
   bounds with the packet in it. *)
LEMMA FitsIsWithin ==
    ASSUME NEW q \in Seq(Frames), NEW p \in Frames, NEW r,
           r.packets = q, r.bytes = TotalBytes(q)
    PROVE  FanOut!Fits(r, p) <=> FanOut!Within(Append(q, p))
<1> DEFINE t == Append(q, p)
<1>1. t \in Seq(Frames) /\ Len(t) = Len(q) + 1 /\ t[Len(q) + 1] = p /\ t # <<>>
      /\ \A i \in 1..Len(q) : t[i] = q[i]
  BY AppendProperties
<1>2. TotalBytes(t) = TotalBytes(q) + p.bytes
  BY FramesAreSized, BytesOfAppend
<1> HIDE DEF t
<1>3. p.bytes \in Nat /\ p.time \in Nat /\ TotalBytes(q) \in Nat /\ Len(q) \in Nat
      /\ (q # <<>> <=> Len(q) # 0)
  BY FrameFields DEF Frames
<1>4. FanOut!Fits(r, p) <=>
         /\ p.bytes <= ReplayBytes - TotalBytes(q)
         /\ Len(q) < ReplayPackets
         /\ q # <<>> => p.time - q[1].time <= ReplayDuration
  <2>1. q # <<>> => Head(q) = q[1]
    OBVIOUS
  <2> QED BY <2>1 DEF FanOut!Fits
<1>5. FanOut!Within(t) <=>
         /\ TotalBytes(q) + p.bytes <= ReplayBytes
         /\ Len(q) + 1 <= ReplayPackets
         /\ p.time - t[1].time <= ReplayDuration
  BY <1>1, <1>2, WithinBounds
<1>6. p.time - t[1].time <= ReplayDuration <=>
         (q # <<>> => p.time - q[1].time <= ReplayDuration)
  <2>1. CASE q = <<>>
    <3>1. t[1] = p /\ p.time - p.time = 0 /\ 0 <= ReplayDuration
      BY <1>1, <1>3, <2>1, Limits
    <3> QED BY <2>1, <3>1
  <2>2. CASE q # <<>>
    <3>1. 1 \in 1..Len(q)
      BY <1>3, <2>2
    <3>2. t[1] = q[1]
      BY <1>1, <3>1
    <3> QED BY <2>2, <3>2
  <2> QED BY <2>1, <2>2
<1>7. p.bytes <= ReplayBytes - TotalBytes(q) <=> TotalBytes(q) + p.bytes <= ReplayBytes
  BY <1>3, Limits
<1>8. Len(q) < ReplayPackets <=> Len(q) + 1 <= ReplayPackets
  BY <1>3, Limits
<1>9. FanOut!Fits(r, p) <=> FanOut!Within(t)
  BY <1>4, <1>5, <1>6, <1>7, <1>8
<1> QED BY <1>9 DEF t

HistoryFields == {"packets", "bytes", "last"}

(* q is what c holds from k on, and no longer end of c is within the bounds. *)
KeepsFrom(c, q, k) == q = Drop(c, k) /\ \A j \in 0..(k - 1) : ~FanOut!Within(Drop(c, j))

(* The history r of what was captured, c: its longest end within the bounds, and
   a byte counter that is exact. *)
Retains(c, r) ==
    /\ DOMAIN r = HistoryFields
    /\ r.bytes = TotalBytes(r.packets)
    /\ FanOut!Within(r.packets)
    /\ \E k \in 0..Len(c) : KeepsFrom(c, r.packets, k)

LEMMA WithoutOldestFields ==
    ASSUME NEW r, DOMAIN r = HistoryFields, r.packets \in Seq(Frames),
           r.bytes = TotalBytes(r.packets), NEW m \in 0..Len(r.packets)
    PROVE  /\ FanOut!WithoutOldest(r, m).packets = Drop(r.packets, m)
           /\ FanOut!WithoutOldest(r, m).bytes = TotalBytes(Drop(r.packets, m))
<1> DEFINE q == r.packets
           e == Drop(q, m)
           h == Take(q, m)
<1>1. FanOut!WithoutOldest(r, m).packets = e
  BY DEF FanOut!WithoutOldest, Drop, HistoryFields
<1>2. FanOut!WithoutOldest(r, m).bytes = r.bytes - TotalBytes(h)
  BY SameBytes DEF FanOut!WithoutOldest, Take, HistoryFields
<1>3. TotalBytes(q) = TotalBytes(h) + TotalBytes(e)
  BY FramesAreSized, BytesOfSplit
<1>4. TotalBytes(h) \in Nat /\ TotalBytes(e) \in Nat
  <2>1. Len(q) \in Nat /\ \A i \in 1..m : q[i] \in Frames
    BY LenProperties, ElementOfSeq
  <2>2. h \in Seq(Frames)
    BY <2>1, SubSeqProperties DEF Take
  <2> QED BY <2>2, DropElements, FrameFields
<1> QED BY <1>1, <1>2, <1>3, <1>4

(* Evicted is the least number of packets to drop. *)
LEMMA EvictedIsLeast ==
    ASSUME NEW r, DOMAIN r = HistoryFields, r.packets \in Seq(Frames),
           r.bytes = TotalBytes(r.packets), NEW p \in Frames, p.bytes <= ReplayBytes
    PROVE  /\ FanOut!Evicted(r, p) \in 0..Len(r.packets)
           /\ FanOut!Within(Append(Drop(r.packets, FanOut!Evicted(r, p)), p))
           /\ \A m \in 0..(FanOut!Evicted(r, p) - 1) :
                 ~FanOut!Within(Append(Drop(r.packets, m), p))
<1> DEFINE q == r.packets
           F(n) == FanOut!Fits(FanOut!WithoutOldest(r, n), p)
           T == {n \in 0..Len(q) : F(n)}
           Least(n) == F(n) /\ \A m \in 0..(n - 1) : ~F(m)
<1>1. Len(q) \in Nat
  BY FrameFields
<1>2. ASSUME NEW n \in 0..Len(q) PROVE F(n) <=> FanOut!Within(Append(Drop(q, n), p))
  <2>1. Drop(q, n) \in Seq(Frames)
    BY DropElements
  <2> QED BY <2>1, WithoutOldestFields, FitsIsWithin
<1>3. FanOut!Within(Append(Drop(q, Len(q)), p))
  <2> DEFINE e == Drop(q, Len(q))
             t == Append(e, p)
  <2>1. Len(q) \in 0..Len(q)
    BY <1>1
  <2>2. e \in Seq(Frames) /\ Len(e) = 0
    <3>1. e \in Seq(Frames) /\ Len(e) = Len(q) - Len(q)
      BY <2>1, DropElements
    <3> HIDE DEF e
    <3> QED BY <1>1, <3>1
  <2>3. e = <<>> /\ t \in Seq(Frames)
    BY <2>2, AppendProperties, FrameFields
  <2>4. Len(t) = 1 /\ t[1] = p /\ TotalBytes(t) = TotalBytes(e) + p.bytes
    BY <2>2, AppendProperties, FramesAreSized, BytesOfAppend
  <2> HIDE DEF e, t
  <2>5. TotalBytes(t) = p.bytes /\ p.time - p.time = 0 /\ p.bytes \in Nat
    <3>1. p.bytes \in Nat /\ p.time \in Nat /\ TotalBytes(e) = 0
      BY <2>3, BytesOfNone DEF Frames
    <3> QED BY <2>4, <3>1
  <2>6. t[Len(t)] = p /\ t[1] = p
    BY <2>4
  <2>7. TotalBytes(t) <= ReplayBytes /\ Len(t) <= ReplayPackets
    BY <2>4, <2>5, Limits
  <2>8. t[Len(t)].time - t[1].time <= ReplayDuration
    BY <2>5, <2>6, Limits
  <2>9. FanOut!Within(t)
    BY <2>3, <2>7, <2>8, WithinBounds
  <2> QED BY <2>9 DEF t, e
<1>4. Len(q) \in T
  BY <1>1, <1>2, <1>3
<1>5. PICK x \in T : \A y \in T : x <= y
  <2>1. T \subseteq Nat /\ T # {}
    BY <1>4
  <2> HIDE DEF T
  <2> QED BY <2>1, LeastNumber
<1>6. x \in 0..Len(q) /\ Least(x)
  <2>1. x \in 0..Len(q) /\ F(x)
    BY <1>5
  <2>2. ASSUME NEW m \in 0..(x - 1), F(m) PROVE FALSE
    <3> HIDE DEF F
    <3>1. m \in T /\ m < x /\ ~(x <= m)
      BY <2>1, <2>2
    <3> QED BY <1>5, <3>1
  <2> QED BY <2>1, <2>2
<1>7. FanOut!Evicted(r, p) = CHOOSE n \in 0..Len(q) : Least(n)
  BY DEF FanOut!Evicted
<1>8. FanOut!Evicted(r, p) \in 0..Len(q) /\ Least(FanOut!Evicted(r, p))
  <2> HIDE DEF Least
  <2> QED BY <1>6, <1>7
<1> HIDE DEF F
<1>9. \A m \in 0..(FanOut!Evicted(r, p) - 1) : m \in 0..Len(q)
  BY <1>1, <1>8
<1> QED BY <1>2, <1>8, <1>9

LEMMA CapturedRetains ==
    ASSUME NEW c \in Seq(Frames), NEW p \in Frames, Precedes(c, p),
           NEW r, Retains(c, r), p.bytes <= ReplayBytes
    PROVE  Retains(Append(c, p), FanOut!Captured(r, p)) /\ FanOut!Captured(r, p).last = p.time
<1> DEFINE q == r.packets
           l == Len(c)
           n == FanOut!Evicted(r, p)
           t == Append(c, p)
           z == FanOut!Captured(r, p)
<1>1. PICK k \in 0..l : q = Drop(c, k) /\ \A j \in 0..(k - 1) : ~FanOut!Within(Drop(c, j))
  BY DEF Retains, KeepsFrom
<1>2. q \in Seq(Frames) /\ Len(q) = l - k /\ \A i \in 1..(l - k) : q[i] = c[k + i]
  BY <1>1, DropElements
<1>3. l \in Nat /\ k \in Nat
  BY FrameFields
<1>4. DOMAIN r = HistoryFields /\ r.bytes = TotalBytes(q)
  BY DEF Retains
<1>5. /\ n \in 0..Len(q)
      /\ FanOut!Within(Append(Drop(q, n), p))
      /\ \A m \in 0..(n - 1) : ~FanOut!Within(Append(Drop(q, m), p))
  BY <1>2, <1>4, EvictedIsLeast
<1>6. /\ z.packets = Append(FanOut!WithoutOldest(r, n).packets, p)
      /\ z.bytes = FanOut!WithoutOldest(r, n).bytes + p.bytes
      /\ z.last = p.time
      /\ DOMAIN z = HistoryFields
  BY DEF FanOut!Captured, HistoryFields
<1>7. /\ z.packets = Append(Drop(q, n), p)
      /\ z.bytes = TotalBytes(Drop(q, n)) + p.bytes
  BY <1>2, <1>4, <1>5, <1>6, WithoutOldestFields
<1> HIDE DEF n, z
<1>8. z.bytes = TotalBytes(z.packets)
  <2>1. Drop(q, n) \in Seq(Frames)
    BY <1>2, <1>5, DropElements
  <2> QED BY <1>7, <2>1, FramesAreSized, BytesOfAppend
<1>9. \A m \in 0..(l - k) : Append(Drop(q, m), p) = Drop(t, k + m)
  <2>1. TAKE m \in 0..(l - k)
  <2>2. k + m \in 0..l
    BY <1>3
  <2>3. Drop(q, m) = Drop(c, k + m)
    BY <1>1, DropOfDrop
  <2> QED BY <2>2, <2>3, DropOfAppend
<1>10. z.packets = Drop(t, k + n) /\ FanOut!Within(z.packets)
  BY <1>2, <1>5, <1>7, <1>9
<1>11. t \in Seq(Frames) /\ Len(t) = l + 1
  BY AppendProperties
<1> DEFINE d == k + n
<1> HIDE DEF d
<1>12. ASSUME NEW j \in 0..(d - 1) PROVE ~FanOut!Within(Drop(t, j))
  <2>1. CASE j < k
    <3>1. j \in 0..(k - 1) /\ j \in 0..l
      BY <1>3, <2>1
    <3>2. Drop(c, j) \in Seq(Frames) /\ Drop(t, j) = Append(Drop(c, j), p)
      BY <3>1, DropElements, DropOfAppend
    <3>3. Precedes(Drop(c, j), p)
      <4> DEFINE e == Drop(c, j)
      <4>1. Len(e) = l - j /\ \A i \in 1..(l - j) : e[i] = c[j + i]
        BY <3>1, DropElements
      <4>2. l - j \in 1..(l - j) /\ j + (l - j) = l /\ c # <<>>
        BY <1>3, <2>1, FrameFields
      <4>3. e[Len(e)] = c[l]
        BY <4>1, <4>2
      <4> HIDE DEF e
      <4>4. Precedes(e, p)
        BY <4>2, <4>3 DEF Precedes
      <4> QED BY <4>4 DEF e
    <3> QED BY <1>1, <3>1, <3>2, <3>3, WithinBeforeAppend
  <2>2. CASE j >= k
    <3>1. j - k \in 0..(n - 1) /\ j - k \in 0..(l - k) /\ k + (j - k) = j
      BY <1>2, <1>3, <1>5, <2>2 DEF d
    <3> QED BY <1>5, <1>9, <3>1
  <2> QED BY <1>3, <1>5, <2>1, <2>2 DEF d
<1>13. d \in 0..Len(t)
  BY <1>2, <1>3, <1>5, <1>11 DEF d
<1>14. KeepsFrom(t, z.packets, d)
  <2> HIDE DEF t
  <2>1. \A j \in 0..(d - 1) : ~FanOut!Within(Drop(t, j))
    BY <1>12
  <2>2. z.packets = Drop(t, d)
    BY <1>10 DEF d
  <2> QED BY <2>1, <2>2 DEF KeepsFrom
<1>15. Retains(t, z)
  <2> HIDE DEF t
  <2> QED BY <1>6, <1>8, <1>10, <1>13, <1>14 DEF Retains
<1> QED BY <1>6, <1>15 DEF t, z

(* ... so what is kept, and what is saved, is the longest end there is. *)
LEMMA RetainsIsLongest ==
    ASSUME outputs.replay.captured \in Seq(Frames), InTime(outputs.replay.captured),
           Retains(outputs.replay.captured, outputs.replay.buffer)
    PROVE  FanOut!RetainsLongestEnd
<1> DEFINE c == outputs.replay.captured
           r == outputs.replay.buffer
           q == r.packets
           l == Len(c)
           kept == {s \in FanOut!Ends(c) : FanOut!Within(s)}
           keyed == {s \in kept : s # <<>> => Head(s).kind = "Key"}
<1>1. PICK k \in 0..l : q = Drop(c, k) /\ \A j \in 0..(k - 1) : ~FanOut!Within(Drop(c, j))
  BY DEF Retains, KeepsFrom
<1>2. r.bytes = TotalBytes(q) /\ FanOut!Within(q)
  BY DEF Retains
<1>3. FanOut!Ends(c) = {Drop(c, n) : n \in 0..l}
  BY DEF FanOut!Ends, Drop
<1>4. l \in Nat /\ k \in Nat /\ k <= l
  BY FrameFields
<1> HIDE DEF c, r
<1>5. c \in Seq(Frames) /\ InTime(c)
  BY DEF c
<1>6. q \in Seq(Frames) /\ Len(q) = l - k /\ \A i \in 1..(l - k) : q[i] = c[k + i]
  BY <1>1, <1>5, DropElements
<1>7. ASSUME NEW s \in kept
      PROVE  \E m \in 0..(l - k) : s = Drop(q, m)
  <2>1. PICK n \in 0..l : s = Drop(c, n) /\ FanOut!Within(s)
    BY <1>3
  <2>2. n - k \in 0..(l - k) /\ k + (n - k) = n
    BY <1>1, <1>4, <2>1
  <2>3. Drop(q, n - k) = Drop(c, n)
    BY <1>1, <1>5, <2>2, DropOfDrop
  <2> QED BY <2>1, <2>2, <2>3
<1>8. ASSUME NEW m \in 0..(l - k)
      PROVE  Drop(q, m) \in kept
  <2>1. k + m \in 0..l /\ Drop(q, m) = Drop(c, k + m)
    <3>1. k + m \in 0..l
      BY <1>4
    <3>2. Drop(q, m) = Drop(c, k + m)
      BY <1>1, <1>5, DropOfDrop
    <3> QED BY <3>1, <3>2
  <2>2. InTime(q)
    <3>1. ASSUME NEW i \in 1..(l - k), NEW j \in 1..(l - k), i <= j
          PROVE  q[i].time <= q[j].time
      <4>1. k + i \in 1..l /\ k + j \in 1..l /\ k + i <= k + j
        BY <1>4, <3>1
      <4> QED BY <1>5, <1>6, <4>1 DEF InTime
    <3> QED BY <1>6, <3>1 DEF InTime
  <2>3. m \in 0..Len(q)
    BY <1>6
  <2>4. FanOut!Within(Drop(q, m))
    BY <1>2, <1>6, <2>2, <2>3, WithinEnd, Zenon
  <2> QED BY <1>3, <2>1, <2>4
<1> HIDE DEF kept
<1>9. \A m \in 0..(l - k) :
         /\ Drop(q, m) \in Seq(Frames)
         /\ Len(Drop(q, m)) = l - k - m
         /\ m < l - k => Drop(q, m) # <<>> /\ Head(Drop(q, m)) = q[m + 1]
         /\ m = l - k => Drop(q, m) = <<>>
  <2>1. TAKE m \in 0..(l - k)
  <2> DEFINE e == Drop(q, m)
  <2>2. e \in Seq(Frames) /\ Len(e) = l - k - m /\ \A i \in 1..(l - k - m) : e[i] = q[m + i]
    <3>1. q \in Seq(Frames) /\ m \in 0..Len(q) /\ Len(q) = l - k
      BY <1>6
    <3>2. /\ e \in Seq(Frames) /\ Len(e) = Len(q) - m
          /\ \A i \in 1..(Len(q) - m) : e[i] = q[m + i]
      BY <3>1, DropElements, Zenon
    <3> QED BY <3>1, <3>2
  <2> HIDE DEF e
  <2>3. e # <<>> <=> l - k - m # 0
    BY <2>2, FrameFields
  <2>4. e # <<>> => Head(e) = e[1]
    BY <2>2
  <2>5. m < l - k => e # <<>> /\ Head(e) = q[m + 1]
    BY <1>4, <2>2, <2>3, <2>4
  <2> QED BY <1>4, <2>2, <2>3, <2>5 DEF e
<1>10. FanOut!IsLongest(q, kept)
  <2>1. q = Drop(q, 0)
    BY <1>6, SubSeqFull DEF Drop
  <2>2. 0 \in 0..(l - k)
    BY <1>4
  <2>3. q \in kept
    BY <1>8, <2>1, <2>2
  <2>4. \A s \in kept : Len(s) <= Len(q)
    BY <1>4, <1>6, <1>7, <1>9
  <2> QED BY <2>3, <2>4 DEF FanOut!IsLongest
<1>11. FanOut!IsLongest(FanOut!Snapshot(r), keyed)
  <2> DEFINE keys == {i \in DOMAIN q : q[i].kind = "Key"}
  <2>1. DOMAIN q = 1..(l - k)
    BY <1>6
  <2>2. CASE keys = {}
    <3>1. FanOut!Snapshot(r) = <<>>
      BY <2>2 DEF FanOut!Snapshot
    <3>2. l - k \in 0..(l - k) /\ Drop(q, l - k) = <<>> /\ <<>> \in kept
      BY <1>4, <1>8, <1>9
    <3>3. ASSUME NEW s \in keyed PROVE Len(s) <= Len(<<>>)
      <4>1. PICK m \in 0..(l - k) : s = Drop(q, m)
        BY <1>7, <3>3
      <4>2. ~(m < l - k)
        <5>1. SUFFICES ASSUME m < l - k PROVE FALSE
          OBVIOUS
        <5>2. m + 1 \in DOMAIN q /\ q[m + 1].kind = "Key"
          BY <1>4, <1>9, <2>1, <3>3, <4>1, <5>1
        <5> QED BY <2>2, <5>2
      <4>3. m = l - k /\ s = <<>>
        BY <1>4, <1>9, <4>1, <4>2
      <4> QED BY <4>3
    <3> QED BY <3>1, <3>2, <3>3 DEF FanOut!IsLongest
  <2>3. CASE keys # {}
    <3>1. keys \subseteq Nat
      BY <2>1
    <3> DEFINE first == CHOOSE i \in keys : \A j \in keys : i <= j
    <3>2. first \in keys /\ \A j \in keys : first <= j
      <4> HIDE DEF keys
      <4>1. \E i \in keys : \A j \in keys : i <= j
        BY <2>3, <3>1, LeastNumber
      <4> QED BY <4>1
    <3>3. FanOut!Snapshot(r) = SubSeq(q, first, Len(q))
      BY <2>3 DEF FanOut!Snapshot
    <3> HIDE DEF first
    <3>4. first \in 1..(l - k) /\ q[first].kind = "Key" /\ first - 1 \in 0..(l - k)
          /\ first - 1 < l - k /\ (first - 1) + 1 = first
      BY <1>4, <2>1, <3>2
    <3>5. FanOut!Snapshot(r) = Drop(q, first - 1)
      BY <3>3, <3>4 DEF Drop
    <3>6. FanOut!Snapshot(r) \in keyed
      BY <1>8, <1>9, <3>4, <3>5
    <3>7. ASSUME NEW s \in keyed PROVE Len(s) <= Len(Drop(q, first - 1))
      <4>1. PICK m \in 0..(l - k) : s = Drop(q, m)
        BY <1>7, <3>7
      <4>2. Len(s) = l - k - m /\ Len(Drop(q, first - 1)) = l - k - (first - 1)
        BY <1>9, <3>4, <4>1
      <4>3. CASE m < l - k
        <5>1. m + 1 \in keys
          BY <1>4, <1>9, <2>1, <3>7, <4>1, <4>3
        <5>2. first <= m + 1
          BY <3>2, <5>1
        <5> QED BY <1>4, <3>4, <4>2, <5>2
      <4>4. CASE ~(m < l - k)
        BY <1>4, <3>4, <4>2, <4>4
      <4> QED BY <4>3, <4>4
    <3> QED BY <3>5, <3>6, <3>7 DEF FanOut!IsLongest
  <2> QED BY <2>2, <2>3
<1>12. r.bytes = FanOut!BytesOf(q)
  BY <1>2, SameBytes
<1> QED BY <1>10, <1>11, <1>12 DEF FanOut!RetainsLongestEnd, FanOut!replay, kept, r, c
-----------------------------------------------------------------------------
(* Every output holds packets in order. *)
Ordered(s) == \A i, j \in 1..Len(s) : i < j => s[i].id < s[j].id /\ s[i].time <= s[j].time

(* s holds packets up to the e-th one, and up to time t. *)
Holds(s, e, t) ==
    /\ s \in Seq(Frames)
    /\ Ordered(s)
    /\ \A i \in 1..Len(s) : s[i].id <= e /\ s[i].time <= t

Elements(s) == {s[i] : i \in 1..Len(s)}

ReplayInv(x, e, t) ==
    /\ DOMAIN x = {"on", "buffer", "captured"}
    /\ Holds(x.captured, e, t)
    /\ Retains(x.captured, x.buffer)

RecordingInv(x, e, t) ==
    /\ DOMAIN x = {"on", "loses", "packets", "last", "streamed"}
    /\ Holds(x.packets, e, t)
    /\ x.streamed \subseteq Elements(x.packets)

StreamInv(x, e, t) ==
    /\ DOMAIN x = {"state", "packets"}
    /\ Holds(x.packets, e, t)

OutputsInv(o, e, t) ==
    /\ DOMAIN o = {"replay", "recording", "stream"}
    /\ ReplayInv(o.replay, e, t)
    /\ RecordingInv(o.recording, e, t)
    /\ StreamInv(o.stream, e, t)

LEMMA HoldsLonger ==
    ASSUME NEW s, NEW e \in Nat, NEW t \in Nat, Holds(s, e, t),
           NEW f \in Nat, NEW u \in Nat, e <= f, t <= u
    PROVE  Holds(s, f, u)
<1>1. \A i \in 1..Len(s) : s[i].id \in Nat /\ s[i].time \in Nat
  <2>1. \A i \in 1..Len(s) : s[i] \in Frames
    BY ElementOfSeq DEF Holds
  <2> QED BY <2>1 DEF Frames
<1>2. \A i \in 1..Len(s) : s[i].id <= f /\ s[i].time <= u
  BY <1>1 DEF Holds
<1> QED BY <1>2 DEF Holds

LEMMA HoldsOneMore ==
    ASSUME NEW s, NEW e \in Nat, NEW t \in Nat, Holds(s, e, t),
           NEW p \in Frames, p.id = e + 1, t <= p.time
    PROVE  Holds(Append(s, p), e + 1, p.time)
<1> DEFINE z == Append(s, p)
<1>1. s \in Seq(Frames) /\ Len(s) \in Nat
  BY LenProperties DEF Holds
<1>2. z \in Seq(Frames) /\ Len(z) = Len(s) + 1 /\ z[Len(s) + 1] = p
      /\ \A i \in 1..Len(s) : z[i] = s[i]
  BY <1>1, AppendProperties
<1> HIDE DEF z
<1>3. \A i \in 1..Len(s) : s[i].id \in Nat /\ s[i].time \in Nat
  <2>1. \A i \in 1..Len(s) : s[i] \in Frames
    BY <1>1, ElementOfSeq
  <2> QED BY <2>1 DEF Frames
<1>4. p.time \in Nat
  BY DEF Frames
<1>5. \A i \in 1..Len(s) : z[i].id <= e /\ z[i].time <= t /\ z[i].id \in Nat /\ z[i].time \in Nat
  BY <1>2, <1>3 DEF Holds
<1>6. \A i \in 1..Len(z) : z[i].id <= e + 1 /\ z[i].time <= p.time
  <2>1. TAKE i \in 1..Len(z)
  <2>2. CASE i \in 1..Len(s)
    BY <1>4, <1>5, <2>2
  <2>3. CASE i = Len(s) + 1
    <3>1. z[i] = p
      BY <1>2, <2>3
    <3> QED BY <1>4, <3>1
  <2> QED BY <1>1, <1>2, <2>2, <2>3
<1>7. Ordered(z)
  <2>1. SUFFICES ASSUME NEW i \in 1..Len(z), NEW j \in 1..Len(z), i < j
                 PROVE  z[i].id < z[j].id /\ z[i].time <= z[j].time
    BY DEF Ordered
  <2>2. i \in 1..Len(s)
    BY <1>1, <1>2, <2>1
  <2>3. CASE j \in 1..Len(s)
    <3>1. z[i] = s[i] /\ z[j] = s[j] /\ Ordered(s)
      BY <1>2, <2>2, <2>3 DEF Holds
    <3> QED BY <2>1, <2>2, <2>3, <3>1 DEF Ordered
  <2>4. CASE j = Len(s) + 1
    <3>1. z[j].id = e + 1 /\ z[j].time = p.time
      BY <1>2, <2>4
    <3>2. z[i].id <= e /\ z[i].time <= t /\ z[i].id \in Nat /\ z[i].time \in Nat
      BY <1>5, <2>2
    <3>3. z[i].id < e + 1 /\ z[i].time <= p.time
      BY <1>4, <3>2
    <3> QED BY <3>1, <3>3
  <2> QED BY <1>1, <1>2, <2>3, <2>4
<1>8. Holds(z, e + 1, p.time)
  BY <1>2, <1>6, <1>7 DEF Holds
<1> QED BY <1>8 DEF z

(* emit_packet, output by output. *)
LEMMA ReplayTakesOne ==
    ASSUME NEW o, NEW e \in Nat, NEW t \in Nat, OutputsInv(o, e, t),
           NEW p \in Frames, p.id = e + 1, t <= p.time, FanOut!ReplayTakes(o, p)
    PROVE  LET z == FanOut!InReplay(o, p)
           IN  /\ DOMAIN z = {"replay", "recording", "stream"}
               /\ z.recording = o.recording
               /\ z.stream = o.stream
               /\ ReplayInv(z.replay, e + 1, p.time)
               /\ z.replay.on = o.replay.on
               /\ o.replay.on => Len(z.replay.captured) = Len(o.replay.captured) + 1
<1> DEFINE z == FanOut!InReplay(o, p)
           x == o.replay
           c == x.captured
<1>1. DOMAIN o = {"replay", "recording", "stream"} /\ DOMAIN x = {"on", "buffer", "captured"}
      /\ Holds(c, e, t) /\ Retains(c, x.buffer)
  BY DEF OutputsInv, ReplayInv
<1>2. p.time \in Nat /\ e + 1 \in Nat /\ e <= e + 1
  BY DEF Frames
<1>3. CASE ~o.replay.on
  <2>1. z = o
    BY <1>3 DEF FanOut!InReplay
  <2>2. Holds(c, e + 1, p.time)
    BY <1>1, <1>2, HoldsLonger
  <2> QED BY <1>1, <1>3, <2>1, <2>2 DEF ReplayInv
<1>4. CASE o.replay.on
  <2>1. p.bytes <= ReplayBytes
    BY <1>4 DEF FanOut!ReplayTakes, FanOut!Captures
  <2>2. /\ DOMAIN z = {"replay", "recording", "stream"}
        /\ z.recording = o.recording
        /\ z.stream = o.stream
        /\ DOMAIN z.replay = {"on", "buffer", "captured"}
        /\ z.replay.on = o.replay.on
        /\ z.replay.buffer = FanOut!Captured(x.buffer, p)
        /\ z.replay.captured = Append(c, p)
    BY <1>1, <1>4 DEF FanOut!InReplay
  <2>3. Holds(Append(c, p), e + 1, p.time)
    BY <1>1, HoldsOneMore
  <2>4. c \in Seq(Frames) /\ Precedes(c, p)
    <3>1. c \in Seq(Frames) /\ \A i \in 1..Len(c) : c[i].time <= t
      BY <1>1 DEF Holds
    <3>2. \A i \in 1..Len(c) : c[i].time \in Nat
      BY <3>1, FrameFields
    <3>3. c # <<>> => Len(c) \in 1..Len(c)
      BY <3>1, FrameFields
    <3>4. c # <<>> => c[Len(c)].time <= t /\ c[Len(c)].time \in Nat
      BY <3>1, <3>2, <3>3
    <3> QED BY <1>2, <3>1, <3>4 DEF Precedes
  <2>5. Retains(Append(c, p), FanOut!Captured(x.buffer, p))
    BY <1>1, <2>1, <2>4, CapturedRetains
  <2>6. Len(Append(c, p)) = Len(c) + 1
    BY <2>4, AppendProperties
  <2> HIDE DEF z, c, x
  <2> QED BY <2>2, <2>3, <2>5, <2>6 DEF ReplayInv, z, c, x
<1> QED BY <1>3, <1>4

LEMMA RecordingTakesOne ==
    ASSUME NEW o, NEW e \in Nat, NEW t \in Nat,
           DOMAIN o = {"replay", "recording", "stream"}, RecordingInv(o.recording, e, t),
           NEW p \in Frames, p.id = e + 1, t <= p.time, FanOut!RecordingTakes(o, p)
    PROVE  LET z == FanOut!InRecording(o, p)
           IN  /\ DOMAIN z = {"replay", "recording", "stream"}
               /\ z.replay = o.replay
               /\ z.stream = o.stream
               /\ RecordingInv(z.recording, e + 1, p.time)
               /\ z.recording.on = o.recording.on
               /\ z.recording.loses = o.recording.loses
               /\ o.recording.on =>
                    /\ p \in Elements(z.recording.packets)
                    /\ Len(z.recording.packets) = Len(o.recording.packets) + 1
<1> DEFINE z == FanOut!InRecording(o, p)
           x == o.recording
           c == x.packets
<1>1. DOMAIN x = {"on", "loses", "packets", "last", "streamed"}
      /\ Holds(c, e, t) /\ x.streamed \subseteq Elements(c)
  BY DEF RecordingInv
<1>2. p.time \in Nat /\ e + 1 \in Nat /\ e <= e + 1
  BY DEF Frames
<1>3. CASE ~o.recording.on
  <2>1. z = o
    BY <1>3 DEF FanOut!InRecording
  <2>2. Holds(c, e + 1, p.time)
    BY <1>1, <1>2, HoldsLonger
  <2> QED BY <1>1, <1>3, <2>1, <2>2 DEF RecordingInv
<1>4. CASE o.recording.on
  <2>1. /\ DOMAIN z = {"replay", "recording", "stream"}
        /\ z.replay = o.replay
        /\ z.stream = o.stream
        /\ DOMAIN z.recording = {"on", "loses", "packets", "last", "streamed"}
        /\ z.recording.on = x.on
        /\ z.recording.loses = x.loses
        /\ z.recording.streamed = x.streamed
        /\ z.recording.packets = Append(c, p)
    BY <1>1, <1>4 DEF FanOut!InRecording
  <2>2. Holds(Append(c, p), e + 1, p.time)
    BY <1>1, HoldsOneMore
  <2> DEFINE d == Append(c, p)
  <2>3. Len(c) \in Nat /\ Len(d) = Len(c) + 1 /\ d[Len(c) + 1] = p
        /\ \A i \in 1..Len(c) : d[i] = c[i]
    BY <1>1, AppendProperties, LenProperties DEF Holds
  <2> HIDE DEF z, c, x, d
  <2>4. Elements(c) \subseteq Elements(d) /\ p \in Elements(d)
    <3>1. \A i \in 1..Len(c) : i \in 1..Len(d) /\ d[i] = c[i]
      BY <2>3
    <3>2. Len(c) + 1 \in 1..Len(d)
      BY <2>3
    <3> QED BY <2>3, <3>1, <3>2 DEF Elements
  <2>5. RecordingInv(z.recording, e + 1, p.time)
    BY <1>1, <2>1, <2>2, <2>4 DEF RecordingInv, d
  <2> QED BY <2>1, <2>3, <2>4, <2>5 DEF d, z, c, x
<1> QED BY <1>3, <1>4

LEMMA StreamTakesOne ==
    ASSUME NEW o, NEW e \in Nat, NEW t \in Nat, NEW p \in Frames, p.id = e + 1, t <= p.time,
           DOMAIN o = {"replay", "recording", "stream"}, StreamInv(o.stream, e, t),
           RecordingInv(o.recording, e + 1, p.time),
           o.recording.on => p \in Elements(o.recording.packets)
    PROVE  LET z == FanOut!InStream(o, p)
           IN  /\ DOMAIN z = {"replay", "recording", "stream"}
               /\ z.replay = o.replay
               /\ RecordingInv(z.recording, e + 1, p.time)
               /\ z.recording.on = o.recording.on
               /\ z.recording.loses = o.recording.loses
               /\ z.recording.packets = o.recording.packets
               /\ StreamInv(z.stream, e + 1, p.time)
               /\ ~FanOut!StreamTakes(o, p) => z.stream = o.stream
<1> DEFINE z == FanOut!InStream(o, p)
           x == o.recording
           c == o.stream.packets
<1>1. DOMAIN x = {"on", "loses", "packets", "last", "streamed"}
      /\ x.streamed \subseteq Elements(x.packets)
  BY DEF RecordingInv
<1>2. DOMAIN o.stream = {"state", "packets"} /\ Holds(c, e, t)
  BY DEF StreamInv
<1>3. p.time \in Nat /\ e + 1 \in Nat /\ e <= e + 1
  BY DEF Frames
<1>4. CASE ~(o.stream.state # "None" /\ FanOut!StreamTakes(o, p))
  <2>1. z = o
    BY <1>4 DEF FanOut!InStream
  <2>2. Holds(c, e + 1, p.time)
    BY <1>2, <1>3, HoldsLonger
  <2> QED BY <1>2, <2>1, <2>2 DEF StreamInv
<1>5. CASE o.stream.state # "None" /\ FanOut!StreamTakes(o, p)
  <2>1. /\ DOMAIN z = {"replay", "recording", "stream"}
        /\ z.replay = o.replay
        /\ DOMAIN z.stream = {"state", "packets"}
        /\ z.stream.packets = Append(c, p)
    BY <1>2, <1>5 DEF FanOut!InStream
  <2>2. /\ DOMAIN z.recording = {"on", "loses", "packets", "last", "streamed"}
        /\ z.recording.on = x.on
        /\ z.recording.loses = x.loses
        /\ z.recording.packets = x.packets
        /\ z.recording.streamed = IF x.on THEN x.streamed \union {p} ELSE x.streamed
    BY <1>1, <1>5 DEF FanOut!InStream
  <2>3. Holds(Append(c, p), e + 1, p.time)
    BY <1>2, HoldsOneMore
  <2> HIDE DEF z, c, x
  <2>4. StreamInv(z.stream, e + 1, p.time)
    BY <2>1, <2>3 DEF StreamInv
  <2>5. z.recording.streamed \subseteq Elements(z.recording.packets)
    BY <1>1, <2>2 DEF x
  <2>6. RecordingInv(x, e + 1, p.time)
    BY DEF x
  <2>7. RecordingInv(z.recording, e + 1, p.time)
    BY <2>2, <2>5, <2>6 DEF RecordingInv
  <2> QED BY <1>5, <2>1, <2>2, <2>4, <2>7 DEF z, x
<1> QED BY <1>4, <1>5

(* The packets of one frame, n of them handed out: which outputs are open stays,
   the open ones have taken all n, or the stream lacks the last of them. *)
SameOpen(o, z) ==
    /\ z.replay.on = o.replay.on
    /\ z.recording.on = o.recording.on
    /\ z.recording.loses = o.recording.loses

TakesAll(o, z, n) ==
    /\ o.replay.on => Len(z.replay.captured) = Len(o.replay.captured) + n
    /\ o.recording.on => Len(z.recording.packets) = Len(o.recording.packets) + n

EndsBefore(s, e) == \A i \in 1..Len(s) : s[i].id < e

HandedOut(o, d, e, t, n) ==
    /\ OutputsInv(d.outputs, e + n, t)
    /\ SameOpen(o, d.outputs)
    /\ d.ok => TakesAll(o, d.outputs, n)
    /\ ~d.ok => EndsBefore(d.outputs.stream.packets, e + n)

LEMMA OutputsLonger ==
    ASSUME NEW o, NEW e \in Nat, NEW t \in Nat, OutputsInv(o, e, t),
           NEW f \in Nat, NEW u \in Nat, e <= f, t <= u
    PROVE  OutputsInv(o, f, u)
<1>1. /\ Holds(o.replay.captured, f, u)
      /\ Holds(o.recording.packets, f, u)
      /\ Holds(o.stream.packets, f, u)
  BY HoldsLonger DEF OutputsInv, ReplayInv, RecordingInv, StreamInv
<1> QED BY <1>1 DEF OutputsInv, ReplayInv, RecordingInv, StreamInv

LEMMA EmitOne ==
    ASSUME NEW o, NEW e \in Nat, NEW t \in Nat, OutputsInv(o, e, t),
           NEW p \in Frames, p.id = e + 1, t <= p.time
    PROVE  LET z == FanOut!Emit(o, p)
           IN  /\ OutputsInv(z, e + 1, p.time)
               /\ SameOpen(o, z)
               /\ FanOut!Emits(o, p) => TakesAll(o, z, 1)
               /\ ~FanOut!Emits(o, p) => z.stream = o.stream
<1> DEFINE z == FanOut!Emit(o, p)
           y == FanOut!InReplay(o, p)
           w == FanOut!InRecording(y, p)
<1>1. p.time \in Nat /\ e + 1 \in Nat /\ e <= e + 1
  BY DEF Frames
<1>2. CASE ~FanOut!ReplayTakes(o, p)
  <2>1. z = o /\ ~FanOut!Emits(o, p)
    BY <1>2 DEF FanOut!Emit, FanOut!Emits
  <2>2. OutputsInv(o, e + 1, p.time)
    BY <1>1, OutputsLonger
  <2> QED BY <2>1, <2>2 DEF SameOpen
<1>3. CASE FanOut!ReplayTakes(o, p)
  <2>1. /\ DOMAIN y = {"replay", "recording", "stream"}
        /\ y.recording = o.recording
        /\ y.stream = o.stream
        /\ ReplayInv(y.replay, e + 1, p.time)
        /\ y.replay.on = o.replay.on
        /\ o.replay.on => Len(y.replay.captured) = Len(o.replay.captured) + 1
    BY <1>3, ReplayTakesOne
  <2>2. RecordingInv(o.recording, e, t) /\ StreamInv(o.stream, e, t)
    BY DEF OutputsInv
  <2>3. CASE ~FanOut!RecordingTakes(o, p)
    <3>1. z = y /\ ~FanOut!Emits(o, p)
      BY <1>3, <2>3 DEF FanOut!Emit, FanOut!Emits
    <3>2. OutputsInv(o, e + 1, p.time)
      BY <1>1, OutputsLonger
    <3> HIDE DEF y, z
    <3>3. OutputsInv(y, e + 1, p.time)
      BY <2>1, <3>2 DEF OutputsInv
    <3> QED BY <2>1, <3>1, <3>3 DEF SameOpen, z
  <2>4. CASE FanOut!RecordingTakes(o, p)
    <3> DEFINE v == FanOut!InStream(w, p)
    <3>1. z = v /\ (FanOut!Emits(o, p) <=> FanOut!StreamTakes(o, p))
      BY <1>3, <2>4 DEF FanOut!Emit, FanOut!Emits
    <3> HIDE DEF y, z
    <3>2. FanOut!RecordingTakes(y, p)
      BY <2>1, <2>4 DEF FanOut!RecordingTakes
    <3>3. /\ DOMAIN w = {"replay", "recording", "stream"}
          /\ w.replay = y.replay
          /\ w.stream = y.stream
          /\ RecordingInv(w.recording, e + 1, p.time)
          /\ w.recording.on = y.recording.on
          /\ w.recording.loses = y.recording.loses
          /\ y.recording.on =>
               /\ p \in Elements(w.recording.packets)
               /\ Len(w.recording.packets) = Len(y.recording.packets) + 1
      BY <2>1, <2>2, <3>2, RecordingTakesOne
    <3> HIDE DEF w
    <3>4. /\ DOMAIN v = {"replay", "recording", "stream"}
          /\ v.replay = w.replay
          /\ RecordingInv(v.recording, e + 1, p.time)
          /\ v.recording.on = w.recording.on
          /\ v.recording.loses = w.recording.loses
          /\ v.recording.packets = w.recording.packets
          /\ StreamInv(v.stream, e + 1, p.time)
          /\ ~FanOut!StreamTakes(w, p) => v.stream = w.stream
      BY <2>1, <2>2, <3>3, StreamTakesOne
    <3> HIDE DEF v
    <3>5. FanOut!StreamTakes(w, p) <=> FanOut!StreamTakes(o, p)
      BY <2>1, <3>3 DEF FanOut!StreamTakes
    <3>6. OutputsInv(v, e + 1, p.time)
      BY <2>1, <3>3, <3>4 DEF OutputsInv
    <3>7. SameOpen(o, v) /\ TakesAll(o, v, 1)
      BY <2>1, <3>3, <3>4 DEF SameOpen, TakesAll
    <3> QED BY <2>1, <3>1, <3>3, <3>4, <3>5, <3>6, <3>7 DEF z
  <2> QED BY <2>3, <2>4
<1> QED BY <1>2, <1>3

LEMMA HandOutOne ==
    ASSUME NEW o, NEW d, NEW e \in Nat, NEW t \in Nat, NEW n \in Nat,
           HandedOut(o, d, e, t, n),
           Len(o.replay.captured) \in Nat, Len(o.recording.packets) \in Nat,
           NEW p \in Frames, p.id = e + (n + 1), t <= p.time
    PROVE  HandedOut(o, FanOut!Dispatched(d, p), e, p.time, n + 1)
<1> DEFINE x == FanOut!Dispatched(d, p)
           q == d.outputs
           f == e + n
           s == q.stream.packets
<1>1. p.time \in Nat /\ f \in Nat /\ f + 1 \in Nat /\ f <= f + 1 /\ e + (n + 1) = f + 1
  BY DEF Frames
<1>2. OutputsInv(q, f, t) /\ SameOpen(o, q)
  BY DEF HandedOut
<1>3. Holds(s, f, t) /\ \A i \in 1..Len(s) : s[i].id \in Nat
  <2>1. Holds(s, f, t)
    BY <1>2 DEF OutputsInv, StreamInv
  <2>2. \A i \in 1..Len(s) : s[i] \in Frames
    BY <2>1, ElementOfSeq DEF Holds
  <2> QED BY <2>1, <2>2 DEF Frames
<1>4. CASE ~d.ok
  <2>1. x = d
    BY <1>4 DEF FanOut!Dispatched
  <2>2. OutputsInv(q, f + 1, p.time)
    BY <1>1, <1>2, OutputsLonger
  <2>3. EndsBefore(s, f)
    BY <1>4 DEF HandedOut
  <2> HIDE DEF f, s
  <2>4. EndsBefore(s, f + 1)
    <3>1. \A i \in 1..Len(s) : s[i].id \in Nat /\ s[i].id < f
      BY <1>3, <2>3 DEF EndsBefore
    <3>2. \A i \in 1..Len(s) : s[i].id < f + 1
      BY <1>1, <3>1
    <3> QED BY <3>2 DEF EndsBefore
  <2> HIDE DEF x
  <2> QED BY <1>1, <1>2, <1>4, <2>1, <2>2, <2>4 DEF HandedOut, s, x
<1>5. CASE d.ok
  <2> DEFINE z == FanOut!Emit(q, p)
  <2>1. x.outputs = z /\ (x.ok <=> FanOut!Emits(q, p))
    BY <1>5 DEF FanOut!Dispatched
  <2> HIDE DEF f
  <2>2. /\ OutputsInv(z, f + 1, p.time)
        /\ SameOpen(q, z)
        /\ FanOut!Emits(q, p) => TakesAll(q, z, 1)
        /\ ~FanOut!Emits(q, p) => z.stream = q.stream
    BY <1>1, <1>2, EmitOne
  <2> HIDE DEF z, x
  <2>3. SameOpen(o, z)
    BY <1>2, <2>2 DEF SameOpen
  <2>4. ASSUME x.ok PROVE TakesAll(o, z, n + 1)
    <3>1. TakesAll(o, q, n) /\ TakesAll(q, z, 1)
      BY <1>5, <2>1, <2>2, <2>4 DEF HandedOut
    <3>2. o.replay.on => Len(z.replay.captured) = (Len(o.replay.captured) + n) + 1
      BY <1>2, <3>1 DEF TakesAll, SameOpen
    <3>3. o.recording.on => Len(z.recording.packets) = (Len(o.recording.packets) + n) + 1
      BY <1>2, <3>1 DEF TakesAll, SameOpen
    <3>4. \A k \in Nat : (k + n) + 1 = k + (n + 1)
      OBVIOUS
    <3> QED BY <3>2, <3>3, <3>4 DEF TakesAll
  <2>5. ASSUME ~x.ok PROVE EndsBefore(z.stream.packets, f + 1)
    <3>1. z.stream.packets = s
      BY <2>1, <2>2, <2>5
    <3>2. \A i \in 1..Len(s) : s[i].id <= f /\ s[i].id \in Nat
      BY <1>3 DEF Holds
    <3> HIDE DEF s
    <3>3. \A i \in 1..Len(s) : s[i].id < f + 1
      BY <1>1, <3>2
    <3> QED BY <3>1, <3>3 DEF EndsBefore
  <2> QED BY <1>1, <2>1, <2>2, <2>3, <2>4, <2>5 DEF HandedOut, x
<1> QED BY <1>4, <1>5

(* push_program_frame's loop: what it has done after n packets. *)
Begun(o) == [outputs |-> o, ok |-> TRUE]

Passes(o, ps, m, f) ==
    f = [n \in 0..m |-> IF n = 0 THEN Begun(o) ELSE FanOut!Dispatched(f[n - 1], ps[n])]

LEMMA PassesExist ==
    ASSUME NEW o, NEW ps, NEW m \in Nat
    PROVE  \E f : Passes(o, ps, m, f)
<1> DEFINE S == {k \in 0..m : \E f : Passes(o, ps, k, f)}
<1>1. 0 \in S
  <2> DEFINE g == [n \in 0..0 |-> Begun(o)]
  <2>1. g = [n \in 0..0 |-> IF n = 0 THEN Begun(o) ELSE FanOut!Dispatched(g[n - 1], ps[n])]
    OBVIOUS
  <2> HIDE DEF g
  <2> QED BY <2>1 DEF Passes
<1>2. ASSUME NEW k \in 0..(m - 1), k \in S PROVE k + 1 \in S
  <2>1. PICK f : Passes(o, ps, k, f)
    BY <1>2
  <2> DEFINE x == FanOut!Dispatched(f[k], ps[k + 1])
             g == [n \in 0..(k + 1) |-> IF n <= k THEN f[n] ELSE x]
             h == [n \in 0..(k + 1) |->
                     IF n = 0 THEN Begun(o) ELSE FanOut!Dispatched(g[n - 1], ps[n])]
  <2>2. f[0] = Begun(o) /\ \A n \in 1..k : f[n] = FanOut!Dispatched(f[n - 1], ps[n])
    BY <2>1 DEF Passes
  <2>3. \A n \in 0..k : g[n] = f[n]
    OBVIOUS
  <2>4. g[k + 1] = x
    OBVIOUS
  <2> HIDE DEF g
  <2>5. \A n \in 0..(k + 1) : g[n] = h[n]
    <3>1. TAKE n \in 0..(k + 1)
    <3>2. CASE n = 0
      BY <2>2, <2>3, <3>2
    <3>3. CASE n \in 1..k
      <4>1. h[n] = FanOut!Dispatched(g[n - 1], ps[n]) /\ n - 1 \in 0..k /\ n \in 0..k
        BY <3>3
      <4> HIDE DEF h
      <4>2. g[n - 1] = f[n - 1] /\ g[n] = f[n]
        BY <2>3, <4>1
      <4> QED BY <2>2, <3>3, <4>1, <4>2
    <3>4. CASE n = k + 1
      <4>1. h[n] = FanOut!Dispatched(g[k], ps[k + 1]) /\ k \in 0..k
        BY <3>4
      <4> HIDE DEF h
      <4> QED BY <2>3, <2>4, <3>4, <4>1
    <3> QED BY <3>2, <3>3, <3>4
  <2>6. g = h
    <3>1. g = [n \in 0..(k + 1) |-> g[n]]
      BY DEF g
    <3>2. h = [n \in 0..(k + 1) |-> h[n]]
      OBVIOUS
    <3> HIDE DEF h
    <3> QED BY <2>5, <3>1, <3>2
  <2>7. Passes(o, ps, k + 1, g)
    BY <2>6 DEF Passes
  <2> QED BY <2>7
<1>3. \A n \in 0..m : n \in S
  <2> HIDE DEF S
  <2> QED BY <1>1, <1>2, InductionUpTo
<1> QED BY <1>3

LEMMA DispatchPasses ==
    ASSUME NEW o, NEW ps, Len(ps) \in Nat
    PROVE  \E f : Passes(o, ps, Len(ps), f) /\ FanOut!Dispatch(o, ps) = f[Len(ps)]
<1> DEFINE g == CHOOSE f : Passes(o, ps, Len(ps), f)
<1>1. FanOut!Dispatch(o, ps) = g[Len(ps)]
  BY Zenon DEF FanOut!Dispatch, Passes, Begun
<1>2. Passes(o, ps, Len(ps), g)
  BY PassesExist, Zenon
<1> QED BY <1>1, <1>2

LEMMA HandOutAll ==
    ASSUME NEW o, NEW e \in Nat, NEW t \in Nat, OutputsInv(o, e, t),
           NEW ps \in Seq(Frames), ps # <<>>, InTime(ps),
           \A i \in 1..Len(ps) : ps[i].id = e + i /\ t <= ps[i].time
    PROVE  HandedOut(o, FanOut!Dispatch(o, ps), e, ps[Len(ps)].time, Len(ps))
<1> DEFINE m == Len(ps)
           at(n) == IF n = 0 THEN t ELSE ps[n].time
<1>1. m \in Nat /\ m # 0 /\ \A i \in 1..m : ps[i] \in Frames /\ ps[i].time \in Nat
  BY FrameFields, ElementOfSeq
<1>2. PICK f : Passes(o, ps, m, f) /\ FanOut!Dispatch(o, ps) = f[m]
  BY <1>1, DispatchPasses
<1> HIDE DEF m
<1>3. f[0] = Begun(o) /\ \A n \in 1..m : f[n] = FanOut!Dispatched(f[n - 1], ps[n])
  BY <1>1, <1>2 DEF Passes
<1>4. Len(o.replay.captured) \in Nat /\ Len(o.recording.packets) \in Nat
  BY FrameFields DEF OutputsInv, ReplayInv, RecordingInv, Holds
<1> DEFINE S == {n \in 0..m : HandedOut(o, f[n], e, at(n), n)}
<1>5. 0 \in S
  <2>1. e + 0 = e /\ f[0].outputs = o /\ f[0].ok = TRUE /\ at(0) = t
    BY <1>3 DEF Begun
  <2>2. TakesAll(o, o, 0)
    BY <1>4 DEF TakesAll
  <2>3. HandedOut(o, f[0], e, at(0), 0)
    BY <2>1, <2>2 DEF HandedOut, SameOpen
  <2> QED BY <1>1, <2>3
<1>6. ASSUME NEW n \in 0..(m - 1), n \in S PROVE n + 1 \in S
  <2>1. HandedOut(o, f[n], e, at(n), n) /\ n \in Nat
    BY <1>6
  <2>2. n + 1 \in 1..m /\ (n + 1) - 1 = n
    BY <1>1
  <2> DEFINE p == ps[n + 1]
  <2>3. p \in Frames /\ p.id = e + (n + 1) /\ t <= p.time
    BY <1>1, <2>2 DEF m
  <2>4. at(n + 1) = p.time
    <3>1. n + 1 # 0
      BY <2>2
    <3> QED BY <3>1
  <2>5. at(n) \in Nat /\ at(n) <= p.time
    <3>1. CASE n = 0
      <4>1. at(n) = t
        BY <3>1
      <4> HIDE DEF at, p
      <4> QED BY <2>3, <4>1
    <3>2. CASE n # 0
      <4>1. n \in 1..m /\ n <= n + 1
        BY <1>1, <3>2
      <4>2. ps[n].time <= ps[n + 1].time
        BY <2>2, <4>1 DEF InTime, m
      <4>3. at(n) = ps[n].time
        BY <3>2
      <4>4. ps[n].time \in Nat
        BY <1>1, <4>1
      <4> HIDE DEF at
      <4> QED BY <4>2, <4>3, <4>4
    <3> QED BY <3>1, <3>2
  <2>6. f[n + 1] = FanOut!Dispatched(f[n], p)
    BY <1>3, <2>2
  <2> HIDE DEF at, p
  <2>7. HandedOut(o, f[n + 1], e, p.time, n + 1)
    BY <1>4, <2>1, <2>3, <2>5, <2>6, HandOutOne
  <2>8. n + 1 \in 0..m /\ HandedOut(o, f[n + 1], e, at(n + 1), n + 1)
    BY <1>1, <2>2, <2>4, <2>7
  <2> QED BY <2>8
<1>7. \A n \in 0..m : n \in S
  <2> HIDE DEF S
  <2> QED BY <1>1, <1>5, <1>6, InductionUpTo
<1>8. m \in 0..m /\ at(m) = ps[m].time
  BY <1>1
<1>9. HandedOut(o, f[m], e, at(m), m)
  BY <1>7, <1>8
<1> QED BY <1>2, <1>8, <1>9 DEF m

(* The packets of a frame continue what was encoded before it. *)
LEMMA FramePacketsFollow ==
    ASSUME encoded \in Nat, NEW audio \in Nat, NEW at \in Nat, now <= at, now \in Nat,
           NEW video \in Frames, video.id = encoded + audio + 1, at <= video.time
    PROVE  LET ps == FanOut!FramePackets(audio, at, video)
           IN  /\ ps \in Seq(Frames) /\ ps # <<>> /\ InTime(ps)
               /\ Len(ps) = audio + 1 /\ ps[Len(ps)].time = video.time
               /\ \A i \in 1..Len(ps) : ps[i].id = encoded + i /\ now <= ps[i].time
<1> DEFINE block(i) == [id |-> encoded + i, kind |-> "Audio", time |-> at, bytes |-> 1]
           q == [i \in 1..audio |-> block(i)]
           ps == Append(q, video)
<1>1. FanOut!FramePackets(audio, at, video) = ps
  BY DEF FanOut!FramePackets
<1>2. \A i \in 1..audio : block(i) \in Frames
  BY DEF Frames
<1>3. q \in Seq(Frames) /\ Len(q) = audio /\ \A i \in 1..audio : q[i] = block(i)
  <2> HIDE DEF block
  <2> QED BY <1>2
<1>4. \A i \in 1..audio : q[i].id = encoded + i /\ q[i].time = at
  BY <1>3
<1> HIDE DEF q
<1>5. ps \in Seq(Frames) /\ Len(ps) = audio + 1 /\ ps[audio + 1] = video
      /\ \A i \in 1..audio : ps[i] = q[i]
  BY <1>3, AppendProperties
<1> HIDE DEF ps
<1>6. ps # <<>>
  BY <1>5, FrameFields
<1>7. video.time \in Nat /\ now <= video.time
  <2>1. video.time \in Nat
    BY DEF Frames
  <2> QED BY <2>1
<1>8. \A i \in 1..(audio + 1) : i \in 1..audio \/ i = audio + 1
  OBVIOUS
<1>9. \A i \in 1..Len(ps) : ps[i].id = encoded + i /\ now <= ps[i].time
  <2>1. TAKE i \in 1..Len(ps)
  <2>2. CASE i \in 1..audio
    BY <1>4, <1>5, <2>2
  <2>3. CASE i = audio + 1
    BY <1>5, <1>7, <2>3
  <2> QED BY <1>5, <1>8, <2>2, <2>3
<1>10. InTime(ps)
  <2>1. SUFFICES ASSUME NEW i \in 1..Len(ps), NEW j \in 1..Len(ps), i <= j
                 PROVE  ps[i].time <= ps[j].time
    BY DEF InTime
  <2>2. \A k \in 1..audio : ps[k].time = at
    BY <1>4, <1>5
  <2>3. CASE j \in 1..audio
    <3>1. i \in 1..audio
      BY <1>5, <2>1, <2>3
    <3> QED BY <2>2, <2>3, <3>1
  <2>4. CASE j = audio + 1 /\ i \in 1..audio
    BY <1>5, <2>2, <2>4
  <2>5. CASE j = audio + 1 /\ i = audio + 1
    BY <1>5, <1>7, <2>5
  <2> QED BY <1>5, <1>8, <2>3, <2>4, <2>5
<1>11. ps[Len(ps)].time = video.time
  BY <1>5
<1> QED BY <1>1, <1>5, <1>6, <1>9, <1>10, <1>11

FanOutInv ==
    /\ now \in Nat
    /\ encoded \in Nat
    /\ OutputsInv(outputs, encoded, now)

LEMMA NothingHeld ==
    ASSUME NEW e \in Nat, NEW t \in Nat
    PROVE  /\ ReplayInv(FanOut!NoReplay, e, t)
           /\ RecordingInv(FanOut!NoRecording, e, t)
           /\ StreamInv(FanOut!NoStream, e, t)
<1>1. <<>> \in Seq(Frames) /\ Len(<<>>) = 0 /\ TotalBytes(<<>>) = 0
  BY BytesOfNone
<1>2. Holds(<<>>, e, t)
  BY <1>1 DEF Holds, Ordered
<1>3. FanOut!Within(<<>>)
  <2>1. ASSUME NEW s, s = <<>> PROVE FanOut!Within(s)
    <3>1. s \in Seq(Frames) /\ Len(s) <= ReplayPackets /\ TotalBytes(s) <= ReplayBytes
      BY <1>1, <2>1, Limits
    <3> QED BY <2>1, <3>1, WithinBounds
  <2> QED BY <2>1
<1>4. Retains(<<>>, FanOut!EmptyReplay)
  <2>1. <<>> = Drop(<<>>, 0)
    BY <1>1, SubSeqFull DEF Drop
  <2>2. KeepsFrom(<<>>, <<>>, 0)
    BY <2>1 DEF KeepsFrom
  <2>3. \E k \in 0..Len(<<>>) : KeepsFrom(<<>>, <<>>, k)
    BY <1>1, <2>2
  <2> QED BY <1>1, <1>3, <2>3 DEF Retains, FanOut!EmptyReplay, HistoryFields
<1>5. ReplayInv(FanOut!NoReplay, e, t)
  BY <1>2, <1>4 DEF ReplayInv, FanOut!NoReplay
<1>6. RecordingInv(FanOut!NoRecording, e, t)
  BY <1>2 DEF RecordingInv, FanOut!NoRecording
<1>7. StreamInv(FanOut!NoStream, e, t)
  BY <1>2 DEF StreamInv, FanOut!NoStream
<1> QED BY <1>5, <1>6, <1>7

LEMMA FrameKeepsOutputs ==
    ASSUME FanOutInv, FanOut!Frame
    PROVE  /\ FanOutInv'
           /\ FanOut!VideoStreamed =>
                /\ FanOut!RecordsWholeFrame
                /\ outputs.replay.on =>
                     Len(outputs'.replay.captured) =
                       Len(outputs.replay.captured) + FanOut!PacketsAdded
<1>1. now \in Nat /\ encoded \in Nat /\ OutputsInv(outputs, encoded, now)
  BY DEF FanOutInv
<1>2. PICK audio \in 0..MaxAudio, time \in now..MaxTime, size \in VideoSizes,
           kind \in {"Key", "Inter"} :
        \E at \in now..time :
          FanOut!ProgramFrame(audio, at,
            [id |-> encoded + audio + 1, kind |-> kind, time |-> time, bytes |-> size])
  BY DEF FanOut!Frame
<1> DEFINE video == [id |-> encoded + audio + 1, kind |-> kind, time |-> time, bytes |-> size]
<1>3. PICK at \in now..time : FanOut!ProgramFrame(audio, at, video)
  BY <1>2
<1>4. audio \in Nat /\ time \in Nat /\ at \in Nat /\ now <= at /\ at <= time /\ size \in Nat
  BY <1>1, <1>2, <1>3, Limits
<1>5. video \in Frames /\ video.id = encoded + audio + 1 /\ video.time = time
  BY <1>1, <1>4 DEF Frames
<1> DEFINE ps == FanOut!FramePackets(audio, at, video)
           d == FanOut!Dispatch(outputs, ps)
<1>6. outputs' = d.outputs /\ now' = time /\ encoded' = encoded + (audio + 1)
  BY <1>1, <1>3, <1>4 DEF FanOut!ProgramFrame
<1> HIDE DEF video
<1>7. /\ ps \in Seq(Frames) /\ ps # <<>> /\ InTime(ps)
      /\ Len(ps) = audio + 1 /\ ps[Len(ps)].time = time
      /\ \A i \in 1..Len(ps) : ps[i].id = encoded + i /\ now <= ps[i].time
  BY <1>1, <1>4, <1>5, FramePacketsFollow
<1> HIDE DEF ps
<1>8. HandedOut(outputs, d, encoded, time, audio + 1)
  BY <1>1, <1>7, HandOutAll
<1> HIDE DEF d
<1>9. encoded' \in Nat /\ encoded' - encoded = audio + 1 /\ encoded' # encoded
  BY <1>1, <1>4, <1>6
<1>10. OutputsInv(outputs', encoded', now')
  BY <1>6, <1>8 DEF HandedOut
<1>11. FanOutInv'
  BY <1>4, <1>6, <1>9, <1>10 DEF FanOutInv
<1>12. ASSUME FanOut!VideoStreamed PROVE d.ok
  <2> DEFINE s == outputs'.stream.packets
  <2>1. PICK p \in FanOut!ToSet(s) : p.id = encoded'
    BY <1>12 DEF FanOut!VideoStreamed
  <2>2. s \in Seq(Frames)
    BY <1>10 DEF OutputsInv, StreamInv, Holds
  <2> HIDE DEF s
  <2>3. PICK i \in 1..Len(s) : s[i] = p
    BY <2>1, <2>2, SameSequences
  <2>4. SUFFICES ASSUME ~d.ok PROVE FALSE
    OBVIOUS
  <2>5. EndsBefore(s, encoded')
    BY <1>6, <1>8, <2>4 DEF HandedOut, s
  <2>6. s[i].id < encoded' /\ s[i].id = encoded'
    BY <2>1, <2>3, <2>5 DEF EndsBefore
  <2> QED BY <1>9, <2>6
<1>13. ASSUME FanOut!VideoStreamed PROVE TakesAll(outputs, outputs', audio + 1)
  BY <1>6, <1>8, <1>12, <1>13 DEF HandedOut
<1>14. FanOut!PacketsAdded = audio + 1
  BY <1>9 DEF FanOut!PacketsAdded
<1>15. ASSUME FanOut!VideoStreamed PROVE FanOut!RecordsWholeFrame
  BY <1>13, <1>14, <1>15 DEF TakesAll, FanOut!RecordsWholeFrame, FanOut!recording
<1>16. ASSUME FanOut!VideoStreamed, outputs.replay.on
       PROVE  Len(outputs'.replay.captured) =
                Len(outputs.replay.captured) + FanOut!PacketsAdded
  BY <1>13, <1>14, <1>16 DEF TakesAll
<1> QED BY <1>11, <1>15, <1>16

LEMMA OtherStepsKeepOutputs ==
    ASSUME FanOutInv, [FanOut!Next]_(FanOut!vars), ~FanOut!Frame
    PROVE  FanOutInv' /\ encoded' = encoded
<1>1. now \in Nat /\ encoded \in Nat /\ OutputsInv(outputs, encoded, now)
  BY DEF FanOutInv
<1>2. /\ DOMAIN outputs = {"replay", "recording", "stream"}
      /\ ReplayInv(outputs.replay, encoded, now)
      /\ RecordingInv(outputs.recording, encoded, now)
      /\ StreamInv(outputs.stream, encoded, now)
  BY <1>1 DEF OutputsInv
<1>3. /\ ReplayInv(FanOut!NoReplay, encoded, now)
      /\ RecordingInv(FanOut!NoRecording, encoded, now)
      /\ StreamInv(FanOut!NoStream, encoded, now)
  BY <1>1, NothingHeld
<1>4. ASSUME OutputsInv(outputs', encoded, now), UNCHANGED <<now, encoded>>
      PROVE  FanOutInv' /\ encoded' = encoded
  BY <1>1, <1>4 DEF FanOutInv
<1>5. CASE UNCHANGED FanOut!vars
  BY <1>1, <1>5 DEF FanOut!vars, FanOutInv
<1>6. CASE FanOut!StartReplay
  <2>1. outputs' = [outputs EXCEPT !.replay.on = TRUE] /\ UNCHANGED <<now, encoded>>
    BY <1>6 DEF FanOut!StartReplay
  <2>2. ReplayInv([outputs.replay EXCEPT !.on = TRUE], encoded, now)
    BY <1>2 DEF ReplayInv
  <2>3. OutputsInv(outputs', encoded, now)
    BY <1>2, <2>1, <2>2 DEF OutputsInv
  <2> QED BY <1>4, <2>1, <2>3
<1>7. CASE FanOut!StopReplay
  <2>1. outputs' = [outputs EXCEPT !.replay = FanOut!NoReplay] /\ UNCHANGED <<now, encoded>>
    BY <1>7 DEF FanOut!StopReplay
  <2>2. OutputsInv(outputs', encoded, now)
    BY <1>2, <1>3, <2>1 DEF OutputsInv
  <2> QED BY <1>4, <2>1, <2>2
<1>8. CASE FanOut!StartRecording
  <2>0. PICK loses \in SUBSET (encoded + 1 .. MaxPackets) :
          outputs' = [outputs EXCEPT !.recording =
                         [FanOut!NoRecording EXCEPT !.on = TRUE, !.loses = loses]]
    BY <1>8 DEF FanOut!StartRecording
  <2> DEFINE x == [FanOut!NoRecording EXCEPT !.on = TRUE, !.loses = loses]
  <2>1. outputs' = [outputs EXCEPT !.recording = x] /\ UNCHANGED <<now, encoded>>
    BY <1>8, <2>0 DEF FanOut!StartRecording
  <2>2. DOMAIN FanOut!NoRecording = {"on", "loses", "packets", "last", "streamed"}
    BY DEF FanOut!NoRecording
  <2>3. RecordingInv(x, encoded, now)
    BY <1>3, <2>2 DEF RecordingInv
  <2> HIDE DEF x
  <2>4. OutputsInv(outputs', encoded, now)
    BY <1>2, <2>1, <2>3 DEF OutputsInv
  <2> QED BY <1>4, <2>1, <2>4
<1>9. CASE FanOut!StopRecording
  <2>1. outputs' = [outputs EXCEPT !.recording = FanOut!NoRecording]
        /\ UNCHANGED <<now, encoded>>
    BY <1>9 DEF FanOut!StopRecording
  <2>2. OutputsInv(outputs', encoded, now)
    BY <1>2, <1>3, <2>1 DEF OutputsInv
  <2> QED BY <1>4, <2>1, <2>2
<1>10. CASE FanOut!StartStreaming \/ FanOut!StreamFails
  <2>1. PICK v \in {"Open", "Failed"} :
          outputs' = [outputs EXCEPT !.stream.state = v] /\ UNCHANGED <<now, encoded>>
    BY <1>10 DEF FanOut!StartStreaming, FanOut!StreamFails
  <2>2. StreamInv([outputs.stream EXCEPT !.state = v], encoded, now)
    BY <1>2 DEF StreamInv
  <2>3. OutputsInv(outputs', encoded, now)
    BY <1>2, <2>1, <2>2 DEF OutputsInv
  <2> QED BY <1>4, <2>1, <2>3
<1>11. CASE FanOut!FinishStreaming
  <2>1. outputs' = [outputs EXCEPT !.stream = FanOut!NoStream] /\ UNCHANGED <<now, encoded>>
    BY <1>11 DEF FanOut!FinishStreaming
  <2>2. OutputsInv(outputs', encoded, now)
    BY <1>2, <1>3, <2>1 DEF OutputsInv
  <2> QED BY <1>4, <2>1, <2>2
<1> QED
  BY <1>5, <1>6, <1>7, <1>8, <1>9, <1>10, <1>11 DEF FanOut!Next

LEMMA FanOutInvHolds == FanOutSpec => []FanOutInv
<1>1. FanOut!Init => FanOutInv
  <2> SUFFICES ASSUME FanOut!Init PROVE FanOutInv
    OBVIOUS
  <2>1. now = 0 /\ encoded = 0
    BY DEF FanOut!Init
  <2>2. /\ ReplayInv(FanOut!NoReplay, 0, 0)
        /\ RecordingInv(FanOut!NoRecording, 0, 0)
        /\ StreamInv(FanOut!NoStream, 0, 0)
    BY NothingHeld
  <2>3. OutputsInv(outputs, 0, 0)
    BY <2>2 DEF FanOut!Init, OutputsInv
  <2> QED BY <2>1, <2>3 DEF FanOutInv
<1>2. FanOutInv /\ [FanOut!Next]_(FanOut!vars) => FanOutInv'
  BY FrameKeepsOutputs, OtherStepsKeepOutputs
<1> QED BY <1>1, <1>2, PTL DEF FanOutSpec, FanOut!Spec

(* The replay history is the longest end of what was captured that its bounds
   allow, its byte counter is exact after any evictions, and what a save writes
   is the longest such end that starts at a keyframe. *)
THEOREM HistoryIsLongest == FanOutSpec => []RetainsLongestEnd
<1>1. FanOutInv => RetainsLongestEnd
  <2> SUFFICES ASSUME FanOutInv PROVE FanOut!RetainsLongestEnd
    BY DEF RetainsLongestEnd
  <2> DEFINE c == outputs.replay.captured
  <2>1. Holds(c, encoded, now) /\ Retains(c, outputs.replay.buffer)
    BY DEF FanOutInv, OutputsInv, ReplayInv
  <2>2. InTime(c)
    <3> HIDE DEF c
    <3>1. SUFFICES ASSUME NEW i \in 1..Len(c), NEW j \in 1..Len(c), i <= j
                   PROVE  c[i].time <= c[j].time
      BY DEF InTime
    <3>2. c[i].time \in Nat
      BY <2>1, FrameFields DEF Holds
    <3>3. i < j => c[i].time <= c[j].time
      BY <2>1 DEF Holds, Ordered
    <3> QED BY <3>1, <3>2, <3>3
  <2> QED BY <2>1, <2>2, RetainsIsLongest DEF Holds
<1>2. FanOutSpec => []FanOutInv
  BY FanOutInvHolds
<1> QED BY <1>1, <1>2, PTL

(* Nothing is broadcast, while a recording is open, that the recording does not
   hold: the recording is served before the stream. *)
THEOREM RecordedBeforeStreamed == FanOutSpec => []StreamedIsRecorded
<1>1. FanOutInv => StreamedIsRecorded
  <2> SUFFICES ASSUME FanOutInv PROVE FanOut!StreamedIsRecorded
    BY DEF StreamedIsRecorded
  <2> DEFINE s == outputs.recording.packets
  <2>1. s \in Seq(Frames) /\ outputs.recording.streamed \subseteq Elements(s)
    BY DEF FanOutInv, OutputsInv, RecordingInv, Holds
  <2>2. Elements(s) = FanOut!ToSet(s)
    BY <2>1, SameSequences DEF Elements
  <2> QED BY <2>1, <2>2 DEF FanOut!StreamedIsRecorded, FanOut!recording
<1>2. FanOutSpec => []FanOutInv
  BY FanOutInvHolds
<1> QED BY <1>1, <1>2, PTL

LEMMA OutputsInOrder ==
    ASSUME NEW o, NEW e, NEW t, OutputsInv(o, e, t),
           NEW s \in {o.replay.buffer.packets, o.recording.packets, o.stream.packets}
    PROVE  \A i, j \in DOMAIN s : i < j => s[i].id < s[j].id /\ s[i].time <= s[j].time
<1>1. \A q : q \in Seq(Frames) /\ Ordered(q) =>
        \A i, j \in DOMAIN q : i < j => q[i].id < q[j].id /\ q[i].time <= q[j].time
  BY DEF Ordered
<1>2. CASE s \in {o.recording.packets, o.stream.packets}
  BY <1>1, <1>2 DEF OutputsInv, RecordingInv, StreamInv, Holds
<1>3. CASE s = o.replay.buffer.packets
  <2> DEFINE c == o.replay.captured
             l == Len(c)
  <2>1. c \in Seq(Frames) /\ Ordered(c) /\ Retains(c, o.replay.buffer)
    BY DEF OutputsInv, ReplayInv, Holds
  <2>2. PICK k \in 0..l : s = Drop(c, k)
    BY <1>3, <2>1 DEF Retains, KeepsFrom
  <2>3. s \in Seq(Frames) /\ Len(s) = l - k /\ \A i \in 1..(l - k) : s[i] = c[k + i]
    BY <2>1, <2>2, DropElements
  <2>4. l \in Nat
    BY <2>1, FrameFields
  <2> HIDE DEF c, l
  <2>5. Ordered(s)
    <3>1. SUFFICES ASSUME NEW i \in 1..Len(s), NEW j \in 1..Len(s), i < j
                   PROVE  s[i].id < s[j].id /\ s[i].time <= s[j].time
      BY DEF Ordered
    <3>2. k + i \in 1..l /\ k + j \in 1..l /\ k + i < k + j
      BY <2>3, <2>4, <3>1
    <3>3. c[k + i].id < c[k + j].id /\ c[k + i].time <= c[k + j].time
      BY <2>1, <3>2 DEF Ordered, l
    <3> QED BY <2>3, <3>1, <3>3
  <2> QED BY <1>1, <2>3, <2>5
<1> QED BY <1>2, <1>3

(* No step gives an output a packet twice or out of order, and a frame whose
   video reaches the stream has reached a working recording and the replay
   history whole, audio included. *)
THEOREM FramesReachOutputsWhole == FanOutSpec => FramesInOrderAndWhole
<1> DEFINE A == /\ FanOut!InOrder'
                /\ FanOut!VideoStreamed =>
                     /\ FanOut!RecordsWholeFrame
                     /\ outputs.replay.on =>
                          Len(outputs'.replay.captured) =
                            Len(outputs.replay.captured) + FanOut!PacketsAdded
<1>1. FanOutInv /\ [FanOut!Next]_(FanOut!vars) => A
  <2> SUFFICES ASSUME FanOutInv, [FanOut!Next]_(FanOut!vars) PROVE A
    OBVIOUS
  <2>1. CASE FanOut!Frame
    <3>1. FanOutInv'
      BY <2>1, FrameKeepsOutputs
    <3>2. FanOut!InOrder'
      BY <3>1, OutputsInOrder DEF FanOutInv, FanOut!InOrder, FanOut!replay, FanOut!recording
    <3> QED BY <2>1, <3>2, FrameKeepsOutputs
  <2>2. CASE ~FanOut!Frame
    <3>1. FanOutInv' /\ encoded' = encoded
      BY <2>2, OtherStepsKeepOutputs
    <3>2. FanOut!InOrder'
      BY <3>1, OutputsInOrder DEF FanOutInv, FanOut!InOrder, FanOut!replay, FanOut!recording
    <3>3. ~FanOut!VideoStreamed
      BY <3>1 DEF FanOut!VideoStreamed
    <3> QED BY <3>2, <3>3
  <2> QED BY <2>1, <2>2
<1>2. FanOutSpec => []FanOutInv
  BY FanOutInvHolds
<1>3. FanOutInv /\ [FanOut!Next]_(FanOut!vars) => [A]_(FanOut!vars)
  <2> HIDE DEF A
  <2> QED BY <1>1
<1> QED
  BY <1>2, <1>3, PTL DEF FanOutSpec, FanOut!Spec, FramesInOrderAndWhole,
                         FanOut!FramesInOrderAndWhole
=============================================================================
