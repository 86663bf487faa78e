--------------------------- MODULE Project_proofs ---------------------------
(* Proofs about the projects of obs-rs-project.

   The workspace, for every set of documents and paths and every bound on the
   history: the session is a line of edits, and what it has marked clean is in a
   file whatever fails or crashes.

   The document, for every set of identifiers, every profile that can be read
   and every bound: what its commands leave can be read back, a refused command
   leaves it alone, one that rearranges loses nothing, and ungrouping undoes
   grouping.  Most of it is about lists, paths and trees; no step inducts over a
   tree, for a tree is a set of paths. *)
EXTENDS ProjectWorkspace, ProjectDocument, SequenceTheorems, FiniteSetTheorems,
        WellFoundedInduction, TLAPS

-----------------------------------------------------------------------------
(* The session by itself *)

SessionTypeOK ==
    /\ project \in Projects
    /\ dirty \in BOOLEAN
    /\ undo_stack \in Seq(Projects)
    /\ redo_stack \in Seq(Projects)

(* A cached document is the project's. *)
CacheIsCurrent == document_cache \in {None, project}

SessionInv == SessionTypeOK /\ HistoryIsBounded /\ CacheIsCurrent

(* What the actions of the workspace do to the session. *)
SessionStep ==
    \/ \E p \in Projects : Dispatch(p)
    \/ Undo
    \/ Redo
    \/ \E p \in Projects, marked \in BOOLEAN : ReplaceMarked(p, marked)
    \/ \E marked \in BOOLEAN : Serialize(marked)
    \/ UNCHANGED session

(* A stack within the bound stays within it, and below it only grows. *)
LEMMA PushedFacts ==
    ASSUME NEW s \in Seq(Projects), NEW p \in Projects, Len(s) <= MaxHistory
    PROVE  /\ Pushed(s, p) \in Seq(Projects)
           /\ Len(Pushed(s, p)) <= MaxHistory
           /\ Len(s) < MaxHistory => Pushed(s, p) = Append(s, p)
           /\ Len(s) = MaxHistory => Pushed(s, p) = Append(Tail(s), p) /\ s # <<>>
<1>1. MaxHistory \in Nat \ {0} /\ Len(s) \in Nat
  BY MaxHistoryAssumption
<1>2. CASE Len(s) = MaxHistory
  <2>1. s # <<>>
    BY <1>1, <1>2
  <2>2. Tail(s) \in Seq(Projects) /\ Len(Tail(s)) = Len(s) - 1
    BY <2>1
  <2> QED
    BY <1>1, <1>2, <2>1, <2>2 DEF Pushed
<1>3. CASE Len(s) # MaxHistory
  BY <1>1, <1>3 DEF Pushed
<1> QED
  BY <1>2, <1>3

(* The stack u with p pushed on it, from its k-th entry on. *)
PushedFrom(u, p, k, v) ==
    /\ v \in Seq(Projects)
    /\ Len(v) = Len(u) + 2 - k
    /\ \A i \in 1..Len(v) :
          v[i] = IF i + k - 1 <= Len(u) THEN u[i + k - 1] ELSE p

(* The oldest entry goes at the bound, and the others keep their order. *)
LEMMA PushedElements ==
    ASSUME NEW s \in Seq(Projects), NEW p \in Projects, Len(s) <= MaxHistory
    PROVE  PushedFrom(s, p, IF Len(s) + 1 > MaxHistory THEN 2 ELSE 1, Pushed(s, p))
<1> DEFINE n == Len(s)
<1>1. MaxHistory \in Nat \ {0} /\ n \in Nat
  BY MaxHistoryAssumption
<1>2. CASE n = MaxHistory
  <2> DEFINE t == Tail(s)
  <2>1. Pushed(s, p) = Append(t, p) /\ s # <<>>
    BY <1>1, <1>2, PushedFacts
  <2>2. /\ t \in Seq(Projects) /\ Len(t) = n - 1
        /\ \A i \in 1..(n - 1) : t[i] = s[i + 1]
    BY <2>1
  <2> HIDE DEF t
  <2>3. t \in Seq(Projects) /\ Len(t) = n - 1 /\ n - 1 \in Nat
    BY <1>1, <1>2, <2>2
  <2>4. /\ Append(t, p) \in Seq(Projects) /\ Len(Append(t, p)) = n
        /\ Append(t, p)[n] = p
        /\ \A i \in 1..(n - 1) : Append(t, p)[i] = t[i]
    BY <2>3
  <2>5. \A i \in 1..n : Append(t, p)[i] = IF i + 1 <= n THEN s[i + 1] ELSE p
    BY <1>1, <2>2, <2>4
  <2>6. n + 1 > MaxHistory
    BY <1>1, <1>2
  <2> QED
    BY <1>1, <2>1, <2>4, <2>5, <2>6 DEF PushedFrom
<1>3. CASE n # MaxHistory
  <2>1. n < MaxHistory /\ ~(n + 1 > MaxHistory)
    BY <1>1, <1>3
  <2>2. Pushed(s, p) = Append(s, p)
    BY <2>1, PushedFacts
  <2>3. /\ Append(s, p) \in Seq(Projects) /\ Len(Append(s, p)) = n + 1
        /\ Append(s, p)[n + 1] = p
        /\ \A i \in 1..n : Append(s, p)[i] = s[i]
    OBVIOUS
  <2>4. \A i \in 1..(n + 1) : Append(s, p)[i] = IF i <= n THEN s[i] ELSE p
    BY <1>1, <2>3
  <2> QED
    BY <1>1, <2>1, <2>2, <2>3, <2>4 DEF PushedFrom
<1> QED
  BY <1>2, <1>3

(* What a stack loses when its newest state is taken. *)
LEMMA TakenFacts ==
    ASSUME NEW s \in Seq(Projects), s # <<>>
    PROVE  /\ Last(s) \in Projects
           /\ Last(s) = s[Len(s)]
           /\ Front(s) \in Seq(Projects)
           /\ Len(s) \in Nat \ {0}
           /\ Len(Front(s)) = Len(s) - 1
           /\ \A i \in 1..(Len(s) - 1) : Front(s)[i] = s[i]
<1>1. Len(s) \in Nat \ {0}
  BY EmptySeq, LenProperties
<1>2. Last(s) = s[Len(s)] /\ s[Len(s)] \in Projects
  BY <1>1, ElementOfSeq DEF Last
<1>3. Front(s) = SubSeq(s, 1, Len(s) - 1)
  BY DEF Front
<1>4. /\ SubSeq(s, 1, Len(s) - 1) \in Seq(Projects)
      /\ Len(SubSeq(s, 1, Len(s) - 1)) = Len(s) - 1
      /\ \A i \in 1..(Len(s) - 1) : SubSeq(s, 1, Len(s) - 1)[i] = s[i]
  <2> DEFINE k == Len(s) - 1
             t == SubSeq(s, 1, k)
  <2>1. k \in Nat /\ \A i \in 1..k : s[i] \in Projects
    BY <1>1, ElementOfSeq
  <2> HIDE DEF k
  <2>2. /\ t \in Seq(Projects)
        /\ Len(t) = IF 1 <= k THEN k - 1 + 1 ELSE 0
        /\ \A i \in 1..(k - 1 + 1) : t[i] = s[1 + i - 1]
    BY <2>1, SubSeqProperties
  <2> HIDE DEF t
  <2>3. t \in Seq(Projects) /\ Len(t) = k /\ \A i \in 1..k : t[i] = s[i]
    BY <2>1, <2>2
  <2> QED
    BY <2>3 DEF t, k
<1> QED
  BY <1>1, <1>2, <1>3, <1>4

(* Undo puts the project on a redo stack that is not full, and redo back. *)
LEMMA StepFacts ==
    ASSUME SessionInv
    PROVE  /\ Undo => /\ redo_stack' = Append(redo_stack, project)
                      /\ Len(redo_stack') = Len(redo_stack) + 1
           /\ Redo => /\ undo_stack' = Append(undo_stack, project)
                      /\ Len(undo_stack') = Len(undo_stack) + 1
<1>1. /\ MaxHistory \in Nat /\ Len(undo_stack) \in Nat /\ Len(redo_stack) \in Nat
      /\ undo_stack \in Seq(Projects) /\ redo_stack \in Seq(Projects)
      /\ project \in Projects
  BY MaxHistoryAssumption DEF SessionInv, SessionTypeOK
<1>2. Len(undo_stack) + Len(redo_stack) <= MaxHistory
  BY DEF SessionInv, HistoryIsBounded
<1>3. ASSUME Undo PROVE redo_stack' = Append(redo_stack, project)
  <2>1. Len(undo_stack) \in Nat \ {0}
    BY <1>1, <1>3, TakenFacts DEF Undo
  <2>2. Len(redo_stack) < MaxHistory
    BY <1>1, <1>2, <2>1
  <2>3. Pushed(redo_stack, project) = Append(redo_stack, project)
    BY <1>1, <2>2, PushedFacts
  <2> QED
    BY <1>3, <2>3 DEF Undo
<1>4. ASSUME Redo PROVE undo_stack' = Append(undo_stack, project)
  <2>1. Len(redo_stack) \in Nat \ {0}
    BY <1>1, <1>4, TakenFacts DEF Redo
  <2>2. Len(undo_stack) < MaxHistory
    BY <1>1, <1>2, <2>1
  <2>3. Pushed(undo_stack, project) = Append(undo_stack, project)
    BY <1>1, <2>2, PushedFacts
  <2> QED
    BY <1>4, <2>3 DEF Redo
<1> QED
  BY <1>1, <1>3, <1>4

LEMMA SessionStepKeeps ==
    ASSUME SessionInv, SessionStep
    PROVE  SessionInv'
<1>1. MaxHistory \in Nat /\ Len(undo_stack) \in Nat /\ Len(redo_stack) \in Nat
  BY MaxHistoryAssumption DEF SessionInv, SessionTypeOK
<1>2. Len(undo_stack) + Len(redo_stack) <= MaxHistory
  BY DEF SessionInv, HistoryIsBounded
<1>3. ASSUME NEW p \in Projects, Dispatch(p) PROVE SessionInv'
  <2>1. Len(undo_stack) <= MaxHistory
    BY <1>1, <1>2
  <2>2. /\ Pushed(undo_stack, project) \in Seq(Projects)
        /\ Len(Pushed(undo_stack, project)) <= MaxHistory
    BY <2>1, PushedFacts DEF SessionInv, SessionTypeOK
  <2>3. SessionTypeOK' /\ CacheIsCurrent'
    BY <1>3, <2>2 DEF Dispatch, Changed, SessionTypeOK, CacheIsCurrent
  <2>4. HistoryIsBounded'
    BY <1>1, <1>3, <2>2 DEF Dispatch, HistoryIsBounded
  <2> QED
    BY <2>3, <2>4 DEF SessionInv
<1>4. ASSUME Undo PROVE SessionInv'
  <2>1. /\ redo_stack' = Append(redo_stack, project)
        /\ Len(redo_stack') = Len(redo_stack) + 1
    BY <1>4, StepFacts
  <2>2. /\ Last(undo_stack) \in Projects /\ Front(undo_stack) \in Seq(Projects)
        /\ Len(Front(undo_stack)) = Len(undo_stack) - 1
    BY <1>4, TakenFacts DEF Undo, SessionInv, SessionTypeOK
  <2>3. SessionTypeOK' /\ CacheIsCurrent'
    BY <1>4, <2>1, <2>2 DEF Undo, Changed, SessionInv, SessionTypeOK, CacheIsCurrent
  <2>4. HistoryIsBounded'
    BY <1>1, <1>2, <1>4, <2>1, <2>2 DEF Undo, HistoryIsBounded
  <2> QED
    BY <2>3, <2>4 DEF SessionInv
<1>5. ASSUME Redo PROVE SessionInv'
  <2>1. /\ undo_stack' = Append(undo_stack, project)
        /\ Len(undo_stack') = Len(undo_stack) + 1
    BY <1>5, StepFacts
  <2>2. /\ Last(redo_stack) \in Projects /\ Front(redo_stack) \in Seq(Projects)
        /\ Len(Front(redo_stack)) = Len(redo_stack) - 1
    BY <1>5, TakenFacts DEF Redo, SessionInv, SessionTypeOK
  <2>3. SessionTypeOK' /\ CacheIsCurrent'
    BY <1>5, <2>1, <2>2 DEF Redo, Changed, SessionInv, SessionTypeOK, CacheIsCurrent
  <2>4. HistoryIsBounded'
    BY <1>1, <1>2, <1>5, <2>1, <2>2 DEF Redo, HistoryIsBounded
  <2> QED
    BY <2>3, <2>4 DEF SessionInv
<1>6. ASSUME NEW p \in Projects, NEW marked \in BOOLEAN, ReplaceMarked(p, marked)
      PROVE  SessionInv'
  <2>1. <<>> \in Seq(Projects) /\ Len(<<>>) = 0
    OBVIOUS
  <2> QED
    BY <1>1, <1>6, <2>1 DEF ReplaceMarked, Changed, SessionInv, SessionTypeOK,
       HistoryIsBounded, CacheIsCurrent
<1>7. ASSUME NEW marked \in BOOLEAN, Serialize(marked) PROVE SessionInv'
  BY <1>7 DEF Serialize, Document, SessionInv, SessionTypeOK, HistoryIsBounded,
     CacheIsCurrent
<1>8. ASSUME UNCHANGED session PROVE SessionInv'
  BY <1>8 DEF session, SessionInv, SessionTypeOK, HistoryIsBounded, CacheIsCurrent
<1> QED
  BY <1>3, <1>4, <1>5, <1>6, <1>7, <1>8 DEF SessionStep

-----------------------------------------------------------------------------
(* The session refines EditHistory *)

(* The line of edits, entry by entry. *)
LEMMA LineFacts ==
    ASSUME NEW u \in Seq(Projects), NEW p \in Projects, NEW r \in Seq(Projects)
    PROVE  /\ Line(u, p, r) \in Seq(Projects)
           /\ Len(Line(u, p, r)) = Len(u) + 1 + Len(r)
           /\ \A i \in 1..(Len(u) + 1 + Len(r)) :
                 Line(u, p, r)[i] = IF i <= Len(u) THEN u[i]
                                    ELSE IF i = Len(u) + 1 THEN p
                                    ELSE r[Len(u) + Len(r) + 2 - i]
<1>1. Len(u) \in Nat /\ Len(r) \in Nat
  OBVIOUS
<1>2. \A i \in 1..(Len(u) + 1 + Len(r)) :
         (IF i <= Len(u) THEN u[i]
          ELSE IF i = Len(u) + 1 THEN p
          ELSE r[Len(u) + Len(r) + 2 - i]) \in Projects
  BY <1>1
<1>3. Line(u, p, r) \in [1..(Len(u) + 1 + Len(r)) -> Projects]
  BY <1>2 DEF Line
<1>4. Line(u, p, r) \in Seq(Projects) /\ Len(Line(u, p, r)) = Len(u) + 1 + Len(r)
  BY <1>1, <1>3, IsASeq, LenProperties
<1> QED
  BY <1>4 DEF Line

(* Taking the newest state back leaves the line as it is. *)
LEMMA LineAcrossUndo ==
    ASSUME NEW u \in Seq(Projects), NEW p \in Projects, NEW r \in Seq(Projects),
           u # <<>>
    PROVE  Line(Front(u), Last(u), Append(r, p)) = Line(u, p, r)
<1> DEFINE f == Front(u)
           q == Last(u)
           a == Append(r, p)
<1>1. /\ q \in Projects /\ q = u[Len(u)] /\ f \in Seq(Projects)
      /\ Len(u) \in Nat \ {0} /\ Len(f) = Len(u) - 1
      /\ \A i \in 1..(Len(u) - 1) : f[i] = u[i]
  BY TakenFacts
<1>2. /\ a \in Seq(Projects) /\ Len(r) \in Nat /\ Len(a) = Len(r) + 1
      /\ a[Len(r) + 1] = p
      /\ \A i \in 1..Len(r) : a[i] = r[i]
  OBVIOUS
<1> HIDE DEF f, q, a
<1> DEFINE n == Len(u) + 1 + Len(r)
<1>0. f \in Seq(Projects) /\ q \in Projects /\ a \in Seq(Projects)
  BY <1>1, <1>2
<1>3. /\ Line(f, q, a) \in Seq(Projects)
      /\ Len(Line(f, q, a)) = Len(f) + 1 + Len(a)
      /\ \A i \in 1..(Len(f) + 1 + Len(a)) :
            Line(f, q, a)[i] = IF i <= Len(f) THEN f[i]
                               ELSE IF i = Len(f) + 1 THEN q
                               ELSE a[Len(f) + Len(a) + 2 - i]
  BY <1>0, LineFacts
<1>4. /\ Line(u, p, r) \in Seq(Projects)
      /\ Len(Line(u, p, r)) = n
      /\ \A i \in 1..n :
            Line(u, p, r)[i] = IF i <= Len(u) THEN u[i]
                               ELSE IF i = Len(u) + 1 THEN p
                               ELSE r[Len(u) + Len(r) + 2 - i]
  BY LineFacts
<1>5. Len(f) + 1 + Len(a) = n
  BY <1>1, <1>2
<1>6. ASSUME NEW i \in 1..n PROVE Line(f, q, a)[i] = Line(u, p, r)[i]
  <2>1. CASE i < Len(u)
    <3>1. Line(f, q, a)[i] = f[i]
      BY <1>1, <1>2, <1>3, <1>5, <2>1
    <3>2. Line(u, p, r)[i] = u[i]
      BY <1>1, <1>4, <2>1
    <3> QED
      BY <1>1, <2>1, <3>1, <3>2
  <2>2. CASE i = Len(u)
    <3>1. Line(f, q, a)[i] = q
      BY <1>1, <1>2, <1>3, <1>5, <2>2
    <3>2. Line(u, p, r)[i] = u[i]
      BY <1>1, <1>4, <2>2
    <3> QED
      BY <1>1, <2>2, <3>1, <3>2
  <2>3. CASE i = Len(u) + 1
    <3>1. Line(f, q, a)[i] = a[Len(f) + Len(a) + 2 - i]
      BY <1>1, <1>2, <1>3, <1>5, <2>3
    <3>2. Len(f) + Len(a) + 2 - i = Len(r) + 1
      <4> HIDE DEF n
      <4> QED
        BY <1>1, <1>2, <2>3
    <3>3. Line(u, p, r)[i] = p
      BY <1>1, <1>4, <2>3
    <3> QED
      BY <1>2, <3>1, <3>2, <3>3
  <2>4. CASE i > Len(u) + 1
    <3>1. Line(f, q, a)[i] = a[Len(f) + Len(a) + 2 - i]
      BY <1>1, <1>2, <1>3, <1>5, <2>4
    <3>2. /\ Len(f) + Len(a) + 2 - i = Len(u) + Len(r) + 2 - i
          /\ Len(u) + Len(r) + 2 - i \in 1..Len(r)
      BY <1>1, <1>2, <2>4
    <3>3. Line(u, p, r)[i] = r[Len(u) + Len(r) + 2 - i]
      BY <1>1, <1>4, <2>4
    <3> QED
      BY <1>2, <3>1, <3>2, <3>3
  <2> QED
    BY <1>1, <1>2, <2>1, <2>2, <2>3, <2>4
<1>7. Line(f, q, a) = Line(u, p, r)
  <2> DEFINE l == Line(f, q, a)
             k == Line(u, p, r)
  <2>1. l \in Seq(Projects) /\ Len(l) = n
    BY <1>3, <1>5
  <2>2. k \in Seq(Projects) /\ Len(k) = n
    BY <1>4
  <2>3. \A i \in 1..n : l[i] = k[i]
    BY <1>6
  <2> HIDE DEF l, k, n
  <2>4. Len(l) = Len(k) /\ \A i \in 1..Len(l) : l[i] = k[i]
    BY <2>1, <2>2, <2>3
  <2>5. l = k
    BY <2>1, <2>2, <2>4, SeqEqual
  <2> QED
    BY <2>5 DEF l, k
<1> QED
  BY <1>7 DEF f, q, a

(* Putting it forward again is the same line read the other way. *)
LEMMA LineAcrossRedo ==
    ASSUME NEW u \in Seq(Projects), NEW p \in Projects, NEW r \in Seq(Projects),
           r # <<>>
    PROVE  Line(Append(u, p), Last(r), Front(r)) = Line(u, p, r)
<1> DEFINE a == Append(u, p)
           q == Last(r)
           f == Front(r)
<1>1. /\ q \in Projects /\ f \in Seq(Projects) /\ Len(r) \in Nat \ {0}
      /\ Len(f) = Len(r) - 1 /\ q = r[Len(r)]
      /\ \A i \in 1..(Len(r) - 1) : f[i] = r[i]
  BY TakenFacts
<1>2. a \in Seq(Projects) /\ a # <<>> /\ Len(a) = Len(u) + 1
  OBVIOUS
<1>3. Last(a) = p /\ Front(a) = u
  <2>1. /\ Last(a) = a[Len(a)] /\ Front(a) \in Seq(Projects)
        /\ Len(Front(a)) = Len(a) - 1
        /\ \A i \in 1..(Len(a) - 1) : Front(a)[i] = a[i]
    BY <1>2, TakenFacts
  <2>2. /\ a[Len(u) + 1] = p /\ Len(u) \in Nat
        /\ \A i \in 1..Len(u) : a[i] = u[i]
    OBVIOUS
  <2> HIDE DEF a
  <2>3. Last(a) = p /\ Len(Front(a)) = Len(u)
    BY <1>2, <2>1, <2>2
  <2>4. \A i \in 1..Len(u) : Front(a)[i] = u[i]
    BY <1>2, <2>1, <2>2
  <2>5. Front(a) = u
    BY <2>1, <2>3, <2>4, SeqEqual
  <2> QED
    BY <2>3, <2>5
<1>4. Append(f, q) = r
  <2>1. /\ Append(f, q) \in Seq(Projects) /\ Len(Append(f, q)) = Len(f) + 1
        /\ Append(f, q)[Len(f) + 1] = q
        /\ \A i \in 1..Len(f) : Append(f, q)[i] = f[i]
    BY <1>1
  <2> HIDE DEF f, q
  <2>2. \A i \in 1..Len(r) : Append(f, q)[i] = r[i]
    BY <1>1, <2>1
  <2> QED
    BY <1>1, <2>1, <2>2, SeqEqual
<1> HIDE DEF a, q, f
<1>5. Line(Front(a), Last(a), Append(f, q)) = Line(a, q, f)
  BY <1>1, <1>2, LineAcrossUndo
<1> QED
  BY <1>3, <1>4, <1>5 DEF a, q, f

(* An edit follows the line up to the project, less its oldest entries. *)
LEMMA LineAcrossEdit ==
    ASSUME NEW u \in Seq(Projects), NEW p \in Projects, NEW r \in Seq(Projects),
           NEW q \in Projects, NEW k \in {1, 2}, k <= Len(u) + 1,
           NEW v, PushedFrom(u, p, k, v)
    PROVE  Line(v, q, <<>>) = Append(SubSeq(Line(u, p, r), k, Len(u) + 1), q)
<1> DEFINE l == Line(u, p, r)
           kept == SubSeq(l, k, Len(u) + 1)
           n == Len(u) + 2 - k
<1>1. /\ l \in Seq(Projects) /\ Len(l) = Len(u) + 1 + Len(r)
      /\ \A i \in 1..(Len(u) + 1 + Len(r)) :
            l[i] = IF i <= Len(u) THEN u[i]
                   ELSE IF i = Len(u) + 1 THEN p
                   ELSE r[Len(u) + Len(r) + 2 - i]
  BY LineFacts
<1>2. /\ Len(u) \in Nat /\ Len(r) \in Nat /\ n \in Nat
      /\ v \in Seq(Projects) /\ Len(v) = n
  BY DEF PushedFrom
<1> HIDE DEF l
<1>3. /\ kept \in Seq(Projects) /\ Len(kept) = n
      /\ \A i \in 1..n : kept[i] = l[k + i - 1]
  BY <1>1, <1>2, SMTT(30)
<1>4. ASSUME NEW i \in 1..n PROVE l[k + i - 1] = v[i]
  <2>1. /\ k + i - 1 \in 1..(Len(u) + 1) /\ k + i - 1 = i + k - 1
        /\ k + i - 1 \in 1..(Len(u) + 1 + Len(r)) /\ i \in 1..Len(v)
    BY <1>2
  <2>2. v[i] = IF i + k - 1 <= Len(u) THEN u[i + k - 1] ELSE p
    BY <2>1 DEF PushedFrom
  <2>3. l[k + i - 1] = IF k + i - 1 <= Len(u) THEN u[k + i - 1]
                       ELSE IF k + i - 1 = Len(u) + 1 THEN p
                       ELSE r[Len(u) + Len(r) + 2 - (k + i - 1)]
    BY <1>1, <2>1
  <2>4. ~(k + i - 1 <= Len(u)) => k + i - 1 = Len(u) + 1
    BY <1>2, <2>1
  <2> QED
    BY <2>1, <2>2, <2>3, <2>4
<1> HIDE DEF kept
<1>5. /\ Append(kept, q) \in Seq(Projects) /\ Len(Append(kept, q)) = n + 1
      /\ Append(kept, q)[n + 1] = q
      /\ \A i \in 1..n : Append(kept, q)[i] = v[i]
  <2>1. \A i \in 1..n : kept[i] = v[i]
    BY <1>3, <1>4
  <2>2. n \in Nat /\ kept \in Seq(Projects) /\ Len(kept) = n
    BY <1>2, <1>3
  <2> HIDE DEF n
  <2>3. /\ Append(kept, q) \in Seq(Projects) /\ Len(Append(kept, q)) = n + 1
        /\ Append(kept, q)[n + 1] = q
        /\ \A i \in 1..n : Append(kept, q)[i] = kept[i]
    BY <2>2
  <2> QED
    BY <2>1, <2>3
<1>6. /\ Line(v, q, <<>>) \in Seq(Projects) /\ Len(Line(v, q, <<>>)) = n + 1
      /\ \A i \in 1..(n + 1) :
            Line(v, q, <<>>)[i] = IF i <= n THEN v[i] ELSE q
  <2> DEFINE e == <<>>
  <2>1. e \in Seq(Projects) /\ Len(e) = 0
    OBVIOUS
  <2>0. v \in Seq(Projects) /\ q \in Projects /\ e \in Seq(Projects)
    BY <1>2, <2>1
  <2> HIDE DEF e
  <2>2. /\ Line(v, q, e) \in Seq(Projects)
        /\ Len(Line(v, q, e)) = Len(v) + 1 + Len(e)
        /\ \A i \in 1..(Len(v) + 1 + Len(e)) :
              Line(v, q, e)[i] = IF i <= Len(v) THEN v[i]
                                 ELSE IF i = Len(v) + 1 THEN q
                                 ELSE e[Len(v) + Len(e) + 2 - i]
    BY <2>0, LineFacts
  <2>3. /\ Line(v, q, e) \in Seq(Projects) /\ Len(Line(v, q, e)) = n + 1
        /\ \A i \in 1..(n + 1) : Line(v, q, e)[i] = IF i <= n THEN v[i] ELSE q
    <3>1. Len(v) + 1 + Len(e) = n + 1 /\ Len(v) = n
      BY <1>2, <2>1
    <3>2. \A i \in 1..(n + 1) : ~(i <= n) => i = n + 1
      BY <1>2
    <3> QED
      BY <2>2, <3>1, <3>2
  <2> QED
    BY <2>3 DEF e
<1>7. \A i \in 1..(n + 1) : Line(v, q, <<>>)[i] = Append(kept, q)[i]
  BY <1>2, <1>5, <1>6
<1>8. Line(v, q, <<>>) = Append(kept, q)
  <2> DEFINE j == Line(v, q, <<>>)
             a == Append(kept, q)
  <2>1. j \in Seq(Projects) /\ Len(j) = n + 1
    BY <1>6
  <2>2. a \in Seq(Projects) /\ Len(a) = n + 1
    BY <1>5
  <2>3. \A i \in 1..(n + 1) : j[i] = a[i]
    BY <1>7
  <2> HIDE DEF j, a, n
  <2>4. Len(j) = Len(a) /\ \A i \in 1..Len(j) : j[i] = a[i]
    BY <2>1, <2>2, <2>3
  <2>5. j = a
    BY <2>1, <2>2, <2>4, SeqEqual
  <2> QED
    BY <2>5 DEF j, a
<1> QED
  BY <1>8 DEF kept, l

LEMMA SessionStepRefines ==
    ASSUME SessionInv, SessionStep
    PROVE  [Edits!Next]_<<Timeline, Len(undo_stack) + 1>>
<1> DEFINE back == Len(undo_stack)
<1>1. /\ project \in Projects
      /\ undo_stack \in Seq(Projects) /\ redo_stack \in Seq(Projects)
      /\ back \in Nat /\ Len(redo_stack) \in Nat
  BY DEF SessionInv, SessionTypeOK
<1>2. MaxHistory \in Nat \ {0} /\ back <= MaxHistory
  BY <1>1, MaxHistoryAssumption DEF SessionInv, HistoryIsBounded
<1>3. Len(Timeline) = back + 1 + Len(redo_stack)
  BY <1>1, LineFacts DEF Timeline
<1>4. ASSUME NEW p \in Projects, Dispatch(p) PROVE Edits!Edit
  <2> DEFINE k == IF back + 1 > MaxHistory THEN 2 ELSE 1
             v == Pushed(undo_stack, project)
  <2>1. k \in {1, 2} /\ k <= back + 1
    BY <1>1, <1>2
  <2>2. PushedFrom(undo_stack, project, k, v)
    BY <1>1, <1>2, PushedElements
  <2> HIDE DEF k, v
  <2>3. Line(v, p, <<>>)
          = Append(SubSeq(Line(undo_stack, project, redo_stack), k, back + 1), p)
    BY <1>1, <2>1, <2>2, LineAcrossEdit
  <2>4. project' = p /\ undo_stack' = v /\ redo_stack' = <<>>
    BY <1>4 DEF Dispatch, v
  <2>5. Timeline' = Append(SubSeq(Timeline, k, back + 1), p)
    BY <2>3, <2>4 DEF Timeline
  <2>6. back' + 1 = back + 1 + 2 - k
    BY <1>1, <2>1, <2>2, <2>4 DEF PushedFrom
  <2> QED
    BY <2>5, <2>6 DEF Edits!Edit, k
<1>5. ASSUME Undo PROVE Edits!StepBack
  <2>1. redo_stack' = Append(redo_stack, project)
    BY <1>5, StepFacts
  <2>2. undo_stack # <<>> /\ project' = Last(undo_stack) /\ undo_stack' = Front(undo_stack)
    BY <1>5 DEF Undo
  <2>3. Timeline' = Timeline
    BY <1>1, <2>1, <2>2, LineAcrossUndo DEF Timeline
  <2>4. back \in Nat \ {0} /\ back' = back - 1
    BY <1>1, <2>2, TakenFacts
  <2> QED
    BY <2>3, <2>4 DEF Edits!StepBack
<1>6. ASSUME Redo PROVE Edits!StepForward
  <2>1. undo_stack' = Append(undo_stack, project) /\ back' = back + 1
    BY <1>6, StepFacts
  <2>2. redo_stack # <<>> /\ project' = Last(redo_stack) /\ redo_stack' = Front(redo_stack)
    BY <1>6 DEF Redo
  <2>3. Timeline' = Timeline
    BY <1>1, <2>1, <2>2, LineAcrossRedo DEF Timeline
  <2>4. Len(redo_stack) \in Nat \ {0}
    BY <1>1, <2>2, TakenFacts
  <2>5. back + 1 < Len(Timeline)
    BY <1>1, <1>3, <2>4
  <2> QED
    BY <1>1, <2>1, <2>3, <2>5 DEF Edits!StepForward
<1>7. ASSUME NEW p \in Projects, NEW marked \in BOOLEAN, ReplaceMarked(p, marked)
      PROVE  Edits!Open
  <2>1. project' = p /\ undo_stack' = <<>> /\ redo_stack' = <<>>
    BY <1>7 DEF ReplaceMarked
  <2>2. <<>> \in Seq(Projects) /\ Len(<<>>) = 0
    OBVIOUS
  <2>3. Line(<<>>, p, <<>>) = [i \in 1..1 |-> p]
    BY <2>2 DEF Line
  <2>4. Timeline' \in [1..1 -> Projects]
    BY <2>1, <2>3 DEF Timeline
  <2>5. back' + 1 = 1
    BY <2>1, <2>2
  <2> QED
    BY <2>4, <2>5 DEF Edits!Open
<1>8. ASSUME UNCHANGED <<project, undo_stack, redo_stack>>
      PROVE  UNCHANGED <<Timeline, back + 1>>
  BY <1>8 DEF Timeline
<1>9. ASSUME NEW marked \in BOOLEAN, Serialize(marked)
      PROVE  UNCHANGED <<project, undo_stack, redo_stack>>
  BY <1>9 DEF Serialize
<1>10. ASSUME UNCHANGED session PROVE UNCHANGED <<project, undo_stack, redo_stack>>
  BY <1>10 DEF session
<1> QED
  BY <1>4, <1>5, <1>6, <1>7, <1>8, <1>9, <1>10 DEF SessionStep, Edits!Next

-----------------------------------------------------------------------------
(* The files *)

SaveRecord == [file : Paths, doc : Projects, step : Steps, end : Ends, target : Paths]

FilesTypeOK ==
    /\ path \in Paths
    /\ final \in [Paths -> Contents]
    /\ temp \in [Paths -> Contents]
    /\ saving \in {None} \cup SaveRecord

FinalsAreWhole == \A f \in Paths : final[f].synced /\ final[f].doc # Torn

(* A save writes the project, but for the one whose document is then loaded;
   what it renames is synchronized; a file is moved once it holds the project. *)
SaveIsCurrent ==
    saving # None =>
        /\ saving.step = "rename" => temp[saving.file] = Content(saving.doc, TRUE)
        /\ saving.step # "move" /\ saving.end # "load" => saving.doc = project
        /\ saving.step = "move" => /\ saving.end = "move"
                                  /\ final[saving.file].doc = project
        /\ saving.end = "move" => saving.target # saving.file

CleanIsKept ==
    ~dirty => \/ project = Initial
              \/ \E f \in Paths : final[f].doc = project

FilesInv == FilesTypeOK /\ FinalsAreWhole /\ SaveIsCurrent /\ CleanIsKept

LEMMA ContentFacts ==
    /\ NoFile \in Contents /\ NoFile.synced = TRUE /\ NoFile.doc # Torn
    /\ TornFile \in Contents
    /\ \A d \in Projects, synced \in BOOLEAN :
          /\ Content(d, synced) \in Contents /\ Content(d, synced).doc = d
          /\ Content(d, synced).synced = synced
    /\ \A c \in Contents :
          /\ Kept(c) \in Contents /\ Kept(c).doc = c.doc /\ Kept(c).synced = TRUE
          /\ c.synced \in BOOLEAN
          /\ Parsed(c) => c.doc \in Projects
  BY TornAssumption DEF NoFile, TornFile, Content, Contents, Kept, Parsed

LEMMA SaveFacts ==
    ASSUME NEW f \in Paths, NEW d \in Projects, NEW e \in Ends, NEW t \in Paths
    PROVE  /\ Save(f, d, e, t) \in SaveRecord
           /\ Save(f, d, e, t).file = f /\ Save(f, d, e, t).doc = d
           /\ Save(f, d, e, t).step = "open" /\ Save(f, d, e, t).end = e
           /\ Save(f, d, e, t).target = t
  BY DEF Save, SaveRecord, Steps

LEMMA StepOfSaveFacts ==
    ASSUME NEW s \in SaveRecord, NEW x \in Steps
    PROVE  /\ [s EXCEPT !.step = x] \in SaveRecord
           /\ [s EXCEPT !.step = x].file = s.file
           /\ [s EXCEPT !.step = x].doc = s.doc
           /\ [s EXCEPT !.step = x].step = x
           /\ [s EXCEPT !.step = x].end = s.end
           /\ [s EXCEPT !.step = x].target = s.target
  BY DEF SaveRecord

(* No saving record is None, whatever None is: a save under way has its type. *)
LEMMA SavingFacts ==
    ASSUME FilesTypeOK, saving # None
    PROVE  /\ saving \in SaveRecord
           /\ saving.file \in Paths /\ saving.doc \in Projects
           /\ saving.step \in Steps /\ saving.end \in Ends
           /\ saving.target \in Paths
  BY DEF FilesTypeOK, SaveRecord

LEMMA DocumentIsProject ==
    ASSUME SessionInv
    PROVE  Document = project
  BY DEF SessionInv, CacheIsCurrent, Document

(* The session on a start. *)
LEMMA StartKeeps ==
    ASSUME NEW finals \in [Paths -> Contents], NEW temps \in [Paths -> Contents],
           \A f \in Paths : finals[f].synced /\ finals[f].doc # Torn,
           Start(finals, temps)
    PROVE  SessionStep /\ FilesInv'
<1> DEFINE p == IF Parsed(finals[SettingsPath]) THEN finals[SettingsPath].doc
                ELSE Initial
<1>1. p \in Projects
  BY InitialAssumption DEF Parsed
<1>2. /\ final' = finals /\ temp' = temps /\ path' = SettingsPath /\ saving' = None
      /\ Replace(p)
  BY DEF Start
<1>3. SessionStep
  BY <1>1, <1>2 DEF SessionStep, Replace
<1>4. project' = p
  BY <1>2 DEF Replace, ReplaceMarked
<1>5. FilesTypeOK' /\ FinalsAreWhole' /\ SaveIsCurrent'
  BY <1>2, SettingsPathAssumption DEF FilesTypeOK, FinalsAreWhole, SaveIsCurrent
<1>6. CleanIsKept'
  BY <1>2, <1>4, SettingsPathAssumption DEF CleanIsKept
<1> QED
  BY <1>3, <1>5, <1>6 DEF FilesInv

(* The beginning of a save changes no file. *)
LEMMA BeginKeeps ==
    ASSUME SessionInv, FilesInv,
           NEW f \in Paths, NEW e \in Ends, NEW t \in Paths,
           e = "move" => t # f,
           Begin(f, e, t)
    PROVE  SessionStep /\ FilesInv'
<1>1. /\ saving' = Save(f, project, e, t) /\ Serialize(dirty)
      /\ UNCHANGED <<path, final, temp>>
  BY DocumentIsProject DEF Begin
<1>2. project \in Projects /\ dirty \in BOOLEAN
  BY DEF SessionInv, SessionTypeOK
<1>3. SessionStep
  BY <1>1, <1>2 DEF SessionStep
<1>4. UNCHANGED <<project, dirty>>
  BY <1>1 DEF Serialize
<1>5. /\ saving' \in SaveRecord /\ saving'.doc = project /\ saving'.step = "open"
      /\ saving'.end = e /\ saving'.target = t /\ saving'.file = f
  BY <1>1, <1>2, SaveFacts
<1>6. FilesTypeOK' /\ FinalsAreWhole' /\ CleanIsKept'
  BY <1>1, <1>4, <1>5 DEF FilesInv, FilesTypeOK, FinalsAreWhole, CleanIsKept
<1>7. SaveIsCurrent'
  BY <1>4, <1>5 DEF SaveIsCurrent
<1> QED
  BY <1>3, <1>6, <1>7 DEF FilesInv

(* A step that changes no final file while no save is under way. *)
LEMMA IdleKeeps ==
    ASSUME FilesInv, saving = None, UNCHANGED <<final, saving>>,
           path' \in Paths, temp' \in [Paths -> Contents],
           CleanIsKept'
    PROVE  FilesInv'
  BY DEF FilesInv, FilesTypeOK, FinalsAreWhole, SaveIsCurrent

LEMMA TempKeeps ==
    ASSUME SessionInv, FilesInv,
           NEW step \in Steps, NEW content \in Contents, NEW next \in Steps,
           step # "move", next # "move",
           next = "rename" => content = Content(saving.doc, TRUE),
           TempBecomes(step, content, next)
    PROVE  SessionStep /\ FilesInv'
<1>1. /\ saving # None /\ saving.step = step
      /\ temp' = [temp EXCEPT ![saving.file] = content]
      /\ saving' = [saving EXCEPT !.step = next]
      /\ UNCHANGED <<session, path, final>>
  BY DEF TempBecomes, At
<1>2. saving \in SaveRecord /\ saving.file \in Paths
  BY <1>1, SavingFacts DEF FilesInv
<1>3. /\ saving' \in SaveRecord /\ saving'.file = saving.file
      /\ saving'.doc = saving.doc /\ saving'.step = next
      /\ saving'.end = saving.end /\ saving'.target = saving.target
  BY <1>1, <1>2, StepOfSaveFacts
<1>4. temp' \in [Paths -> Contents] /\ temp'[saving.file] = content
  BY <1>1, <1>2 DEF FilesInv, FilesTypeOK
<1>5. UNCHANGED <<project, dirty>> /\ SessionStep
  BY <1>1 DEF session, SessionStep
<1>6. FilesTypeOK' /\ FinalsAreWhole' /\ CleanIsKept'
  BY <1>1, <1>3, <1>4, <1>5 DEF FilesInv, FilesTypeOK, FinalsAreWhole, CleanIsKept
<1>7. SaveIsCurrent'
  BY <1>1, <1>3, <1>4, <1>5 DEF FilesInv, SaveIsCurrent
<1> QED
  BY <1>5, <1>6, <1>7 DEF FilesInv

(* What the rename does to the files. *)
LEMMA PublishedFacts ==
    ASSUME FilesInv, At("rename")
    PROVE  /\ Published \in [Paths -> Contents]
           /\ WithoutTemp \in [Paths -> Contents]
           /\ Published[saving.file].doc = saving.doc
           /\ \A f \in Paths : Published[f].synced /\ Published[f].doc # Torn
<1>1. /\ saving # None /\ saving.file \in Paths /\ saving.doc \in Projects
      /\ temp[saving.file] = Content(saving.doc, TRUE)
  BY SavingFacts DEF At, FilesInv, SaveIsCurrent
<1>2. /\ Content(saving.doc, TRUE) \in Contents
      /\ Content(saving.doc, TRUE).doc = saving.doc
      /\ Content(saving.doc, TRUE).synced = TRUE
      /\ NoFile \in Contents
  BY <1>1, ContentFacts
<1> DEFINE c == Content(saving.doc, TRUE)
<1> HIDE DEF c
<1>3. c \in Contents /\ c.doc = saving.doc /\ c.synced = TRUE /\ c.doc # Torn
  BY <1>1, <1>2, TornAssumption DEF c
<1>4. Published = [final EXCEPT ![saving.file] = c]
  BY <1>1 DEF Published, c
<1>5. Published \in [Paths -> Contents] /\ WithoutTemp \in [Paths -> Contents]
  BY <1>1, <1>2, <1>3, <1>4 DEF WithoutTemp, FilesInv, FilesTypeOK
<1>6. /\ Published[saving.file] = c
      /\ \A f \in Paths : f # saving.file => Published[f] = final[f]
  BY <1>1, <1>4 DEF FilesInv, FilesTypeOK
<1> QED
  BY <1>1, <1>3, <1>5, <1>6 DEF FilesInv, FinalsAreWhole

(* The project a finished save leaves is in the file it wrote. *)
LEMMA PublishKeeps ==
    ASSUME SessionInv, FilesInv, Publish
    PROVE  SessionStep /\ FilesInv'
<1>1. /\ At("rename") /\ saving.end # "exit"
      /\ final' = Published /\ temp' = WithoutTemp
      /\ Continue(saving.end)
  BY DEF Publish
<1>2. /\ saving # None /\ saving.step = "rename"
      /\ saving \in SaveRecord /\ saving.file \in Paths /\ saving.doc \in Projects
      /\ saving.end \in Ends /\ saving.target \in Paths
  BY <1>1, SavingFacts DEF At, FilesInv
<1>3. /\ final' \in [Paths -> Contents] /\ temp' \in [Paths -> Contents]
      /\ final'[saving.file].doc = saving.doc
      /\ FinalsAreWhole'
  BY <1>1, PublishedFacts DEF FinalsAreWhole
<1>4. saving.end # "load" => saving.doc = project
  BY <1>2 DEF FilesInv, SaveIsCurrent
<1>5. /\ saving.end = "move" => saving.target # saving.file
      /\ path \in Paths
  BY <1>2 DEF FilesInv, SaveIsCurrent, FilesTypeOK
<1>6. /\ project \in Projects /\ Document = project
      /\ "load" \in Ends /\ "switch" \in Ends /\ "move" \in Steps
      /\ Initial \in Projects
  BY DocumentIsProject, InitialAssumption DEF SessionInv, SessionTypeOK, Ends, Steps
<1>7. CASE saving.end = "export"
  <2>1. saving' = None /\ UNCHANGED <<session, path>>
    BY <1>1, <1>7 DEF Continue
  <2>2. UNCHANGED <<project, dirty>> /\ SessionStep
    BY <2>1 DEF session, SessionStep
  <2>3. CleanIsKept' /\ FilesTypeOK' /\ SaveIsCurrent'
    BY <1>2, <1>3, <1>4, <1>5, <1>7, <2>1, <2>2
       DEF CleanIsKept, FilesTypeOK, SaveIsCurrent
  <2> QED
    BY <1>3, <2>2, <2>3 DEF FilesInv
<1>8. CASE saving.end = "load"
  <2>1. saving' = None /\ Replace(saving.doc) /\ path' = saving.file
    BY <1>1, <1>8 DEF Continue
  <2>2. project' = saving.doc /\ SessionStep
    BY <1>2, <2>1 DEF Replace, ReplaceMarked, SessionStep
  <2>3. CleanIsKept' /\ FilesTypeOK' /\ SaveIsCurrent'
    BY <1>2, <1>3, <2>1, <2>2 DEF CleanIsKept, FilesTypeOK, SaveIsCurrent
  <2> QED
    BY <1>3, <2>2, <2>3 DEF FilesInv
<1>9. ASSUME Serialize(FALSE), path' \in Paths,
             \/ saving' = None
             \/ /\ saving' \in SaveRecord
                /\ saving'.step = "open"
                /\ saving'.end = "load"
             \/ /\ saving' \in SaveRecord
                /\ saving'.step = "open"
                /\ saving'.end = "switch" /\ saving'.doc = project
             \/ /\ saving' \in SaveRecord
                /\ saving'.step = "move" /\ saving'.end = "move"
                /\ saving'.file = saving.file /\ saving'.target # saving.file,
             saving.doc = project
      PROVE  SessionStep /\ FilesInv'
  <2>1. project' = project /\ SessionStep
    BY <1>9 DEF Serialize, SessionStep
  <2>2. FilesTypeOK'
    BY <1>3, <1>9 DEF FilesTypeOK
  <2>3. CleanIsKept'
    BY <1>2, <1>3, <1>9, <2>1 DEF CleanIsKept
  <2>4. SaveIsCurrent'
    BY <1>2, <1>3, <1>9, <2>1 DEF SaveIsCurrent
  <2> QED
    BY <1>3, <2>1, <2>2, <2>3, <2>4 DEF FilesInv
<1>10. CASE saving.end = "stay"
  <2>1. saving' = None /\ Serialize(FALSE) /\ UNCHANGED path
    BY <1>1, <1>10 DEF Continue
  <2> QED
    BY <1>4, <1>5, <1>9, <1>10, <2>1
<1>11. CASE saving.end = "switch"
  <2>1. saving' = None /\ Serialize(FALSE) /\ path' = saving.file
    BY <1>1, <1>11 DEF Continue
  <2> QED
    BY <1>2, <1>4, <1>9, <1>11, <2>1
<1>12. CASE saving.end = "create"
  <2>1. /\ saving' = Save(saving.target, Initial, "load", saving.target)
        /\ Serialize(FALSE) /\ UNCHANGED path
    BY <1>1, <1>12 DEF Continue
  <2>2. saving' \in SaveRecord /\ saving'.step = "open" /\ saving'.end = "load"
    BY <1>2, <1>6, <2>1, SaveFacts
  <2> QED
    BY <1>4, <1>5, <1>9, <1>12, <2>1, <2>2
<1>13. CASE saving.end = "duplicate"
  <2>1. /\ saving' = Save(saving.target, project, "switch", saving.target)
        /\ Serialize(FALSE) /\ UNCHANGED path
    BY <1>1, <1>6, <1>13 DEF Continue
  <2>2. /\ saving' \in SaveRecord /\ saving'.step = "open"
        /\ saving'.end = "switch" /\ saving'.doc = project
    BY <1>2, <1>6, <2>1, SaveFacts
  <2> QED
    BY <1>4, <1>5, <1>9, <1>13, <2>1, <2>2
<1>14. CASE saving.end = "move"
  <2>1. /\ saving' = [saving EXCEPT !.step = "move"]
        /\ Serialize(FALSE) /\ UNCHANGED path
    BY <1>1, <1>14 DEF Continue
  <2>2. /\ saving' \in SaveRecord /\ saving'.step = "move"
        /\ saving'.end = "move" /\ saving'.file = saving.file
        /\ saving'.target = saving.target
    BY <1>2, <1>6, <1>14, <2>1, StepOfSaveFacts
  <2> QED
    BY <1>4, <1>5, <1>9, <1>14, <2>1, <2>2
<1> QED
  BY <1>1, <1>2, <1>7, <1>8, <1>10, <1>11, <1>12, <1>13, <1>14 DEF Ends

(* The move puts the project at the target. *)
LEMMA MoveKeeps ==
    ASSUME SessionInv, FilesInv, MoveFile
    PROVE  SessionStep /\ FilesInv'
<1>1. /\ saving # None /\ saving.step = "move" /\ saving' = None
      /\ final' = [final EXCEPT ![saving.target] = final[saving.file],
                               ![saving.file] = NoFile]
      /\ path' = saving.target
      /\ UNCHANGED <<session, temp>>
  BY DEF MoveFile, At
<1>2. saving.file \in Paths /\ saving.target \in Paths
  BY <1>1, SavingFacts DEF FilesInv
<1>3. saving.target # saving.file /\ final[saving.file].doc = project
  BY <1>1 DEF FilesInv, SaveIsCurrent
<1> DEFINE moved == final[saving.file]
<1>4. /\ moved \in Contents /\ NoFile \in Contents
      /\ moved.synced /\ moved.doc # Torn
      /\ NoFile.synced = TRUE /\ NoFile.doc # Torn
  BY <1>2, ContentFacts DEF FilesInv, FilesTypeOK, FinalsAreWhole
<1>5. final' = [[final EXCEPT ![saving.target] = moved] EXCEPT ![saving.file] = NoFile]
  BY <1>1
<1> HIDE DEF moved
<1>6. final' \in [Paths -> Contents]
  BY <1>2, <1>4, <1>5 DEF FilesInv, FilesTypeOK
<1>7. /\ final'[saving.target] = moved /\ final'[saving.file] = NoFile
      /\ \A f \in Paths : f # saving.target /\ f # saving.file => final'[f] = final[f]
  BY <1>2, <1>3, <1>5 DEF FilesInv, FilesTypeOK
<1>8. FinalsAreWhole'
  BY <1>2, <1>4, <1>7 DEF FilesInv, FinalsAreWhole
<1>9. project' = project /\ SessionStep
  BY <1>1 DEF session, SessionStep
<1>10. CleanIsKept'
  BY <1>2, <1>3, <1>7, <1>9 DEF CleanIsKept, moved
<1>11. FilesTypeOK' /\ SaveIsCurrent'
  BY <1>1, <1>2, <1>6 DEF FilesTypeOK, SaveIsCurrent, FilesInv
<1> QED
  BY <1>8, <1>9, <1>10, <1>11 DEF FilesInv

(* A save that ends without its rename. *)
LEMMA SaveEndsKeeps ==
    ASSUME SessionInv, FilesInv, temp' \in [Paths -> Contents],
           saving' = None, UNCHANGED <<session, path, final>>
    PROVE  SessionStep /\ FilesInv'
<1>1. UNCHANGED <<project, dirty>> /\ SessionStep
  BY DEF session, SessionStep
<1> QED
  BY <1>1 DEF FilesInv, FilesTypeOK, FinalsAreWhole, SaveIsCurrent, CleanIsKept

(* A crash keeps what is synchronized, and every final file is. *)
LEMMA SurvivorsFacts ==
    ASSUME NEW files \in [Paths -> Contents], NEW kept \in Survivors(files)
    PROVE  /\ kept \in [Paths -> Contents]
           /\ \A f \in Paths : files[f].synced =>
                 kept[f].doc = files[f].doc /\ kept[f].synced = TRUE
<1>1. PICK torn \in SUBSET {f \in Paths : ~files[f].synced} :
         kept = [f \in Paths |-> IF f \in torn THEN TornFile ELSE Kept(files[f])]
  BY DEF Survivors
<1>2. \A f \in Paths : /\ Kept(files[f]) \in Contents
                      /\ Kept(files[f]).doc = files[f].doc
                      /\ Kept(files[f]).synced = TRUE
  BY ContentFacts
<1>3. TornFile \in Contents
  BY ContentFacts
<1>4. kept \in [Paths -> Contents]
  BY <1>1, <1>2, <1>3
<1>5. \A f \in Paths : files[f].synced => kept[f] = Kept(files[f])
  BY <1>1
<1> QED
  BY <1>2, <1>4, <1>5

LEMMA CrashKeeps ==
    ASSUME FilesInv, Crash
    PROVE  SessionStep /\ FilesInv'
<1>1. PICK finals \in Survivors(final), temps \in Survivors(temp) :
         Start(finals, temps)
  BY DEF Crash
<1>2. /\ finals \in [Paths -> Contents]
      /\ \A f \in Paths : finals[f].doc = final[f].doc /\ finals[f].synced = TRUE
  BY SurvivorsFacts DEF FilesInv, FilesTypeOK, FinalsAreWhole
<1>3. temps \in [Paths -> Contents]
  BY SurvivorsFacts DEF FilesInv, FilesTypeOK
<1>4. \A f \in Paths : finals[f].synced /\ finals[f].doc # Torn
  BY <1>2 DEF FilesInv, FinalsAreWhole
<1> QED
  BY <1>1, <1>2, <1>3, <1>4, StartKeeps

(* What a failed step may leave of the temporary file. *)
LEMMA FailedTempsFacts ==
    ASSUME FilesInv, saving # None, NEW temps \in FailedTemps
    PROVE  temps \in [Paths -> Contents]
<1>1. NoFile \in Contents /\ saving.file \in Paths
  BY ContentFacts, SavingFacts DEF FilesInv
<1> QED
  BY <1>1 DEF FailedTemps, WithoutTemp, FilesInv, FilesTypeOK

LEMMA RestartKeeps ==
    ASSUME FilesInv, Restart
    PROVE  SessionStep /\ FilesInv'
<1>1. CASE At("rename") /\ Start(Published, WithoutTemp)
  BY <1>1, PublishedFacts, StartKeeps
<1>2. ASSUME NEW temps \in FailedTemps, Start(final, temps), saving # None
      PROVE  SessionStep /\ FilesInv'
  <2>1. temps \in [Paths -> Contents]
    BY <1>2, FailedTempsFacts
  <2>2. final \in [Paths -> Contents]
    BY DEF FilesInv, FilesTypeOK
  <2>3. \A f \in Paths : final[f].synced /\ final[f].doc # Torn
    BY DEF FilesInv, FinalsAreWhole
  <2> QED
    BY <1>2, <2>1, <2>2, <2>3, StartKeeps
<1> QED
  BY <1>1, <1>2 DEF Restart

(* What opens another project: it is in a file, or the starter, or marked. *)
LEMMA ReplacedKeeps ==
    ASSUME FilesInv, saving = None, NEW p \in Projects, NEW marked \in BOOLEAN,
           ReplaceMarked(p, marked), path' \in Paths, UNCHANGED <<final, temp, saving>>,
           marked \/ p = Initial \/ \E f \in Paths : final[f].doc = p
    PROVE  SessionStep /\ FilesInv'
<1>1. project' = p /\ dirty' = marked
  BY DEF ReplaceMarked
<1>2. CleanIsKept'
  BY <1>1 DEF CleanIsKept
<1>3. temp' \in [Paths -> Contents]
  BY DEF FilesInv, FilesTypeOK
<1> QED
  BY <1>2, <1>3, IdleKeeps DEF SessionStep

-----------------------------------------------------------------------------
(* Every step *)

IInv == SessionInv /\ FilesInv

LEMMA StepKeeps ==
    ASSUME IInv, [Next]_vars
    PROVE  SessionStep /\ IInv'
<1> SUFFICES SessionStep /\ FilesInv'
  BY SessionStepKeeps DEF IInv
<1>1. SessionInv /\ FilesInv
  BY DEF IInv
<1>2. /\ path \in Paths
      /\ \A f \in Paths : final[f] \in Contents /\ temp[f] \in Contents
      /\ final \in [Paths -> Contents] /\ temp \in [Paths -> Contents]
  BY <1>1 DEF FilesInv, FilesTypeOK
<1>3. CASE Edit
  <2>1. PICK p \in Projects : Dispatch(p)
    BY <1>3 DEF Edit
  <2>2. saving = None /\ UNCHANGED <<path, final, temp, saving>>
    BY <1>3 DEF Edit
  <2>3. CleanIsKept' /\ SessionStep
    BY <2>1 DEF Dispatch, CleanIsKept, SessionStep
  <2> QED
    BY <1>1, <1>2, <2>2, <2>3, IdleKeeps
<1>4. CASE StepHistory
  <2>1. saving = None /\ UNCHANGED <<path, final, temp, saving>> /\ (Undo \/ Redo)
    BY <1>4 DEF StepHistory
  <2>2. CleanIsKept' /\ SessionStep
    BY <2>1 DEF Undo, Redo, CleanIsKept, SessionStep
  <2> QED
    BY <1>1, <1>2, <2>1, <2>2, IdleKeeps
<1>5. CASE TypePath
  <2>1. saving = None /\ path' \in Paths /\ UNCHANGED <<session, final, temp, saving>>
    BY <1>5 DEF TypePath
  <2>2. CleanIsKept' /\ SessionStep
    BY <1>1, <2>1 DEF session, CleanIsKept, SessionStep, FilesInv
  <2> QED
    BY <1>1, <1>2, <2>1, <2>2, IdleKeeps
<1>6. CASE NewProject
  BY <1>1, <1>2, <1>6, ReplacedKeeps, InitialAssumption DEF NewProject, Replace
<1>7. CASE Open
  <2>1. PICK f \in Paths : /\ Parsed(final[f]) /\ Replace(final[f].doc) /\ path' = f
    BY <1>7 DEF Open
  <2>2. saving = None /\ UNCHANGED <<final, temp, saving>>
    BY <1>7 DEF Open
  <2>3. final[f].doc \in Projects
    BY <2>1 DEF Parsed
  <2> QED
    BY <1>1, <2>1, <2>2, <2>3, ReplacedKeeps DEF Replace
<1>8. CASE Recover
  <2>1. /\ saving = None /\ Parsed(temp[path]) /\ ReplaceMarked(temp[path].doc, TRUE)
        /\ UNCHANGED <<path, final, temp, saving>>
    BY <1>8 DEF Recover
  <2>2. temp[path].doc \in Projects
    BY <2>1 DEF Parsed
  <2> QED
    BY <1>1, <1>2, <2>1, <2>2, ReplacedKeeps
<1>9. CASE DiscardRecovery
  <2>1. /\ saving = None /\ temp' = [temp EXCEPT ![path] = NoFile]
        /\ UNCHANGED <<session, path, final, saving>>
    BY <1>9 DEF DiscardRecovery
  <2>2. temp' \in [Paths -> Contents]
    BY <1>2, <2>1, ContentFacts
  <2>3. CleanIsKept' /\ SessionStep
    BY <1>1, <2>1 DEF session, CleanIsKept, SessionStep, FilesInv
  <2> QED
    BY <1>1, <1>2, <2>1, <2>2, <2>3, IdleKeeps
<1>10. CASE SaveProject
  BY <1>1, <1>2, <1>10, BeginKeeps DEF SaveProject, Ends
<1>11. CASE ExportCollection
  BY <1>1, <1>11, BeginKeeps DEF ExportCollection, Ends
<1>12. CASE CreateCollection
  BY <1>1, <1>2, <1>12, BeginKeeps DEF CreateCollection, Ends
<1>13. CASE DuplicateCollection
  BY <1>1, <1>2, <1>13, BeginKeeps DEF DuplicateCollection, Ends
<1>14. CASE RenameCollection
  <2>1. PICK f \in Paths \ {path} : Begin(path, "move", f)
    BY <1>14 DEF RenameCollection
  <2> QED
    BY <1>1, <1>2, <2>1, BeginKeeps DEF Ends
<1>15. CASE ImportCollection
  <2>1. PICK f \in Paths, from \in Paths :
           /\ Parsed(final[from])
           /\ saving' = Save(f, final[from].doc, "load", f)
    BY <1>15 DEF ImportCollection
  <2>2. UNCHANGED <<session, path, final, temp>>
    BY <1>15 DEF ImportCollection
  <2>3. final[from].doc \in Projects /\ "load" \in Ends
    BY <2>1 DEF Parsed, Ends
  <2>4. saving' \in SaveRecord /\ saving'.step = "open" /\ saving'.end = "load"
    BY <2>1, <2>3, SaveFacts
  <2>5. UNCHANGED <<project, dirty>> /\ SessionStep
    BY <2>2 DEF session, SessionStep
  <2>6. FilesTypeOK' /\ FinalsAreWhole' /\ SaveIsCurrent' /\ CleanIsKept'
    BY <1>1, <2>2, <2>4, <2>5 DEF FilesInv, FilesTypeOK, FinalsAreWhole,
       SaveIsCurrent, CleanIsKept
  <2> QED
    BY <2>5, <2>6 DEF FilesInv
<1>16. CASE Exit
  BY <1>1, <1>16, BeginKeeps, SettingsPathAssumption DEF Exit, Ends
<1>17. CASE OpenTemp
  BY <1>1, <1>17, TempKeeps, ContentFacts DEF OpenTemp, Steps
<1>18. CASE WriteTemp
  <2>1. Content(saving.doc, FALSE) \in Contents
    BY <1>1, <1>18, SavingFacts, ContentFacts DEF WriteTemp, TempBecomes, At, FilesInv
  <2> QED
    BY <1>1, <1>18, <2>1, TempKeeps DEF WriteTemp, Steps
<1>19. CASE SyncTemp
  <2>1. Content(saving.doc, TRUE) \in Contents
    BY <1>1, <1>19, SavingFacts, ContentFacts DEF SyncTemp, TempBecomes, At, FilesInv
  <2> QED
    BY <1>1, <1>19, <2>1, TempKeeps DEF SyncTemp, Steps
<1>20. CASE Publish
  BY <1>1, <1>20, PublishKeeps
<1>21. CASE MoveFile
  BY <1>1, <1>21, MoveKeeps
<1>22. CASE MoveFails
  BY <1>1, <1>2, <1>22, SaveEndsKeeps DEF MoveFails
<1>23. CASE SaveFails
  <2>1. /\ saving # None /\ temp' \in FailedTemps /\ saving' = None
        /\ UNCHANGED <<session, path, final>>
    BY <1>23 DEF SaveFails
  <2>2. temp' \in [Paths -> Contents]
    BY <1>1, <2>1, FailedTempsFacts
  <2> QED
    BY <1>1, <2>1, <2>2, SaveEndsKeeps
<1>24. CASE Restart
  BY <1>1, <1>24, RestartKeeps
<1>25. CASE Crash
  BY <1>1, <1>25, CrashKeeps
<1>26. CASE UNCHANGED vars
  <2>1. UNCHANGED <<project, dirty, path, final, temp, saving>> /\ UNCHANGED session
    BY <1>26 DEF vars, session
  <2> QED
    BY <1>1, <2>1 DEF SessionStep, FilesInv, FilesTypeOK, FinalsAreWhole,
       SaveIsCurrent, CleanIsKept
<1> QED
  BY <1>3, <1>4, <1>5, <1>6, <1>7, <1>8, <1>9, <1>10, <1>11, <1>12, <1>13,
     <1>14, <1>15, <1>16, <1>17, <1>18, <1>19, <1>20, <1>21, <1>22, <1>23,
     <1>24, <1>25, <1>26 DEF Next

LEMMA InitHolds == Init => IInv
<1> SUFFICES ASSUME Init PROVE IInv
  OBVIOUS
<1>1. <<>> \in Seq(Projects) /\ Len(<<>>) = 0
  OBVIOUS
<1>2. SessionInv
  <2>1. /\ project \in Projects /\ dirty = FALSE /\ undo_stack = <<>>
        /\ redo_stack = <<>> /\ document_cache = None
    BY DEF Init, SessionInit
  <2>2. SessionTypeOK /\ CacheIsCurrent
    BY <1>1, <2>1 DEF SessionTypeOK, CacheIsCurrent
  <2>3. HistoryIsBounded
    BY <1>1, <2>1, MaxHistoryAssumption DEF HistoryIsBounded
  <2> QED
    BY <2>2, <2>3 DEF SessionInv
<1>3. NoFile \in Contents /\ NoFile.synced = TRUE /\ NoFile.doc # Torn
  BY ContentFacts
<1>4. FilesTypeOK /\ FinalsAreWhole /\ SaveIsCurrent /\ CleanIsKept
  BY <1>3, SettingsPathAssumption DEF Init, FilesTypeOK, FinalsAreWhole,
     SaveIsCurrent, CleanIsKept
<1> QED
  BY <1>2, <1>4 DEF IInv, FilesInv

THEOREM InvariantHolds == Spec => []IInv
<1>1. Init => IInv
  BY InitHolds
<1>2. IInv /\ [Next]_vars => IInv'
  BY StepKeeps
<1> QED
  BY <1>1, <1>2, PTL DEF Spec

(* Every variable of the workspace keeps its type, for any documents, paths and
   bound on the history: what a save, a restart or a crash leaves is a session
   and a disk the next operation can start from. *)
THEOREM TypeCorrect == Spec => []TypeOK
<1>1. IInv => TypeOK
  BY DEF IInv, SessionInv, SessionTypeOK, CacheIsCurrent, FilesInv, FilesTypeOK,
     SaveRecord, TypeOK
<1> QED
  BY <1>1, InvariantHolds, PTL

(* The two stacks together stay within the bound (MAX_HISTORY_DEPTH): the check
   of the bound that undo makes on the redo stack, and redo on the undo stack,
   never drops an edit. *)
THEOREM HistoryBounded == Spec => []HistoryIsBounded
<1>1. IInv => HistoryIsBounded
  BY DEF IInv, SessionInv
<1> QED
  BY <1>1, InvariantHolds, PTL

(* Work that is marked saved is whole in a file, over any sequence of edits,
   saves, collections, failures and crashes (ProjectFileStore::save). *)
THEOREM WorkIsKept == Spec => []SavedWorkIsKept
<1>1. IInv => SavedWorkIsKept
  BY DEF IInv, FilesInv, CleanIsKept, FinalsAreWhole, SavedWorkIsKept
<1> QED
  BY <1>1, InvariantHolds, PTL

(* Undo and redo walk one line of edits, for every bound on the history
   (ProjectSession::undo, redo, dispatch and replace). *)
THEOREM HistoryIsALine == Spec => ImplementsEditHistory
<1>1. Init => Edits!Init
  <2> SUFFICES ASSUME Init PROVE Edits!Init
    OBVIOUS
  <2>1. project \in Projects /\ undo_stack = <<>> /\ redo_stack = <<>>
    BY DEF Init, SessionInit
  <2>2. Len(<<>>) = 0
    OBVIOUS
  <2>3. Line(<<>>, project, <<>>) = [i \in 1..1 |-> project]
    BY <2>2 DEF Line
  <2> QED
    BY <2>1, <2>2, <2>3 DEF Timeline, Edits!Init
<1>2. IInv /\ [Next]_vars => [Edits!Next]_<<Timeline, Len(undo_stack) + 1>>
  BY StepKeeps, SessionStepRefines DEF IInv
<1> QED
  BY <1>1, <1>2, InvariantHolds, PTL DEF Spec, ImplementsEditHistory, Edits!Spec

-----------------------------------------------------------------------------
(* Induction over the places of a list or of a path *)

(* Every non-empty set of numbers has a least one... *)
LEMMA LeastNumber ==
    ASSUME NEW T, T \subseteq Nat, T # {}
    PROVE  \E x \in T : \A y \in T : x <= y
<1> DEFINE R == {ss \in Nat \X Nat : ss[1] < ss[2]}
<1>1. IsWellFoundedOn(R, Nat)
  BY NatLessThanWellFounded, Zenon DEF OpToRel
<1>2. PICK x \in T : \A y \in T : ~ (<<y, x>> \in R)
  <2> HIDE DEF R
  <2> QED BY <1>1, WFMin, Zenon
<1>3. \A y \in T : ~ (y < x)
  <2>1. SUFFICES ASSUME NEW y \in T, y < x PROVE FALSE
    OBVIOUS
  <2>2. <<y, x>> \in R
    BY <2>1
  <2> QED BY <1>2, <2>2
<1> QED BY <1>2, <1>3

(* ... so a set that holds 0, and n + 1 with every n below m, holds 0..m. *)
LEMMA InductionUpTo ==
    ASSUME NEW m \in Nat, NEW S, 0 \in S, \A n \in 0..(m - 1) : n \in S => n + 1 \in S
    PROVE  \A n \in 0..m : n \in S
<1> DEFINE T == (0..m) \ S
<1>1. SUFFICES ASSUME T # {} PROVE FALSE
  OBVIOUS
<1>2. T \subseteq Nat
  OBVIOUS
<1>3. PICK x \in T : \A y \in T : x <= y
  <2> HIDE DEF T
  <2> QED BY <1>1, <1>2, LeastNumber
<1>4. x - 1 \in 0..(m - 1) /\ x - 1 \in S
  BY <1>3
<1> QED BY <1>3, <1>4

-----------------------------------------------------------------------------
(* Lists of identifiers *)

Distinct(list) == \A i, j \in 1..Len(list) : list[i] = list[j] => i = j

LEMMA ListFacts ==
    ASSUME NEW S, NEW list \in Seq(S)
    PROVE  /\ Len(list) \in Nat
           /\ DOMAIN list = 1..Len(list)
           /\ \A i \in 1..Len(list) : list[i] \in S
           /\ ToSet(list) = {list[i] : i \in 1..Len(list)}
           /\ ToSet(list) \subseteq S
           /\ \A x : Contains(list, x) <=> x \in ToSet(list)
<1>1. Len(list) \in Nat /\ DOMAIN list = 1..Len(list)
  BY LenProperties
<1>2. \A i \in 1..Len(list) : list[i] \in S
  BY ElementOfSeq
<1>3. ToSet(list) = {list[i] : i \in 1..Len(list)}
  BY <1>1, Zenon DEF ToSet
<1> QED BY <1>1, <1>2, <1>3 DEF Contains

(* The prefixes the recursion of Among collects. *)
Collected(S, list, ids) ==
    {f \in [0..Len(list) -> Seq(S)] :
        /\ f[0] = <<>>
        /\ \A n \in 1..Len(list) :
              f[n] = IF list[n] \in ids THEN Append(f[n - 1], list[n]) ELSE f[n - 1]}

CollectedUpTo(S, list, ids, m) ==
    {f \in [0..m -> Seq(S)] :
        /\ f[0] = <<>>
        /\ \A n \in 1..m :
              f[n] = IF list[n] \in ids THEN Append(f[n - 1], list[n]) ELSE f[n - 1]}

LEMMA CollectedExists ==
    ASSUME NEW S, NEW list \in Seq(S), NEW ids
    PROVE  Collected(S, list, ids) # {}
<1> DEFINE N == {m \in 0..Len(list) : CollectedUpTo(S, list, ids, m) # {}}
<1>1. Len(list) \in Nat /\ \A i \in 1..Len(list) : list[i] \in S
  BY ListFacts
<1>2. 0 \in N
  <2>1. [n \in 0..0 |-> <<>>] \in CollectedUpTo(S, list, ids, 0)
    BY EmptySeq DEF CollectedUpTo
  <2> QED BY <1>1, <2>1
<1>3. ASSUME NEW n \in 0..(Len(list) - 1), n \in N PROVE n + 1 \in N
  <2>1. PICK f \in CollectedUpTo(S, list, ids, n) : TRUE
    BY <1>3
  <2>2. /\ f \in [0..n -> Seq(S)] /\ f[0] = <<>>
        /\ \A k \in 1..n :
              f[k] = IF list[k] \in ids THEN Append(f[k - 1], list[k]) ELSE f[k - 1]
    BY <2>1 DEF CollectedUpTo
  <2> DEFINE x == IF list[n + 1] \in ids THEN Append(f[n], list[n + 1]) ELSE f[n]
             h == [k \in 0..(n + 1) |-> IF k <= n THEN f[k] ELSE x]
  <2>3. x \in Seq(S)
    <3>1. f[n] \in Seq(S) /\ list[n + 1] \in S
      BY <1>1, <2>2
    <3> QED BY <3>1, AppendProperties
  <2>7. x = IF list[n + 1] \in ids THEN Append(f[n], list[n + 1]) ELSE f[n]
    OBVIOUS
  <2> HIDE DEF x
  <2>4. h \in [0..(n + 1) -> Seq(S)] /\ h[0] = <<>>
    BY <1>1, <2>2, <2>3
  <2>5. \A k \in 1..(n + 1) :
           h[k] = IF list[k] \in ids THEN Append(h[k - 1], list[k]) ELSE h[k - 1]
    <3>1. TAKE k \in 1..(n + 1)
    <3>2. CASE k <= n
      <4>1. h[k] = f[k] /\ h[k - 1] = f[k - 1] /\ k \in 1..n
        BY <1>1, <3>2
      <4> QED BY <2>2, <4>1
    <3>3. CASE k = n + 1
      <4>1. h[k] = x /\ h[k - 1] = f[n]
        BY <1>1, <3>3
      <4> QED BY <3>3, <4>1, <2>7
    <3> QED BY <1>1, <3>2, <3>3
  <2> HIDE DEF h
  <2>6. h \in CollectedUpTo(S, list, ids, n + 1)
    BY <2>4, <2>5 DEF CollectedUpTo
  <2> QED BY <1>1, <2>6
<1>4. \A n \in 0..Len(list) : n \in N
  <2> HIDE DEF N
  <2> QED BY <1>1, <1>2, <1>3, InductionUpTo
<1>5. CollectedUpTo(S, list, ids, Len(list)) # {}
  BY <1>1, <1>4
<1> QED BY <1>5 DEF Collected, CollectedUpTo

LEMMA CollectedIsUnique ==
    ASSUME NEW S, NEW list \in Seq(S), NEW ids,
           NEW f \in Collected(S, list, ids), NEW g \in Collected(S, list, ids)
    PROVE  f[Len(list)] = g[Len(list)]
<1> DEFINE N == {m \in 0..Len(list) : f[m] = g[m]}
<1>1. Len(list) \in Nat
  BY ListFacts
<1>2. 0 \in N
  BY <1>1 DEF Collected
<1>3. ASSUME NEW n \in 0..(Len(list) - 1), n \in N PROVE n + 1 \in N
  BY <1>1, <1>3 DEF Collected
<1>4. \A n \in 0..Len(list) : n \in N
  <2> HIDE DEF N
  <2> QED BY <1>1, <1>2, <1>3, InductionUpTo
<1> QED BY <1>1, <1>4

LEMMA AmongIsCollected ==
    ASSUME NEW S, NEW list \in Seq(S), NEW ids
    PROVE  \E f \in Collected(S, list, ids) : Among(list, ids) = f[Len(list)]
<1> DEFINE Solves(g) ==
             g = [i \in 0..Len(list) |->
                     IF i = 0 THEN <<>>
                     ELSE IF list[i] \in ids THEN Append(g[i - 1], list[i])
                          ELSE g[i - 1]]
           f == CHOOSE g : Solves(g)
<1>1. Len(list) \in Nat
  BY ListFacts
<1>2. Among(list, ids) = f[Len(list)]
  BY DEF Among
<1>3. PICK h \in Collected(S, list, ids) : TRUE
  BY CollectedExists
<1>4. Solves(h)
  <2>1. /\ h \in [0..Len(list) -> Seq(S)] /\ h[0] = <<>>
        /\ \A n \in 1..Len(list) :
              h[n] = IF list[n] \in ids THEN Append(h[n - 1], list[n]) ELSE h[n - 1]
    BY <1>3 DEF Collected
  <2>2. \A i \in 0..Len(list) : i # 0 => i \in 1..Len(list)
    BY <1>1
  <2> QED BY <2>1, <2>2
<1>5. Solves(f)
  <2> HIDE DEF Solves
  <2> QED BY <1>4, Zenon
<1> HIDE DEF f
<1>6. f[0] = <<>> /\ DOMAIN f = 0..Len(list)
  BY <1>1, <1>5
<1>7. \A n \in 1..Len(list) :
        f[n] = IF list[n] \in ids THEN Append(f[n - 1], list[n]) ELSE f[n - 1]
  <2>1. TAKE n \in 1..Len(list)
  <2>2. n \in 0..Len(list) /\ n # 0
    BY <1>1
  <2>3. f[n] = IF n = 0 THEN <<>>
               ELSE IF list[n] \in ids THEN Append(f[n - 1], list[n]) ELSE f[n - 1]
    BY <1>5, <2>2, Zenon
  <2> QED BY <2>2, <2>3
<1>8. \A n \in 0..Len(list) : f[n] \in Seq(S)
  <2> DEFINE N == {n \in 0..Len(list) : f[n] \in Seq(S)}
  <2>1. 0 \in N
    <3>1. f[0] \in Seq(S) /\ 0 \in 0..Len(list)
      BY <1>1, <1>6, EmptySeq
    <3> QED BY <3>1
  <2>2. ASSUME NEW n \in 0..(Len(list) - 1), n \in N PROVE n + 1 \in N
    <3>1. f[n] \in Seq(S) /\ n + 1 \in 1..Len(list) /\ list[n + 1] \in S
      BY <1>1, <2>2, ListFacts
    <3>2. f[n + 1] = IF list[n + 1] \in ids THEN Append(f[n], list[n + 1]) ELSE f[n]
      <4>1. f[n + 1] = IF list[n + 1] \in ids THEN Append(f[(n + 1) - 1], list[n + 1])
                       ELSE f[(n + 1) - 1]
        BY <1>7, <3>1, Zenon
      <4>2. (n + 1) - 1 = n
        BY <1>1
      <4> QED BY <4>1, <4>2
    <3>3. f[n + 1] \in Seq(S)
      BY <3>1, <3>2, AppendProperties
    <3> QED BY <1>1, <3>1, <3>3
  <2>3. \A n \in 0..Len(list) : n \in N
    <3> HIDE DEF N
    <3> QED BY <1>1, <2>1, <2>2, InductionUpTo
  <2> QED BY <2>3
<1>9. f \in [0..Len(list) -> Seq(S)]
  <2>1. f = [i \in 0..Len(list) |-> f[i]]
    BY <1>5, <1>6
  <2> QED BY <2>1, <1>8
<1>10. f \in Collected(S, list, ids)
  BY <1>6, <1>7, <1>9 DEF Collected
<1> QED BY <1>2, <1>10

(* What Among returns: those of the list that are in ids, once if they are there
   once. *)
LEMMA AmongFacts ==
    ASSUME NEW S, NEW list \in Seq(S), NEW ids
    PROVE  /\ Among(list, ids) \in Seq(S)
           /\ ToSet(Among(list, ids)) = ToSet(list) \cap ids
           /\ Distinct(list) => Distinct(Among(list, ids))
<1>1. PICK f \in Collected(S, list, ids) : Among(list, ids) = f[Len(list)]
  BY AmongIsCollected
<1>2. /\ f \in [0..Len(list) -> Seq(S)] /\ f[0] = <<>>
      /\ \A n \in 1..Len(list) :
            f[n] = IF list[n] \in ids THEN Append(f[n - 1], list[n]) ELSE f[n - 1]
  BY <1>1 DEF Collected
<1>3. Len(list) \in Nat /\ \A i \in 1..Len(list) : list[i] \in S
  BY ListFacts
<1> DEFINE Good(n) ==
             /\ {f[n][i] : i \in 1..Len(f[n])} = {list[i] : i \in 1..n} \cap ids
             /\ Distinct(list) => Distinct(f[n])
           N == {n \in 0..Len(list) : Good(n)}
<1>4. 0 \in N
  <2>1. Len(f[0]) = 0
    BY <1>2, EmptySeq
  <2> QED BY <1>2, <1>3, <2>1 DEF Distinct
<1>5. ASSUME NEW n \in 0..(Len(list) - 1), n \in N PROVE n + 1 \in N
  <2>1. n + 1 \in 1..Len(list) /\ (n + 1) - 1 = n /\ n \in 0..Len(list)
    BY <1>3
  <2>2. f[n + 1] = IF list[n + 1] \in ids THEN Append(f[n], list[n + 1]) ELSE f[n]
    BY <1>2, <2>1
  <2>3. f[n] \in Seq(S) /\ Len(f[n]) \in Nat /\ list[n + 1] \in S
    BY <1>2, <1>3, <2>1, LenProperties
  <2>4. \A x : x \in {list[i] : i \in 1..(n + 1)}
                 <=> x = list[n + 1] \/ x \in {list[i] : i \in 1..n}
    <3>1. 1..(n + 1) = (1..n) \cup {n + 1}
      BY <2>1
    <3> QED BY <3>1
  <2>5. CASE list[n + 1] \notin ids
    <3>1. f[n + 1] = f[n]
      BY <2>2, <2>5
    <3>2. {list[i] : i \in 1..(n + 1)} \cap ids = {list[i] : i \in 1..n} \cap ids
      BY <2>4, <2>5
    <3>3. Good(n) => Good(n + 1)
      BY <3>1, <3>2, Zenon
    <3>4. Good(n)
      <4> HIDE DEF Good
      <4> QED BY <1>5
    <3>5. n + 1 \in 0..Len(list)
      BY <2>1, <1>3
    <3> HIDE DEF Good
    <3> QED BY <3>3, <3>4, <3>5
  <2>6. CASE list[n + 1] \in ids
    <3> DEFINE e == list[n + 1]
               g == f[n]
    <3>1. f[n + 1] = Append(g, e)
      BY <2>2, <2>6
    <3>2. /\ Append(g, e) \in Seq(S) /\ Len(Append(g, e)) = Len(g) + 1
          /\ \A i \in 1..Len(g) : Append(g, e)[i] = g[i]
          /\ Append(g, e)[Len(g) + 1] = e
      BY <2>3, AppendProperties
    <3>3. {Append(g, e)[i] : i \in 1..Len(Append(g, e))}
             = {g[i] : i \in 1..Len(g)} \cup {e}
      <4>1. 1..(Len(g) + 1) = (1..Len(g)) \cup {Len(g) + 1}
        BY <2>3
      <4> HIDE DEF e, g
      <4> QED BY <3>2, <4>1
    <3>4. {list[i] : i \in 1..(n + 1)} \cap ids = ({list[i] : i \in 1..n} \cap ids) \cup {e}
      BY <2>4, <2>6
    <3>5. ASSUME Distinct(list) PROVE Distinct(Append(g, e))
      <4>1. \A i \in 1..n : list[i] # e
        BY <2>1, <1>3, <3>5 DEF Distinct
      <4>2. e \notin {g[i] : i \in 1..Len(g)}
        BY <1>5, <4>1
      <4>3. Distinct(g)
        BY <1>5, <3>5
      <4> HIDE DEF e, g
      <4>4. SUFFICES ASSUME NEW i \in 1..(Len(g) + 1), NEW j \in 1..(Len(g) + 1),
                            Append(g, e)[i] = Append(g, e)[j]
                     PROVE  i = j
        BY <3>2 DEF Distinct
      <4>5. CASE i \in 1..Len(g) /\ j \in 1..Len(g)
        BY <3>2, <4>3, <4>4, <4>5 DEF Distinct
      <4>6. CASE i \in 1..Len(g) /\ j = Len(g) + 1
        BY <3>2, <4>2, <4>4, <4>6
      <4>7. CASE i = Len(g) + 1 /\ j \in 1..Len(g)
        BY <3>2, <4>2, <4>4, <4>7
      <4>8. (i \in 1..Len(g) \/ i = Len(g) + 1) /\ (j \in 1..Len(g) \/ j = Len(g) + 1)
        <5>1. Len(g) \in Nat
          BY <2>3 DEF g
        <5> QED BY <5>1
      <4> QED BY <4>5, <4>6, <4>7, <4>8
    <3>6. {g[i] : i \in 1..Len(g)} = {list[i] : i \in 1..n} \cap ids
      BY <1>5
    <3> HIDE DEF e, g
    <3>7. Good(n + 1)
      BY <3>1, <3>3, <3>4, <3>5, <3>6
    <3>8. n + 1 \in 0..Len(list)
      BY <2>1, <1>3
    <3> HIDE DEF Good
    <3> QED BY <3>7, <3>8
  <2> QED BY <2>5, <2>6
<1>6. \A n \in 0..Len(list) : n \in N
  <2> HIDE DEF N
  <2> QED BY <1>3, <1>4, <1>5, InductionUpTo
<1>7. Good(Len(list)) /\ f[Len(list)] \in Seq(S)
  <2>1. Len(list) \in 0..Len(list)
    BY <1>3
  <2>2. Len(list) \in N /\ f[Len(list)] \in Seq(S)
    <3> HIDE DEF N
    <3> QED BY <1>2, <1>6, <2>1
  <2> HIDE DEF Good
  <2> QED BY <2>2
<1>8. /\ ToSet(list) = {list[i] : i \in 1..Len(list)}
      /\ ToSet(f[Len(list)]) = {f[Len(list)][i] : i \in 1..Len(f[Len(list)])}
  BY <1>7, ListFacts
<1> QED BY <1>1, <1>7, <1>8

(* A list is distinct exactly when it is as long as what it lists. *)
LEMMA DistinctLength ==
    ASSUME NEW S, NEW list \in Seq(S)
    PROVE  /\ IsFiniteSet(ToSet(list))
           /\ Distinct(list) <=> Cardinality(ToSet(list)) = Len(list)
<1> DEFINE n == Len(list)
           T == ToSet(list)
<1>1. /\ n \in Nat /\ DOMAIN list = 1..n
      /\ T = {list[i] : i \in 1..n}
      /\ list \in [1..n -> S]
  BY ListFacts, LenProperties
<1>2. list \in Surjection(1..n, T)
  <2>1. list \in [1..n -> T]
    BY <1>1
  <2>2. \A t \in T : \E i \in 1..n : list[i] = t
    BY <1>1
  <2> HIDE DEF n, T
  <2> QED BY <2>1, <2>2 DEF Surjection
<1>3. IsFiniteSet(1..n) /\ Cardinality(1..n) = n
  <2>1. IsFiniteSet(1..n) /\ Cardinality(1..n) = IF 1 > n THEN 0 ELSE n - 1 + 1
    BY <1>1, FS_Interval
  <2> QED BY <1>1, <2>1
<1>4. IsFiniteSet(T) /\ (Cardinality(T) = n <=> list \in Injection(1..n, T))
  <2> HIDE DEF n, T
  <2>1. IsFiniteSet(T) /\ (Cardinality(T) = Cardinality(1..n) <=> list \in Injection(1..n, T))
    BY <1>2, <1>3, FS_Surjection
  <2> QED BY <2>1, <1>3
<1>5. list \in Injection(1..n, T) <=> Distinct(list)
  <2>1. list \in [1..n -> T]
    BY <1>2 DEF Surjection
  <2> QED BY <2>1 DEF Injection, IsInjective, Distinct
<1> QED BY <1>4, <1>5

(* A list that has e before the i-th entry of another. *)
HasInserted(new, list, i, e) ==
    \A k \in 1..(Len(list) + 1) :
       new[k] = IF k < i THEN list[k] ELSE IF k = i THEN e ELSE list[k - 1]

(* What InsertAt returns. *)
LEMMA InsertFacts ==
    ASSUME NEW S, NEW list \in Seq(S), NEW e \in S, NEW i \in 1..(Len(list) + 1)
    PROVE  /\ InsertAt(list, i, e) \in Seq(S)
           /\ Len(InsertAt(list, i, e)) = Len(list) + 1
           /\ HasInserted(InsertAt(list, i, e), list, i, e)
<1> DEFINE before == SubSeq(list, 1, i - 1)
           after  == SubSeq(list, i, Len(list))
<1>1. Len(list) \in Nat /\ \A k \in 1..Len(list) : list[k] \in S
  BY ListFacts
<1>2. /\ before \in Seq(S) /\ Len(before) = i - 1
      /\ \A k \in 1..(i - 1) : before[k] = list[k]
  <2>1. /\ before \in Seq(S)
        /\ Len(before) = IF 1 <= i - 1 THEN (i - 1) - 1 + 1 ELSE 0
        /\ \A k \in 1..((i - 1) - 1 + 1) : before[k] = list[1 + k - 1]
    BY <1>1, SubSeqProperties
  <2> HIDE DEF before
  <2> QED BY <1>1, <2>1
<1>3. /\ after \in Seq(S) /\ Len(after) = Len(list) + 1 - i
      /\ \A k \in 1..(Len(list) + 1 - i) : after[k] = list[i + k - 1]
  <2>1. /\ after \in Seq(S)
        /\ Len(after) = IF i <= Len(list) THEN Len(list) - i + 1 ELSE 0
        /\ \A k \in 1..(Len(list) - i + 1) : after[k] = list[i + k - 1]
    BY <1>1, SubSeqProperties
  <2> HIDE DEF after
  <2> QED BY <1>1, <2>1
<1>4. InsertAt(list, i, e) = (before \o <<e>>) \o after
  BY DEF InsertAt
<1> HIDE DEF before, after
<1>5. /\ before \o <<e>> \in Seq(S) /\ Len(before \o <<e>>) = i
      /\ \A k \in 1..i : (before \o <<e>>)[k] = IF k < i THEN list[k] ELSE e
  <2>1. <<e>> \in Seq(S) /\ Len(<<e>>) = 1 /\ <<e>>[1] = e
    OBVIOUS
  <2> DEFINE one == <<e>>
  <2> HIDE DEF one
  <2>2. /\ before \o one \in Seq(S)
        /\ Len(before \o one) = Len(before) + Len(one)
        /\ \A k \in 1..(Len(before) + Len(one)) :
              (before \o one)[k] = IF k <= Len(before) THEN before[k]
                                   ELSE one[k - Len(before)]
    BY <1>2, <2>1, ConcatProperties DEF one
  <2>3. one \in Seq(S) /\ Len(one) = 1 /\ one[1] = e
    BY <2>1 DEF one
  <2> DEFINE both == before \o one
  <2>4. \A k \in 1..i : both[k] = IF k < i THEN list[k] ELSE e
    <3>1. \A k \in 1..i : both[k] = IF k <= i - 1 THEN before[k] ELSE one[k - (i - 1)]
      BY <1>2, <2>2, <2>3
    <3> HIDE DEF both
    <3> QED BY <1>1, <1>2, <2>3, <3>1
  <2>5. both \in Seq(S) /\ Len(both) = i
    BY <1>1, <1>2, <2>2, <2>3
  <2> QED BY <2>4, <2>5 DEF one
<1> DEFINE start == before \o <<e>>
<1>10. /\ start \in Seq(S) /\ Len(start) = i
       /\ \A k \in 1..i : start[k] = IF k < i THEN list[k] ELSE e
  BY <1>5, Zenon
<1> HIDE DEF start
<1>6. /\ start \o after \in Seq(S)
      /\ Len(start \o after) = Len(start) + Len(after)
      /\ \A k \in 1..(Len(start) + Len(after)) :
            (start \o after)[k] = IF k <= Len(start) THEN start[k] ELSE after[k - Len(start)]
  BY <1>3, <1>10, ConcatProperties
<1>7. /\ Len(start) = i /\ Len(start) + Len(after) = Len(list) + 1
      /\ \A k \in 1..i : start[k] = IF k < i THEN list[k] ELSE e
  BY <1>1, <1>3, <1>10
<1> DEFINE all == start \o after
<1>8. \A k \in 1..(Len(list) + 1) :
         all[k] = IF k < i THEN list[k] ELSE IF k = i THEN e ELSE list[k - 1]
  <2>1. \A k \in 1..(Len(list) + 1) : all[k] = IF k <= i THEN start[k] ELSE after[k - i]
    BY <1>6, <1>7
  <2> HIDE DEF all
  <2>2. \A k \in (i + 1)..(Len(list) + 1) : after[k - i] = list[k - 1]
    <3>1. TAKE k \in (i + 1)..(Len(list) + 1)
    <3>2. k - i \in 1..(Len(list) + 1 - i) /\ i + (k - i) - 1 = k - 1
      BY <1>1
    <3> QED BY <1>3, <3>2
  <2> QED BY <1>1, <1>7, <2>1, <2>2
<1>9. all \in Seq(S) /\ Len(all) = Len(list) + 1
  BY <1>6, <1>7
<1>11. HasInserted(all, list, i, e)
  BY <1>8 DEF HasInserted
<1> QED BY <1>4, <1>9, <1>11 DEF start

LEMMA InsertLists ==
    ASSUME NEW S, NEW list \in Seq(S), NEW e \in S, NEW i \in 1..(Len(list) + 1)
    PROVE  /\ InsertAt(list, i, e) \in Seq(S)
           /\ ToSet(InsertAt(list, i, e)) = ToSet(list) \cup {e}
           /\ Distinct(list) /\ e \notin ToSet(list) => Distinct(InsertAt(list, i, e))
<1> DEFINE n == Len(list)
           t == InsertAt(list, i, e)
<1>1. /\ n \in Nat /\ ToSet(list) = {list[k] : k \in 1..n}
  BY ListFacts
<1>2. /\ t \in Seq(S) /\ Len(t) = n + 1
      /\ \A k \in 1..(n + 1) : t[k] = IF k < i THEN list[k]
                                      ELSE IF k = i THEN e ELSE list[k - 1]
  <2>1. t \in Seq(S) /\ Len(t) = n + 1 /\ HasInserted(t, list, i, e)
    BY InsertFacts
  <2> HIDE DEF t
  <2> QED BY <2>1 DEF HasInserted
<1>3. ToSet(t) = {t[k] : k \in 1..(n + 1)}
  BY <1>2, ListFacts
<1> HIDE DEF t
<1>4. ToSet(t) \subseteq ToSet(list) \cup {e}
  <2>1. SUFFICES ASSUME NEW k \in 1..(n + 1) PROVE t[k] \in ToSet(list) \cup {e}
    BY <1>3
  <2>2. CASE k < i
    <3>1. k \in 1..n /\ t[k] = list[k]
      BY <1>1, <1>2, <2>2
    <3> QED BY <1>1, <3>1
  <2>3. CASE k = i
    BY <1>2, <2>3
  <2>4. CASE k > i
    <3>1. k - 1 \in 1..n /\ t[k] = list[k - 1]
      BY <1>1, <1>2, <2>4
    <3> QED BY <1>1, <3>1
  <2> QED BY <1>1, <2>2, <2>3, <2>4
<1>5. ToSet(list) \cup {e} \subseteq ToSet(t)
  <2>1. i \in 1..(n + 1) /\ t[i] = e
    BY <1>1, <1>2
  <2>2. ASSUME NEW k \in 1..n PROVE list[k] \in ToSet(t)
    <3>1. CASE k < i
      <4>1. k \in 1..(n + 1) /\ t[k] = list[k]
        BY <1>1, <1>2, <3>1
      <4> QED BY <1>3, <4>1
    <3>2. CASE k >= i
      <4>1. k + 1 \in 1..(n + 1) /\ t[k + 1] = list[(k + 1) - 1] /\ (k + 1) - 1 = k
        BY <1>1, <1>2, <3>2
      <4> QED BY <1>3, <4>1
    <3> QED BY <1>1, <3>1, <3>2
  <2> QED BY <1>1, <1>3, <2>1, <2>2
<1>6. ASSUME Distinct(list), e \notin ToSet(list) PROVE Distinct(t)
  <2>1. \A k \in 1..n : list[k] # e
    BY <1>1, <1>6
  <2>2. \A j, k \in 1..n : list[j] = list[k] => j = k
    BY <1>6 DEF Distinct
  <2> DEFINE from == [k \in 1..(n + 1) |-> IF k < i THEN k ELSE k - 1]
  <2>3. \A k \in 1..(n + 1) : k # i => from[k] \in 1..n /\ t[k] = list[from[k]]
    BY <1>1, <1>2
  <2>4. \A j, k \in 1..(n + 1) : j # i /\ k # i /\ from[j] = from[k] => j = k
    BY <1>1
  <2> HIDE DEF from
  <2>5. t[i] = e /\ i \in 1..(n + 1)
    BY <1>1, <1>2
  <2>6. \A j, k \in 1..(n + 1) : t[j] = t[k] => j = k
    BY <2>1, <2>2, <2>3, <2>4, <2>5
  <2> QED BY <1>2, <2>6 DEF Distinct
<1> QED BY <1>2, <1>4, <1>5, <1>6 DEF t

-----------------------------------------------------------------------------
(* Paths *)

LEMMA PrefixFacts ==
    ASSUME NEW S, NEW p \in Seq(S), NEW q \in Seq(S), IsPrefix(p, q)
    PROVE  /\ Beyond(p, q) \in Seq(S)
           /\ q = p \o Beyond(p, q)
           /\ Len(p) <= Len(q)
<1>1. /\ Len(p) \in Nat /\ Len(q) \in Nat /\ Len(p) <= Len(q)
      /\ SubSeq(p, 1, Len(p)) = SubSeq(q, 1, Len(p))
      /\ \A i \in 1..Len(q) : q[i] \in S
  BY ListFacts DEF IsPrefix
<1>2. SubSeq(p, 1, Len(p)) = p
  BY SubSeqFull
<1> DEFINE r == SubSeq(q, Len(p) + 1, Len(q))
<1>3. r \in Seq(S)
  <2>1. \A i \in (Len(p) + 1)..Len(q) : q[i] \in S
    BY <1>1
  <2> QED BY <1>1, <2>1, SubSeqProperties
<1>4. SubSeq(q, 1, Len(p)) \o r = q
  <2>1. /\ 1 \in 1..(Len(q) + 1) /\ Len(p) \in (1 - 1)..Len(q)
        /\ Len(q) \in Len(p)..Len(q)
    BY <1>1
  <2>2. SubSeq(q, 1, Len(p)) \o r = SubSeq(q, 1, Len(q))
    BY <2>1, ConcatAdjacentSubSeq
  <2> HIDE DEF r
  <2> QED BY <2>2, SubSeqFull
<1> QED BY <1>1, <1>2, <1>3, <1>4 DEF Beyond

LEMMA ExtensionFacts ==
    ASSUME NEW S, NEW p \in Seq(S), NEW r \in Seq(S)
    PROVE  /\ p \o r \in Seq(S)
           /\ IsPrefix(p, p \o r)
           /\ Beyond(p, p \o r) = r
           /\ Len(p \o r) = Len(p) + Len(r)
<1> DEFINE q == p \o r
<1>1. /\ q \in Seq(S) /\ Len(q) = Len(p) + Len(r)
      /\ \A i \in 1..(Len(p) + Len(r)) : q[i] = IF i <= Len(p) THEN p[i] ELSE r[i - Len(p)]
  BY ConcatProperties
<1>2. /\ Len(p) \in Nat /\ Len(r) \in Nat /\ \A i \in 1..Len(p) : p[i] \in S
      /\ \A i \in 1..Len(r) : r[i] \in S
  BY ListFacts
<1> HIDE DEF q
<1>3. SubSeq(q, 1, Len(p)) = p
  <2> DEFINE u == SubSeq(q, 1, Len(p))
  <2>1. /\ u \in Seq(S)
        /\ Len(u) = IF 1 <= Len(p) THEN Len(p) - 1 + 1 ELSE 0
        /\ \A i \in 1..(Len(p) - 1 + 1) : u[i] = q[1 + i - 1]
    <3>1. \A i \in 1..Len(p) : q[i] \in S
      BY <1>1, <1>2
    <3> QED BY <1>2, <3>1, SubSeqProperties
  <2> HIDE DEF u
  <2>2. Len(u) = Len(p) /\ \A i \in 1..Len(u) : u[i] = p[i]
    BY <1>1, <1>2, <2>1
  <2>3. u = p
    BY <2>1, <2>2, SeqEqual
  <2> QED BY <2>3 DEF u
<1>4. SubSeq(q, Len(p) + 1, Len(q)) = r
  <2> DEFINE u == SubSeq(q, Len(p) + 1, Len(q))
  <2>1. /\ u \in Seq(S)
        /\ Len(u) = IF Len(p) + 1 <= Len(q) THEN Len(q) - (Len(p) + 1) + 1 ELSE 0
        /\ \A i \in 1..(Len(q) - (Len(p) + 1) + 1) : u[i] = q[(Len(p) + 1) + i - 1]
    <3>1. \A i \in (Len(p) + 1)..Len(q) : q[i] \in S
      BY <1>1, <1>2
    <3> QED BY <1>1, <1>2, <3>1, SubSeqProperties
  <2> HIDE DEF u
  <2>2. Len(u) = Len(r) /\ \A i \in 1..Len(u) : u[i] = q[Len(p) + i]
    <3>1. Len(u) = Len(r)
      BY <1>1, <1>2, <2>1
    <3>2. Len(q) - (Len(p) + 1) + 1 = Len(r)
      BY <1>1, <1>2
    <3>3. ASSUME NEW i \in 1..Len(r) PROVE u[i] = q[Len(p) + i]
      <4>1. u[i] = q[(Len(p) + 1) + i - 1]
        BY <2>1, <3>2, <3>3
      <4>2. (Len(p) + 1) + i - 1 = Len(p) + i
        BY <1>2, <3>3
      <4> QED BY <4>1, <4>2
    <3> QED BY <3>1, <3>3
  <2>3. \A i \in 1..Len(r) : q[Len(p) + i] = r[i]
    BY <1>1, <1>2
  <2>4. u = r
    BY <2>1, <2>2, <2>3, SeqEqual
  <2> QED BY <2>4 DEF u
<1>5. SubSeq(p, 1, Len(p)) = p
  BY SubSeqFull
<1>6. IsPrefix(p, q) /\ Beyond(p, q) = r
  BY <1>1, <1>2, <1>3, <1>4, <1>5 DEF IsPrefix, Beyond
<1> QED BY <1>1, <1>6 DEF q

LEMMA PrefixIsExtension ==
    ASSUME NEW S, NEW p \in Seq(S), NEW q \in Seq(S)
    PROVE  IsPrefix(p, q) <=> \E r \in Seq(S) : q = p \o r
<1>1. ASSUME IsPrefix(p, q) PROVE \E r \in Seq(S) : q = p \o r
  BY <1>1, PrefixFacts
<1>2. ASSUME NEW r \in Seq(S), q = p \o r PROVE IsPrefix(p, q)
  BY <1>2, ExtensionFacts
<1> QED BY <1>1, <1>2

LEMMA ChildFacts ==
    ASSUME NEW S, NEW p \in Seq(S), NEW e \in S
    PROVE  /\ Append(p, e) \in Seq(S)
           /\ Append(p, e) # <<>>
           /\ Front(Append(p, e)) = p
           /\ Last(Append(p, e)) = e
           /\ Len(Append(p, e)) = Len(p) + 1
<1> DEFINE q == Append(p, e)
<1>1. /\ q \in Seq(S) /\ q # <<>> /\ Len(q) = Len(p) + 1
      /\ \A i \in 1..Len(p) : q[i] = p[i]
      /\ q[Len(p) + 1] = e
  BY AppendProperties
<1>2. Len(p) \in Nat /\ \A i \in 1..Len(p) : p[i] \in S
  BY ListFacts
<1> HIDE DEF q
<1>3. Front(q) = p
  <2> DEFINE u == SubSeq(q, 1, Len(p))
  <2>1. /\ u \in Seq(S)
        /\ Len(u) = IF 1 <= Len(p) THEN Len(p) - 1 + 1 ELSE 0
        /\ \A i \in 1..(Len(p) - 1 + 1) : u[i] = q[1 + i - 1]
    <3>1. \A i \in 1..Len(p) : q[i] \in S
      BY <1>1, <1>2
    <3> QED BY <1>2, <3>1, SubSeqProperties
  <2>2. Front(q) = u
    <3>1. Len(q) - 1 = Len(p)
      BY <1>1, <1>2
    <3> QED BY <3>1 DEF Front
  <2> HIDE DEF u
  <2>3. Len(u) = Len(p) /\ \A i \in 1..Len(u) : u[i] = p[i]
    BY <1>1, <1>2, <2>1
  <2>4. u = p
    BY <2>1, <2>3, SeqEqual
  <2> QED BY <2>2, <2>4
<1>4. Last(q) = e
  BY <1>1 DEF Last
<1> QED BY <1>1, <1>3, <1>4 DEF q

LEMMA ParentFacts ==
    ASSUME NEW S, NEW q \in Seq(S), q # <<>>
    PROVE  /\ Front(q) \in Seq(S)
           /\ Last(q) \in S
           /\ q = Append(Front(q), Last(q))
           /\ Len(q) = Len(Front(q)) + 1
<1>1. PICK p \in Seq(S), e \in S : q = Append(p, e)
  BY SequenceEmptyOrAppend
<1> QED BY <1>1, ChildFacts

LEMMA EmptyPath == \A S : <<>> \in Seq(S)
  BY EmptySeq

(* A child's path from further up. *)
LEMMA ChildBeyond ==
    ASSUME NEW S, NEW p \in Seq(S), NEW r \in Seq(S), NEW e \in S
    PROVE  Append(p \o r, e) = p \o Append(r, e)
<1>1. <<e>> \in Seq(S)
  OBVIOUS
<1>2. Append(p \o r, e) = (p \o r) \o <<e>>
  BY ExtensionFacts, AppendIsConcat
<1>3. Append(r, e) = r \o <<e>>
  BY AppendIsConcat
<1> DEFINE one == <<e>>
<1> HIDE DEF one
<1>4. (p \o r) \o one = p \o (r \o one)
  BY <1>1, ConcatAssociative DEF one
<1> QED BY <1>2, <1>3, <1>4 DEF one

LEMMA ChildIsConcat ==
    ASSUME NEW S, NEW p \in Seq(S), NEW e \in S
    PROVE  /\ Append(<<>>, e) \in Seq(S)
           /\ Append(p, e) = p \o Append(<<>>, e)
<1>1. Append(p \o <<>>, e) = p \o Append(<<>>, e)
  BY EmptyPath, ChildBeyond
<1>2. p \o <<>> = p
  BY ConcatEmptySeq
<1> QED BY <1>1, <1>2, EmptyPath, ChildFacts

(* The paths through a child are the child's own and those below it. *)
LEMMA PrefixOfChild ==
    ASSUME NEW S, NEW p \in Seq(S), NEW q \in Seq(S), NEW e \in S
    PROVE  IsPrefix(p, Append(q, e)) <=> IsPrefix(p, q) \/ p = Append(q, e)
<1>1. ASSUME IsPrefix(p, q) PROVE IsPrefix(p, Append(q, e))
  <2>1. PICK r \in Seq(S) : q = p \o r
    BY <1>1, PrefixIsExtension
  <2>2. Append(q, e) = p \o Append(r, e) /\ Append(r, e) \in Seq(S)
    BY <2>1, ChildBeyond, ChildFacts
  <2> QED BY <2>2, ExtensionFacts
<1>2. ASSUME p = Append(q, e) PROVE IsPrefix(p, Append(q, e))
  <2>1. p \o <<>> = p
    BY ConcatEmptySeq
  <2>2. IsPrefix(p, p \o <<>>)
    BY EmptyPath, ExtensionFacts
  <2> QED BY <1>2, <2>1, <2>2
<1>3. ASSUME IsPrefix(p, Append(q, e)) PROVE IsPrefix(p, q) \/ p = Append(q, e)
  <2>1. PICK r \in Seq(S) : Append(q, e) = p \o r
    BY <1>3, PrefixIsExtension, ChildFacts
  <2>2. CASE r = <<>>
    BY <2>1, <2>2, ConcatEmptySeq
  <2>3. CASE r # <<>>
    <3>1. PICK u \in Seq(S), f \in S : r = Append(u, f)
      BY <2>3, SequenceEmptyOrAppend
    <3>2. p \o Append(u, f) = Append(p \o u, f)
      BY ChildBeyond
    <3>3. p \o u \in Seq(S)
      BY ExtensionFacts
    <3> DEFINE v == p \o u
    <3>4. v \in Seq(S) /\ Append(q, e) = Append(v, f)
      BY <2>1, <3>1, <3>2, <3>3
    <3> HIDE DEF v
    <3>5. q = v
      BY <3>4, AppendInjective
    <3> QED BY <3>5, ExtensionFacts DEF v
  <2> QED BY <2>2, <2>3
<1> QED BY <1>1, <1>2, <1>3

LEMMA PrefixIsReflexive ==
    ASSUME NEW S, NEW p \in Seq(S)
    PROVE  IsPrefix(p, p)
<1>1. p \o <<>> = p
  BY ConcatEmptySeq
<1>2. IsPrefix(p, p \o <<>>)
  BY EmptyPath, ExtensionFacts
<1> QED BY <1>1, <1>2

LEMMA PrefixIsTransitive ==
    ASSUME NEW S, NEW p \in Seq(S), NEW q \in Seq(S), NEW u \in Seq(S),
           IsPrefix(p, q), IsPrefix(q, u)
    PROVE  IsPrefix(p, u)
<1>1. PICK r \in Seq(S) : q = p \o r
  BY PrefixIsExtension
<1>2. PICK v \in Seq(S) : u = q \o v
  BY PrefixIsExtension
<1>3. u = p \o (r \o v) /\ r \o v \in Seq(S)
  BY <1>1, <1>2, ConcatAssociative, ExtensionFacts
<1> QED BY <1>3, ExtensionFacts

LEMMA PrefixesAreOrdered ==
    ASSUME NEW S, NEW p \in Seq(S), NEW q \in Seq(S), NEW u \in Seq(S),
           IsPrefix(p, u), IsPrefix(q, u), Len(p) <= Len(q)
    PROVE  IsPrefix(p, q)
<1>1. /\ Len(p) \in Nat /\ Len(q) \in Nat /\ Len(u) \in Nat
      /\ Len(p) <= Len(u) /\ Len(q) <= Len(u)
  BY PrefixFacts, ListFacts
<1>2. SubSeq(p, 1, Len(p)) = p /\ SubSeq(q, 1, Len(q)) = q
  BY SubSeqFull
<1>3. p = SubSeq(u, 1, Len(p)) /\ q = SubSeq(u, 1, Len(q))
  BY <1>2 DEF IsPrefix
<1>4. SubSeq(q, 1, Len(p)) = SubSeq(u, 1, Len(p))
  <2> DEFINE a == SubSeq(q, 1, Len(p))
             b == SubSeq(u, 1, Len(p))
  <2>1. \A i \in 1..Len(q) : q[i] = u[i]
    <3>1. \A i \in 1..Len(u) : u[i] \in S
      BY ListFacts
    <3>2. \A i \in 1..Len(q) : u[i] \in S
      BY <1>1, <3>1
    <3>3. \A i \in 1..(Len(q) - 1 + 1) : SubSeq(u, 1, Len(q))[i] = u[1 + i - 1]
      BY <1>1, <3>2, SubSeqProperties
    <3> QED BY <1>1, <1>3, <3>3
  <2>2. /\ a \in Seq(S) /\ Len(a) = IF 1 <= Len(p) THEN Len(p) - 1 + 1 ELSE 0
        /\ \A i \in 1..(Len(p) - 1 + 1) : a[i] = q[1 + i - 1]
    <3>1. \A i \in 1..Len(p) : q[i] \in S
      BY <1>1, ListFacts
    <3> QED BY <1>1, <3>1, SubSeqProperties
  <2>3. /\ b \in Seq(S) /\ Len(b) = IF 1 <= Len(p) THEN Len(p) - 1 + 1 ELSE 0
        /\ \A i \in 1..(Len(p) - 1 + 1) : b[i] = u[1 + i - 1]
    <3>1. \A i \in 1..Len(p) : u[i] \in S
      BY <1>1, ListFacts
    <3> QED BY <1>1, <3>1, SubSeqProperties
  <2> HIDE DEF a, b
  <2>4. Len(a) = Len(b) /\ \A i \in 1..Len(a) : a[i] = b[i]
    BY <1>1, <2>1, <2>2, <2>3
  <2>5. a = b
    BY <2>2, <2>3, <2>4, SeqEqual
  <2> QED BY <2>5 DEF a, b
<1> QED BY <1>1, <1>2, <1>3, <1>4 DEF IsPrefix

(* Two children of one parent have no path in common. *)
LEMMA ChildrenAreApart ==
    ASSUME NEW S, NEW p \in Seq(S), NEW a \in S, NEW b \in S, NEW u \in Seq(S),
           IsPrefix(Append(p, a), u), IsPrefix(Append(p, b), u)
    PROVE  a = b
<1> DEFINE x == Append(p, a)
           y == Append(p, b)
<1>1. /\ x \in Seq(S) /\ y \in Seq(S)
      /\ Len(x) = Len(p) + 1 /\ Len(y) = Len(p) + 1
      /\ Len(p) \in Nat
      /\ IsPrefix(x, u) /\ IsPrefix(y, u)
  BY ChildFacts, ListFacts
<1>2. IsPrefix(x, p) \/ x = y <=> IsPrefix(x, y)
  <2>1. x \in Seq(S)
    BY <1>1
  <2> HIDE DEF x
  <2> QED BY <2>1, PrefixOfChild
<1>3. x = y => a = b
  BY AppendInjective
<1> HIDE DEF x, y
<1>4. IsPrefix(x, y)
  <2>1. Len(x) <= Len(y)
    BY <1>1
  <2> QED BY <1>1, <2>1, PrefixesAreOrdered
<1>5. ~IsPrefix(x, p)
  <2>1. SUFFICES ASSUME IsPrefix(x, p) PROVE FALSE
    OBVIOUS
  <2>2. Len(x) <= Len(p)
    BY <1>1, <2>1, PrefixFacts
  <2> QED BY <1>1, <2>2
<1> QED BY <1>2, <1>3, <1>4, <1>5

LEMMA ConcatCancels ==
    ASSUME NEW S, NEW p \in Seq(S), NEW r \in Seq(S), NEW v \in Seq(S), p \o r = p \o v
    PROVE  r = v
<1>1. Beyond(p, p \o r) = r
  BY ExtensionFacts
<1>2. Beyond(p, p \o v) = v
  BY ExtensionFacts
<1> QED BY <1>1, <1>2

-----------------------------------------------------------------------------
(* Paths of a document.  Child and Join are Append and \o under names that the
   provers leave alone. *)

Path == Seq(Identifiers)
Child(p, id) == Append(p, id)
Join(p, r) == p \o r

LEMMA EmptyIsPath == <<>> \in Path
  BY EmptyPath DEF Path

LEMMA ChildOfPath ==
    ASSUME NEW p \in Path, NEW id \in Identifiers
    PROVE  /\ Child(p, id) \in Path
           /\ Child(p, id) # <<>>
           /\ Front(Child(p, id)) = p
           /\ Last(Child(p, id)) = id
           /\ Len(Child(p, id)) = Len(p) + 1
           /\ Len(p) \in Nat
  BY ChildFacts, LenProperties DEF Path, Child

LEMMA JoinOfPaths ==
    ASSUME NEW p \in Path, NEW r \in Path
    PROVE  /\ Join(p, r) \in Path
           /\ Len(Join(p, r)) = Len(p) + Len(r)
           /\ Len(p) \in Nat
           /\ Len(r) \in Nat
           /\ IsPrefix(p, Join(p, r))
           /\ Beyond(p, Join(p, r)) = r
  BY ExtensionFacts, LenProperties DEF Path, Join

LEMMA JoinEmpty ==
    ASSUME NEW p \in Path
    PROVE  Join(p, <<>>) = p /\ Join(<<>>, p) = p
<1>1. p \in Seq(Identifiers)
  BY DEF Path
<1> QED BY <1>1, ConcatEmptySeq DEF Join

LEMMA JoinAssociates ==
    ASSUME NEW p \in Path, NEW q \in Path, NEW r \in Path
    PROVE  Join(Join(p, q), r) = Join(p, Join(q, r))
  BY ConcatAssociative DEF Path, Join

(* A child's path from further up. *)
LEMMA ChildOfJoin ==
    ASSUME NEW p \in Path, NEW r \in Path, NEW id \in Identifiers
    PROVE  Child(Join(p, r), id) = Join(p, Child(r, id))
<1>1. <<id>> \in Seq(Identifiers) /\ p \in Seq(Identifiers) /\ r \in Seq(Identifiers)
  BY DEF Path
<1>2. Append(p \o r, id) = (p \o r) \o <<id>>
  BY <1>1, ExtensionFacts, AppendIsConcat
<1>3. Append(r, id) = r \o <<id>>
  BY <1>1, AppendIsConcat
<1> DEFINE one == <<id>>
<1> HIDE DEF one
<1>4. (p \o r) \o one = p \o (r \o one)
  BY <1>1, ConcatAssociative DEF one
<1>5. Append(p \o r, id) = p \o Append(r, id)
  BY <1>2, <1>3, <1>4 DEF one
<1> QED BY <1>5 DEF Child, Join

LEMMA JoinCancels ==
    ASSUME NEW p \in Path, NEW r \in Path, NEW v \in Path, Join(p, r) = Join(p, v)
    PROVE  r = v
<1>1. Beyond(p, Join(p, r)) = r /\ Beyond(p, Join(p, v)) = v
  BY JoinOfPaths
<1> QED BY <1>1

LEMMA ChildCancels ==
    ASSUME NEW p \in Path, NEW q \in Path, NEW id \in Identifiers, NEW e \in Identifiers,
           Child(p, id) = Child(q, e)
    PROVE  p = q /\ id = e
<1>1. p \in Seq(Identifiers) /\ q \in Seq(Identifiers)
  BY DEF Path
<1> QED BY <1>1, AppendInjective DEF Child

LEMMA PathSplits ==
    ASSUME NEW q \in Path, q # <<>>
    PROVE  /\ Front(q) \in Path
           /\ Last(q) \in Identifiers
           /\ q = Child(Front(q), Last(q))
  BY ParentFacts DEF Path, Child

LEMMA PathPrefix ==
    ASSUME NEW p \in Path, NEW q \in Path
    PROVE  IsPrefix(p, q) <=> \E r \in Path : q = Join(p, r)
  BY PrefixIsExtension DEF Path, Join

LEMMA PathPrefixOfChild ==
    ASSUME NEW p \in Path, NEW q \in Path, NEW e \in Identifiers
    PROVE  IsPrefix(p, Child(q, e)) <=> IsPrefix(p, q) \/ p = Child(q, e)
  BY PrefixOfChild DEF Path, Child

LEMMA PathPrefixShort ==
    ASSUME NEW p \in Path, NEW q \in Path, IsPrefix(p, q)
    PROVE  Len(p) <= Len(q) /\ Len(p) \in Nat /\ Len(q) \in Nat
  BY PrefixFacts, LenProperties DEF Path

LEMMA OwnPrefix ==
    ASSUME NEW p \in Path
    PROVE  IsPrefix(p, p)
  BY PrefixIsReflexive DEF Path

LEMMA PathsAreOrdered ==
    ASSUME NEW p \in Path, NEW q \in Path, NEW u \in Path,
           IsPrefix(p, u), IsPrefix(q, u), Len(p) <= Len(q)
    PROVE  IsPrefix(p, q)
  BY PrefixesAreOrdered DEF Path

LEMMA OnlyTheRootIsEmpty ==
    ASSUME NEW p \in Path, NEW r \in Path, Join(p, r) = <<>>
    PROVE  p = <<>> /\ r = <<>>
  BY ConcatEqualIffEmpty DEF Path, Join

(* No child is above its parent. *)
LEMMA ChildIsBelow ==
    ASSUME NEW p \in Path, NEW id \in Identifiers
    PROVE  ~IsPrefix(Child(p, id), p)
<1> DEFINE c == Child(p, id)
<1>1. c \in Path /\ Len(c) = Len(p) + 1 /\ Len(p) \in Nat
  BY ChildOfPath
<1> HIDE DEF c
<1>2. IsPrefix(c, p) => Len(c) <= Len(p)
  BY <1>1, PathPrefixShort
<1>3. ~IsPrefix(c, p)
  BY <1>1, <1>2
<1> QED BY <1>3 DEF c

(* The parent of what lies further down. *)
LEMMA FrontOfJoin ==
    ASSUME NEW p \in Path, NEW u \in Path, NEW e \in Identifiers
    PROVE  Join(p, Child(u, e)) # <<>> /\ Front(Join(p, Child(u, e))) = Join(p, u)
<1>1. Join(p, Child(u, e)) = Child(Join(p, u), e) /\ Join(p, u) \in Path
  BY ChildOfJoin, JoinOfPaths
<1> QED BY <1>1, ChildOfPath

(* A path that goes somewhere takes a first step. *)
LEMMA FirstStep ==
    ASSUME NEW v \in Path, v # <<>>
    PROVE  \E e \in Identifiers, w \in Path :
              \A p \in Path : Join(p, v) = Join(Child(p, e), w)
<1> DEFINE e == Head(v)
           w == Tail(v)
<1>1. v \in Seq(Identifiers) /\ e \in Identifiers /\ w \in Seq(Identifiers) /\ v = <<e>> \o w
  <2>1. v \in Seq(Identifiers)
    BY DEF Path
  <2>2. e \in Identifiers /\ w \in Seq(Identifiers)
    BY <2>1, HeadTailProperties
  <2>3. v = <<e>> \o w
    BY <2>1, HeadTailProperties, ConcatProperties
  <2> QED BY <2>1, <2>2, <2>3
<1> HIDE DEF e, w
<1>3. ASSUME NEW p \in Path PROVE Join(p, v) = Join(Child(p, e), w)
  <2>1. p \in Seq(Identifiers) /\ <<e>> \in Seq(Identifiers) /\ w \in Seq(Identifiers)
    BY <1>1 DEF Path
  <2>2. Append(p, e) = p \o <<e>>
    BY <1>1, <2>1, AppendIsConcat
  <2> DEFINE one == <<e>>
  <2> HIDE DEF one
  <2>3. (p \o one) \o w = p \o (one \o w)
    BY <2>1, ConcatAssociative DEF one
  <2>4. p \o v = Append(p, e) \o w
    BY <1>1, <2>2, <2>3 DEF one
  <2> QED BY <2>4 DEF Join, Child
<1> QED BY <1>1, <1>3 DEF Path

-----------------------------------------------------------------------------
(* Trees *)

(* The lists and the items of a tree agree. *)
Kin(t) ==
    /\ \A p \in DOMAIN t : Distinct(t[p].kids)
    /\ \A p \in DOMAIN t, id \in Identifiers :
          id \in ToSet(t[p].kids) <=> Child(p, id) \in DOMAIN t
    /\ \A q \in ItemPaths(t) : Front(q) \in Groups(t)

Good(t) == IsTree(t) /\ Kin(t)

LEMMA TreeFacts ==
    ASSUME NEW t, IsTree(t)
    PROVE  /\ \A q \in DOMAIN t : q \in Path
           /\ \A q \in DOMAIN t :
                 /\ t[q] \in Nodes
                 /\ t[q].kids \in Seq(Identifiers)
                 /\ t[q].ref \in Identifiers
                 /\ t[q].kind \in Kinds
           /\ <<>> \in DOMAIN t
           /\ IsFiniteSet(DOMAIN t)
  BY DEF IsTree, Nodes, Path

LEMMA WithKids ==
    ASSUME NEW n \in Nodes, NEW k \in Seq(Identifiers)
    PROVE  /\ [n EXCEPT !.kids = k] \in Nodes
           /\ [n EXCEPT !.kids = k].kids = k
           /\ [n EXCEPT !.kids = k].kind = n.kind
           /\ [n EXCEPT !.kids = k].ref = n.ref
           /\ [n EXCEPT !.kids = k].locked = n.locked
  BY DEF Nodes

LEMMA WithLock ==
    ASSUME NEW n \in Nodes, NEW b \in BOOLEAN
    PROVE  /\ [n EXCEPT !.locked = b] \in Nodes
           /\ [n EXCEPT !.locked = b].kids = n.kids
           /\ [n EXCEPT !.locked = b].kind = n.kind
           /\ [n EXCEPT !.locked = b].ref = n.ref
  BY DEF Nodes

LEMMA WholeIsKin ==
    ASSUME NEW t, IsTree(t)
    PROVE  TreeIsWhole(t) <=> Kin(t)
<1>1. \A p \in DOMAIN t : p \in Path /\ t[p].kids \in Seq(Identifiers)
  BY TreeFacts
<1>2. \A p \in DOMAIN t : Distinct(t[p].kids) <=> Cardinality(ToSet(t[p].kids)) = Len(t[p].kids)
  BY <1>1, DistinctLength
<1>3. ASSUME NEW p \in DOMAIN t
      PROVE  ToSet(t[p].kids) = {Last(q) : q \in {r \in ItemPaths(t) : Front(r) = p}}
                <=> \A id \in Identifiers :
                       id \in ToSet(t[p].kids) <=> Child(p, id) \in DOMAIN t
  <2> DEFINE C == {Last(q) : q \in {r \in ItemPaths(t) : Front(r) = p}}
             L == ToSet(t[p].kids)
  <2>1. L \subseteq Identifiers
    BY <1>1, ListFacts
  <2>2. C \subseteq Identifiers
    BY <1>1, PathSplits DEF ItemPaths
  <2>3. ASSUME NEW id \in Identifiers PROVE id \in C <=> Child(p, id) \in DOMAIN t
    <3>1. /\ Child(p, id) # <<>> /\ Front(Child(p, id)) = p /\ Last(Child(p, id)) = id
      BY <1>1, ChildOfPath
    <3>2. ASSUME Child(p, id) \in DOMAIN t PROVE id \in C
      <4>1. Child(p, id) \in {r \in ItemPaths(t) : Front(r) = p}
        BY <3>1, <3>2 DEF ItemPaths
      <4> QED BY <3>1, <4>1
    <3>3. ASSUME id \in C PROVE Child(p, id) \in DOMAIN t
      <4>1. PICK q \in ItemPaths(t) : Front(q) = p /\ Last(q) = id
        BY <3>3
      <4>2. q \in DOMAIN t /\ q # <<>> /\ q \in Path
        BY <1>1, <4>1 DEF ItemPaths
      <4>3. q = Child(Front(q), Last(q))
        BY <4>2, PathSplits
      <4> QED BY <4>1, <4>2, <4>3
    <3> QED BY <3>2, <3>3
  <2> HIDE DEF C, L
  <2>4. L = C <=> \A id \in Identifiers : id \in L <=> Child(p, id) \in DOMAIN t
    BY <2>1, <2>2, <2>3
  <2> QED BY <2>4 DEF C, L
<1> QED BY <1>2, <1>3 DEF TreeIsWhole, Kin

-----------------------------------------------------------------------------
(* An item taken on its own *)

LEMMA BelowFacts ==
    ASSUME NEW t, IsTree(t), NEW p \in Path
    PROVE  /\ \A q : q \in Below(t, p) <=> q \in DOMAIN t /\ \E r \in Path : q = Join(p, r)
           /\ {Beyond(p, r) : r \in Below(t, p)} = {r \in Path : Join(p, r) \in DOMAIN t}
           /\ IsFiniteSet(Below(t, p))
           /\ IsFiniteSet({Beyond(p, r) : r \in Below(t, p)})
<1>1. \A q : q \in Below(t, p) <=> q \in DOMAIN t /\ \E r \in Path : q = Join(p, r)
  BY TreeFacts, PathPrefix DEF Below
<1>2. \A r \in Path : Beyond(p, Join(p, r)) = r
  BY JoinOfPaths
<1> DEFINE B == {Beyond(p, r) : r \in Below(t, p)}
<1>3. B = {r \in Path : Join(p, r) \in DOMAIN t}
  <2>1. ASSUME NEW x \in B PROVE x \in Path /\ Join(p, x) \in DOMAIN t
    <3>1. PICK q \in Below(t, p) : x = Beyond(p, q)
      OBVIOUS
    <3>2. PICK r \in Path : q = Join(p, r)
      BY <1>1, <3>1
    <3>3. x = r
      BY <1>2, <3>1, <3>2
    <3> QED BY <1>1, <3>1, <3>2, <3>3
  <2>2. ASSUME NEW r \in Path, Join(p, r) \in DOMAIN t PROVE r \in B
    <3>1. Join(p, r) \in Below(t, p) /\ Beyond(p, Join(p, r)) = r
      BY <1>1, <1>2, <2>2
    <3> QED BY <3>1
  <2> HIDE DEF B
  <2> QED BY <2>1, <2>2
<1>4. IsFiniteSet(Below(t, p))
  <2>1. IsFiniteSet(DOMAIN t) /\ Below(t, p) \in SUBSET DOMAIN t
    BY TreeFacts DEF Below
  <2> QED BY <2>1, FS_Subset
<1>5. IsFiniteSet(B)
  <2> DEFINE f == [q \in Below(t, p) |-> Beyond(p, q)]
  <2>1. f \in Surjection(Below(t, p), B)
    BY DEF Surjection
  <2> HIDE DEF f, B
  <2> QED BY <1>4, <2>1, FS_Surjection
<1> QED BY <1>1, <1>3, <1>4, <1>5

LEMMA ItemIsGood ==
    ASSUME NEW t, Good(t), NEW p \in DOMAIN t
    PROVE  /\ Good(ItemAt(t, p))
           /\ DOMAIN ItemAt(t, p) = {r \in Path : Join(p, r) \in DOMAIN t}
           /\ \A r \in DOMAIN ItemAt(t, p) : ItemAt(t, p)[r] = t[Join(p, r)]
<1> DEFINE item == ItemAt(t, p)
<1>1. p \in Path /\ IsTree(t) /\ Kin(t) /\ Join(p, <<>>) = p
  BY TreeFacts, JoinEmpty DEF Good
<1>2. /\ DOMAIN item = {r \in Path : Join(p, r) \in DOMAIN t}
      /\ \A r \in DOMAIN item : item[r] = t[Join(p, r)]
      /\ item = [r \in DOMAIN item |-> t[Join(p, r)]]
  <2>1. item = [q \in {Beyond(p, r) : r \in Below(t, p)} |-> t[Join(p, q)]]
    BY DEF ItemAt, Join
  <2>2. {Beyond(p, r) : r \in Below(t, p)} = {r \in Path : Join(p, r) \in DOMAIN t}
    BY <1>1, BelowFacts
  <2> HIDE DEF item
  <2> QED BY <2>1, <2>2
<1>3. IsFiniteSet(DOMAIN item)
  <2>1. IsFiniteSet({Beyond(p, r) : r \in Below(t, p)})
    BY <1>1, BelowFacts
  <2> QED BY <2>1 DEF ItemAt, Join
<1> HIDE DEF item
<1>4. \A r \in DOMAIN item : item[r] \in Nodes
  BY <1>1, <1>2, TreeFacts
<1>5. IsTree(item)
  <2>1. <<>> \in DOMAIN item
    BY <1>1, <1>2, EmptyIsPath
  <2>2. item \in [DOMAIN item -> Nodes]
    BY <1>2, <1>4
  <2>3. DOMAIN item \subseteq Seq(Identifiers)
    BY <1>2 DEF Path
  <2> QED BY <1>3, <2>1, <2>2, <2>3 DEF IsTree
<1>6. ASSUME NEW r \in DOMAIN item
      PROVE  /\ Distinct(item[r].kids)
             /\ \A id \in Identifiers :
                   id \in ToSet(item[r].kids) <=> Child(r, id) \in DOMAIN item
             /\ r # <<>> => Front(r) \in Groups(item)
  <2>1. r \in Path /\ Join(p, r) \in DOMAIN t /\ item[r] = t[Join(p, r)]
    BY <1>2
  <2>2. Distinct(item[r].kids)
    BY <1>1, <2>1 DEF Kin
  <2>3. ASSUME NEW id \in Identifiers
        PROVE  id \in ToSet(item[r].kids) <=> Child(r, id) \in DOMAIN item
    <3>1. Child(Join(p, r), id) = Join(p, Child(r, id))
      BY <1>1, <2>1, ChildOfJoin
    <3>3. Child(r, id) \in Path
      BY <2>1, ChildOfPath
    <3>2. id \in ToSet(t[Join(p, r)].kids) <=> Child(Join(p, r), id) \in DOMAIN t
      BY <1>1, <2>1 DEF Kin
    <3> QED BY <1>2, <2>1, <3>1, <3>2, <3>3
  <2>4. ASSUME r # <<>> PROVE Front(r) \in Groups(item)
    <3>1. PICK u \in Path, id \in Identifiers : r = Child(u, id)
      BY <2>1, <2>4, PathSplits
    <3>2. Front(r) = u /\ Join(p, r) = Child(Join(p, u), id) /\ Join(p, u) \in Path
      BY <1>1, <3>1, ChildOfJoin, ChildOfPath, JoinOfPaths
    <3>3. Front(Join(p, r)) = Join(p, u) /\ Join(p, r) # <<>>
      <4> DEFINE v == Join(p, u)
      <4>1. v \in Path /\ Join(p, r) = Child(v, id)
        BY <3>2
      <4> HIDE DEF v
      <4>2. Front(Join(p, r)) = v /\ Join(p, r) # <<>>
        BY <4>1, ChildOfPath
      <4> QED BY <4>2 DEF v
    <3>4. Join(p, u) \in DOMAIN t /\ t[Join(p, u)].kind = "group"
      BY <1>1, <2>1, <3>3 DEF Kin, ItemPaths, Groups
    <3>5. u \in DOMAIN item /\ item[u] = t[Join(p, u)]
      BY <1>2, <3>4
    <3> QED BY <3>2, <3>4, <3>5 DEF Groups
  <2> QED BY <2>2, <2>3, <2>4
<1>7. Kin(item)
  BY <1>6 DEF Kin, ItemPaths
<1> QED BY <1>2, <1>5, <1>7 DEF Good, item

-----------------------------------------------------------------------------
(* Items taken out *)

LEMMA ExceptFacts ==
    ASSUME NEW S, NEW list \in Seq(S), NEW ids
    PROVE  /\ Except(list, ids) \in Seq(S)
           /\ ToSet(Except(list, ids)) = ToSet(list) \ ids
           /\ Distinct(list) => Distinct(Except(list, ids))
  BY AmongFacts DEF Except

LEMMA DetachedFacts ==
    ASSUME NEW t, Good(t), NEW roots \in SUBSET (Path \ {<<>>})
    PROVE  /\ DOMAIN Detached(t, roots) = {q \in DOMAIN t : \A p \in roots : ~IsPrefix(p, q)}
           /\ Detached(t, roots) = [q \in DOMAIN Detached(t, roots) |-> Detached(t, roots)[q]]
  BY DEF Detached, Below

LEMMA DetachedNodes ==
    ASSUME NEW t, Good(t), NEW roots \in SUBSET (Path \ {<<>>}),
           NEW q \in DOMAIN Detached(t, roots)
    PROVE  /\ Detached(t, roots)[q] \in Nodes
           /\ Detached(t, roots)[q].kind = t[q].kind
           /\ Detached(t, roots)[q].ref = t[q].ref
           /\ Detached(t, roots)[q].locked = t[q].locked
           /\ \A id : id \in ToSet(Detached(t, roots)[q].kids)
                        <=> id \in ToSet(t[q].kids) /\ Child(q, id) \notin roots
           /\ Distinct(Detached(t, roots)[q].kids)
<1> DEFINE cut == {id \in ToSet(t[q].kids) : Child(q, id) \in roots}
           kids == Except(t[q].kids, cut)
           node == Detached(t, roots)[q]
<1>1. q \in DOMAIN t /\ node = [t[q] EXCEPT !.kids = kids]
  BY DEF Detached, Child
<1>2. t[q] \in Nodes /\ t[q].kids \in Seq(Identifiers) /\ Distinct(t[q].kids)
  BY <1>1, TreeFacts DEF Good, Kin
<1>3. /\ kids \in Seq(Identifiers) /\ Distinct(kids)
      /\ ToSet(kids) = ToSet(t[q].kids) \ cut
  <2> HIDE DEF cut
  <2> QED BY <1>2, ExceptFacts
<1>4. \A id : id \in ToSet(kids) <=> id \in ToSet(t[q].kids) /\ Child(q, id) \notin roots
  <2> HIDE DEF kids
  <2> QED BY <1>3
<1> HIDE DEF kids, node
<1>5. /\ node \in Nodes /\ node.kids = kids /\ node.kind = t[q].kind
      /\ node.ref = t[q].ref /\ node.locked = t[q].locked
  BY <1>1, <1>2, <1>3, WithKids
<1> QED BY <1>3, <1>4, <1>5 DEF node

LEMMA DetachedIsGood ==
    ASSUME NEW t, Good(t), NEW roots \in SUBSET (Path \ {<<>>})
    PROVE  Good(Detached(t, roots))
<1> DEFINE left == Detached(t, roots)
<1>1. /\ DOMAIN left = {q \in DOMAIN t : \A p \in roots : ~IsPrefix(p, q)}
      /\ left = [q \in DOMAIN left |-> left[q]]
  BY DetachedFacts
<1>7. ASSUME NEW q \in DOMAIN left
      PROVE  /\ left[q] \in Nodes
             /\ left[q].kind = t[q].kind
             /\ \A id : id \in ToSet(left[q].kids)
                          <=> id \in ToSet(t[q].kids) /\ Child(q, id) \notin roots
             /\ Distinct(left[q].kids)
  BY DetachedNodes
<1> HIDE DEF left
<1>2. IsTree(t) /\ Kin(t) /\ \A q \in DOMAIN t : q \in Path
  BY TreeFacts DEF Good
<1>3. IsTree(left)
  <2>1. IsFiniteSet(DOMAIN left)
    <3>1. DOMAIN left \in SUBSET DOMAIN t /\ IsFiniteSet(DOMAIN t)
      BY <1>1, <1>2, TreeFacts
    <3> QED BY <3>1, FS_Subset
  <2>2. <<>> \in DOMAIN left
    <3>1. ASSUME NEW p \in roots PROVE ~IsPrefix(p, <<>>)
      <4>1. SUFFICES ASSUME IsPrefix(p, <<>>) PROVE FALSE
        OBVIOUS
      <4>2. p \in Path /\ p # <<>> /\ <<>> \in Path
        BY EmptyIsPath
      <4>3. PICK r \in Path : <<>> = Join(p, r)
        BY <4>1, <4>2, PathPrefix
      <4> QED BY <4>2, <4>3, OnlyTheRootIsEmpty
    <3> QED BY <1>1, <1>2, <3>1, TreeFacts
  <2>3. left \in [DOMAIN left -> Nodes]
    BY <1>1, <1>7
  <2>4. DOMAIN left \subseteq Seq(Identifiers)
    BY <1>1, <1>2 DEF Path
  <2> QED BY <2>1, <2>2, <2>3, <2>4 DEF IsTree
<1>4. ASSUME NEW q \in DOMAIN left, NEW id \in Identifiers
      PROVE  id \in ToSet(left[q].kids) <=> Child(q, id) \in DOMAIN left
  <2>1. q \in DOMAIN t /\ q \in Path /\ \A p \in roots : ~IsPrefix(p, q)
    BY <1>1, <1>2
  <2>2. id \in ToSet(t[q].kids) <=> Child(q, id) \in DOMAIN t
    BY <1>2, <2>1 DEF Kin
  <2>3. ASSUME NEW p \in roots
        PROVE  IsPrefix(p, Child(q, id)) <=> p = Child(q, id)
    <3>1. p \in Path /\ q \in Path /\ ~IsPrefix(p, q)
      BY <2>1
    <3> QED BY <3>1, PathPrefixOfChild
  <2>4. Child(q, id) \in DOMAIN left <=> Child(q, id) \in DOMAIN t /\ Child(q, id) \notin roots
    BY <1>1, <2>3, Zenon
  <2>5. id \in ToSet(left[q].kids) <=> id \in ToSet(t[q].kids) /\ Child(q, id) \notin roots
    BY <1>7
  <2> QED BY <2>2, <2>4, <2>5
<1>5. ASSUME NEW q \in ItemPaths(left) PROVE Front(q) \in Groups(left)
  <2>1. q \in DOMAIN t /\ q \in Path /\ q # <<>> /\ \A p \in roots : ~IsPrefix(p, q)
    BY <1>1, <1>2, <1>5 DEF ItemPaths
  <2>2. Front(q) \in DOMAIN t /\ t[Front(q)].kind = "group"
    BY <1>2, <2>1 DEF Kin, Groups, ItemPaths
  <2>3. Front(q) \in Path /\ Last(q) \in Identifiers /\ q = Child(Front(q), Last(q))
    BY <2>1, PathSplits
  <2>4. ASSUME NEW p \in roots PROVE ~IsPrefix(p, Front(q))
    <3> DEFINE f == Front(q)
               l == Last(q)
    <3>1. /\ p \in Path /\ f \in Path /\ l \in Identifiers
          /\ q = Child(f, l) /\ ~IsPrefix(p, q)
      BY <2>1, <2>3 DEF Path
    <3> HIDE DEF f, l
    <3>2. ~IsPrefix(p, f)
      BY <3>1, PathPrefixOfChild
    <3> QED BY <3>2 DEF f
  <2> QED BY <1>1, <1>7, <2>2, <2>4 DEF Groups
<1>6. Kin(left)
  BY <1>4, <1>5, <1>7 DEF Kin
<1> QED BY <1>3, <1>6 DEF Good, left

-----------------------------------------------------------------------------
(* A tree holds the parents of its paths *)

LEMMA TreeIsClosed ==
    ASSUME NEW t, Good(t), NEW p \in Path, NEW r \in Path, Join(p, r) \in DOMAIN t
    PROVE  p \in DOMAIN t
<1> DEFINE R == {v \in Path : Join(p, v) \in DOMAIN t}
           T == {Len(v) : v \in R}
<1>1. T \subseteq Nat /\ T # {}
  <2>1. \A v \in Path : Len(v) \in Nat
    BY LenProperties DEF Path
  <2>2. r \in R
    OBVIOUS
  <2>3. \A v \in R : v \in Path
    OBVIOUS
  <2> HIDE DEF R
  <2> QED BY <2>1, <2>2, <2>3
<1>2. PICK n \in T : \A k \in T : n <= k
  <2> HIDE DEF T
  <2> QED BY <1>1, LeastNumber
<1>3. PICK v \in R : Len(v) = n
  BY <1>2
<1>4. CASE v = <<>>
  <2>1. Join(p, <<>>) = p
    BY JoinEmpty
  <2> QED BY <1>3, <1>4, <2>1
<1>5. CASE v # <<>>
  <2>1. PICK u \in Path, e \in Identifiers : v = Child(u, e)
    BY <1>3, <1>5, PathSplits
  <2>2. Join(p, v) = Child(Join(p, u), e) /\ Join(p, u) \in Path
    BY <2>1, ChildOfJoin, ChildOfPath, JoinOfPaths, JoinEmpty
  <2> DEFINE w == Join(p, u)
  <2>3. w \in Path /\ Join(p, v) = Child(w, e) /\ Join(p, v) \in DOMAIN t
    BY <1>3, <2>2
  <2> HIDE DEF w
  <2>4. Child(w, e) # <<>> /\ Front(Child(w, e)) = w
    BY <2>3, ChildOfPath, JoinOfPaths, JoinEmpty
  <2>5. w \in DOMAIN t
    BY <2>3, <2>4 DEF Good, Kin, ItemPaths, Groups
  <2>6. Len(u) \in T
    BY <2>5 DEF w
  <2>7. Len(v) = Len(u) + 1 /\ Len(u) \in Nat
    BY <2>1, ChildOfPath, JoinOfPaths, JoinEmpty
  <2> QED BY <1>2, <1>3, <2>6, <2>7
<1> QED BY <1>4, <1>5

-----------------------------------------------------------------------------
(* Lists put in another order, and locks *)

(* u is t but for the order of its lists and its locks. *)
Relisted(t, u) ==
    /\ DOMAIN u = DOMAIN t
    /\ u = [q \in DOMAIN u |-> u[q]]
    /\ \A q \in DOMAIN t :
          /\ u[q] \in Nodes
          /\ u[q].kind = t[q].kind
          /\ u[q].ref = t[q].ref
          /\ Distinct(u[q].kids)
          /\ ToSet(u[q].kids) = ToSet(t[q].kids)

LEMMA RelistedIsGood ==
    ASSUME NEW t, Good(t), NEW u, Relisted(t, u)
    PROVE  Good(u)
<1>1. IsTree(u)
  <2>1. u \in [DOMAIN u -> Nodes]
    BY DEF Relisted
  <2> QED BY <2>1 DEF IsTree, Good, Relisted
<1>2. Kin(u)
  BY DEF Good, Kin, Relisted, Groups, ItemPaths
<1> QED BY <1>1, <1>2 DEF Good

-----------------------------------------------------------------------------
(* An item put into a tree *)

LEMMA KidsFacts ==
    ASSUME NEW t, Good(t), NEW p \in DOMAIN t
    PROVE  /\ p \in Path
           /\ t[p] \in Nodes
           /\ t[p].kids \in Seq(Identifiers)
           /\ ToSet(t[p].kids) \subseteq Identifiers
           /\ Distinct(t[p].kids)
           /\ \A id \in Identifiers :
                 id \in ToSet(t[p].kids) <=> Child(p, id) \in DOMAIN t
           /\ Len(t[p].kids) \in Nat
<1>1. p \in Path /\ t[p] \in Nodes /\ t[p].kids \in Seq(Identifiers)
  BY TreeFacts DEF Good
<1>2. /\ Distinct(t[p].kids)
      /\ \A id \in Identifiers :
            id \in ToSet(t[p].kids) <=> Child(p, id) \in DOMAIN t
  BY DEF Good, Kin
<1>3. ToSet(t[p].kids) \subseteq Identifiers /\ Len(t[p].kids) \in Nat
  BY <1>1, ListFacts
<1> QED BY <1>1, <1>2, <1>3

LEMMA FrontIsGroup ==
    ASSUME NEW t, Good(t), NEW q \in DOMAIN t, q # <<>>
    PROVE  Front(q) \in DOMAIN t /\ t[Front(q)].kind = "group"
  BY DEF Good, Kin, ItemPaths, Groups

LEMMA AttachedFacts ==
    ASSUME NEW t, Good(t), NEW item, Good(item), NEW parent \in DOMAIN t,
           NEW id \in Identifiers, id \notin ToSet(t[parent].kids),
           NEW index \in 0..Len(t[parent].kids)
    PROVE  /\ \A q \in DOMAIN t : ~IsPrefix(Child(parent, id), q)
           /\ \A q : q \in DOMAIN Attached(t, parent, id, index, item) <=>
                 \/ q \in DOMAIN t
                 \/ \E r \in DOMAIN item : q = Join(Child(parent, id), r)
           /\ \A r \in DOMAIN item :
                 Attached(t, parent, id, index, item)[Join(Child(parent, id), r)] = item[r]
           /\ \A q \in DOMAIN t : q # parent => Attached(t, parent, id, index, item)[q] = t[q]
           /\ Attached(t, parent, id, index, item)[parent] \in Nodes
           /\ Attached(t, parent, id, index, item)[parent].kind = t[parent].kind
           /\ Attached(t, parent, id, index, item)[parent].ref = t[parent].ref
           /\ Attached(t, parent, id, index, item)[parent].locked = t[parent].locked
           /\ Attached(t, parent, id, index, item)[parent].kids
                 = InsertAt(t[parent].kids, index + 1, id)
           /\ \A e : e \in ToSet(Attached(t, parent, id, index, item)[parent].kids)
                      <=> e \in ToSet(t[parent].kids) \/ e = id
           /\ Distinct(Attached(t, parent, id, index, item)[parent].kids)
           /\ IsFiniteSet(DOMAIN Attached(t, parent, id, index, item))
<1> DEFINE at == Child(parent, id)
           more == Attached(t, parent, id, index, item)
           new == {Join(at, r) : r \in DOMAIN item}
<1>1. /\ parent \in Path /\ at \in Path
      /\ \A q \in DOMAIN t : q \in Path
      /\ \A r \in DOMAIN item : r \in Path
      /\ at \notin DOMAIN t
  <2>1. parent \in Path /\ at \notin DOMAIN t
    BY KidsFacts
  <2>2. at \in Path
    BY <2>1, ChildOfPath, JoinOfPaths, JoinEmpty
  <2> QED BY <2>1, <2>2, KidsFacts
<1>2. \A q \in DOMAIN t : ~IsPrefix(at, q)
  <2>1. SUFFICES ASSUME NEW q \in DOMAIN t, IsPrefix(at, q) PROVE FALSE
    OBVIOUS
  <2>2. PICK r \in Path : q = Join(at, r)
    BY <1>1, <2>1, PathPrefix
  <2> QED BY <1>1, <2>1, <2>2, TreeIsClosed
<1>3. \A r \in DOMAIN item : /\ Join(at, r) \in Path /\ IsPrefix(at, Join(at, r))
                             /\ Beyond(at, Join(at, r)) = r
  <2> QED BY <1>1, ChildOfPath, JoinOfPaths, JoinEmpty
<1>4. more = [q \in DOMAIN t \cup new |->
                 IF q \in new THEN item[Beyond(at, q)]
                 ELSE IF q = parent
                      THEN [t[q] EXCEPT !.kids = InsertAt(t[q].kids, index + 1, id)]
                      ELSE t[q]]
  BY DEF Attached, Child, Join
<1>5. \A q : q \in new <=> \E r \in DOMAIN item : q = Join(at, r)
  OBVIOUS
<1>6. IsFiniteSet(DOMAIN t \cup new)
  <2>1. IsFiniteSet(DOMAIN item) /\ IsFiniteSet(DOMAIN t)
    BY TreeFacts DEF Good
  <2> DEFINE f == [r \in DOMAIN item |-> Join(at, r)]
  <2>2. f \in Surjection(DOMAIN item, new)
    BY DEF Surjection
  <2> HIDE DEF f, new
  <2>3. IsFiniteSet(new)
    BY <2>1, <2>2, FS_Surjection
  <2> QED BY <2>1, <2>3, FS_Union
<1>7. \A q \in DOMAIN t : q \notin new
  <2> HIDE DEF new
  <2> QED BY <1>2, <1>3, <1>5
<1> HIDE DEF at, new, more
<1>8. \A r \in DOMAIN item : more[Join(at, r)] = item[r]
  BY <1>3, <1>4, <1>5
<1>9. \A q \in DOMAIN t : q # parent => more[q] = t[q]
  BY <1>4, <1>7
<1>10. more[parent] = [t[parent] EXCEPT !.kids = InsertAt(t[parent].kids, index + 1, id)]
  BY <1>4, <1>7
<1>11. DOMAIN more = DOMAIN t \cup new /\ more = [q \in DOMAIN more |-> more[q]]
  BY <1>4
<1>12. IsFiniteSet(DOMAIN more)
  BY <1>6, <1>11
<1>13. \A q : q \in DOMAIN more <=> q \in DOMAIN t \/ \E r \in DOMAIN item : q = Join(at, r)
  BY <1>5, <1>11
<1>14. /\ more[parent] \in Nodes
       /\ more[parent].kind = t[parent].kind
       /\ more[parent].ref = t[parent].ref
       /\ more[parent].locked = t[parent].locked
       /\ more[parent].kids = InsertAt(t[parent].kids, index + 1, id)
       /\ \A e : e \in ToSet(more[parent].kids) <=> e \in ToSet(t[parent].kids) \/ e = id
       /\ Distinct(more[parent].kids)
  <2> DEFINE kids == InsertAt(t[parent].kids, index + 1, id)
  <2>1. /\ t[parent] \in Nodes /\ t[parent].kids \in Seq(Identifiers)
        /\ Distinct(t[parent].kids)
        /\ index + 1 \in 1..(Len(t[parent].kids) + 1)
    BY KidsFacts
  <2>2. /\ kids \in Seq(Identifiers)
        /\ ToSet(kids) = ToSet(t[parent].kids) \cup {id}
        /\ Distinct(kids)
    BY <2>1, InsertLists
  <2>3. more[parent] = [t[parent] EXCEPT !.kids = kids]
    BY <1>10
  <2> HIDE DEF kids
  <2>4. /\ more[parent] \in Nodes /\ more[parent].kind = t[parent].kind
        /\ more[parent].kids = kids /\ more[parent].ref = t[parent].ref
        /\ more[parent].locked = t[parent].locked
    BY <2>1, <2>2, <2>3, WithKids
  <2> QED BY <2>2, <2>4 DEF kids
<1> QED BY <1>14, <1>2, <1>8, <1>9, <1>11, <1>12, <1>13 DEF at, more

LEMMA AttachedKids ==
    ASSUME NEW t, Good(t), NEW item, Good(item), NEW parent \in DOMAIN t,
           NEW id \in Identifiers, id \notin ToSet(t[parent].kids),
           NEW index \in 0..Len(t[parent].kids),
           NEW e
    PROVE  e \in ToSet(Attached(t, parent, id, index, item)[parent].kids)
              <=> e \in ToSet(t[parent].kids) \/ e = id
<1>1. Attached(t, parent, id, index, item)[parent].kids = InsertAt(t[parent].kids, index + 1, id)
  BY AttachedFacts
<1>2. t[parent].kids \in Seq(Identifiers) /\ index + 1 \in 1..(Len(t[parent].kids) + 1)
  BY KidsFacts
<1>3. ToSet(InsertAt(t[parent].kids, index + 1, id)) = ToSet(t[parent].kids) \cup {id}
  BY <1>2, InsertLists
<1> QED BY <1>1, <1>3

LEMMA AttachedIsGood ==
    ASSUME NEW t, Good(t), NEW item, Good(item), NEW parent \in Groups(t),
           NEW id \in Identifiers, id \notin ToSet(t[parent].kids),
           NEW index \in 0..Len(t[parent].kids)
    PROVE  Good(Attached(t, parent, id, index, item))
<1> DEFINE at == Child(parent, id)
           more == Attached(t, parent, id, index, item)
<1>1. parent \in DOMAIN t /\ t[parent].kind = "group"
  BY DEF Groups
<1>2. /\ \A q \in DOMAIN t : ~IsPrefix(at, q)
      /\ \A q : q \in DOMAIN more <=>
            q \in DOMAIN t \/ \E r \in DOMAIN item : q = Join(at, r)
      /\ \A r \in DOMAIN item : more[Join(at, r)] = item[r]
  BY <1>1, AttachedFacts
<1>12. /\ \A q \in DOMAIN t : q # parent => more[q] = t[q]
       /\ more[parent] \in Nodes
       /\ more[parent].kind = t[parent].kind
       /\ \A e : e \in ToSet(more[parent].kids) <=> e \in ToSet(t[parent].kids) \/ e = id
       /\ Distinct(more[parent].kids)
  <2>1. \A q \in DOMAIN t : q # parent => more[q] = t[q]
    BY <1>1, AttachedFacts
  <2>2. more[parent] \in Nodes /\ more[parent].kind = t[parent].kind
    BY <1>1, AttachedFacts
  <2>3. \A e : e \in ToSet(more[parent].kids) <=> e \in ToSet(t[parent].kids) \/ e = id
    BY <1>1, AttachedKids
  <2>4. Distinct(more[parent].kids)
    BY <1>1, AttachedFacts
  <2> QED BY <2>1, <2>2, <2>3, <2>4
<1>13. IsFiniteSet(DOMAIN more)
  BY <1>1, AttachedFacts
<1>14. more = [q \in DOMAIN more |-> more[q]]
  BY DEF Attached, Child, Join
<1>3. at \in Path /\ parent \in Path
  BY <1>1, KidsFacts, ChildOfPath, JoinOfPaths, JoinEmpty
<1>4. /\ \A q \in DOMAIN t : q \in Path
      /\ \A r \in DOMAIN item : r \in Path
      /\ <<>> \in DOMAIN t /\ <<>> \in DOMAIN item
  BY KidsFacts, TreeFacts DEF Good
<1>5. Join(at, <<>>) = at /\ Front(at) = parent
  BY <1>1, <1>3, <1>4, ChildOfPath, JoinOfPaths, JoinEmpty
<1> HIDE DEF more
<1>6. /\ more[parent] \in Nodes /\ more[parent].kind = "group"
      /\ \A e : e \in ToSet(more[parent].kids) <=> e \in ToSet(t[parent].kids) \/ e = id
      /\ Distinct(more[parent].kids)
  BY <1>1, <1>12
<1>7. ASSUME NEW q \in DOMAIN more
      PROVE  q \in Path /\ more[q] \in Nodes /\ Distinct(more[q].kids)
  <2>1. CASE q = parent
    BY <1>3, <1>6, <2>1
  <2>2. CASE q \in DOMAIN t /\ q # parent
    <3>1. more[q] = t[q]
      BY <1>2, <1>12, <2>2
    <3> QED BY <2>2, <3>1, KidsFacts
  <2>3. CASE \E r \in DOMAIN item : q = Join(at, r)
    <3>1. PICK r \in DOMAIN item : q = Join(at, r)
      BY <2>3
    <3>2. more[q] = item[r]
      BY <1>2, <1>12, <3>1
    <3>3. q \in Path
      <4> HIDE DEF at
      <4> QED BY <1>3, <1>4, <3>1, ChildOfPath, JoinOfPaths, JoinEmpty
    <3> QED BY <3>2, <3>3, KidsFacts
  <2> QED BY <1>2, <1>12, <2>1, <2>2, <2>3
<1>8. ASSUME NEW q \in DOMAIN more, NEW e \in Identifiers
      PROVE  e \in ToSet(more[q].kids) <=> Child(q, e) \in DOMAIN more
  <2>1. CASE q \in DOMAIN t
    <3>1. IsPrefix(at, Child(q, e)) <=> at = Child(q, e)
      <4> HIDE DEF at
      <4> QED BY <1>2, <1>12, <1>3, <1>4, <2>1, PathPrefixOfChild
    <3>2. Child(q, e) \in DOMAIN more <=> Child(q, e) \in DOMAIN t \/ at = Child(q, e)
      <4> HIDE DEF at
      <4>1. \A r \in DOMAIN item : Child(q, e) = Join(at, r) => IsPrefix(at, Child(q, e))
        BY <1>3, <1>4, ChildOfPath, JoinOfPaths, JoinEmpty
      <4> QED BY <1>2, <1>12, <1>4, <1>5, <3>1, <4>1
    <3>3. at = Child(q, e) <=> q = parent /\ e = id
      BY <1>3, <1>4, <2>1, ChildCancels
    <3>4. e \in ToSet(t[q].kids) <=> Child(q, e) \in DOMAIN t
      BY <2>1, KidsFacts
    <3>5. e \in ToSet(more[q].kids) <=> e \in ToSet(t[q].kids) \/ (q = parent /\ e = id)
      BY <1>2, <1>12, <1>6, <2>1
    <3> QED BY <3>2, <3>3, <3>4, <3>5
  <2>2. CASE \E r \in DOMAIN item : q = Join(at, r)
    <3>1. PICK r \in DOMAIN item : q = Join(at, r)
      BY <2>2
    <3> DEFINE below == Child(r, e)
    <3>2. Child(q, e) = Join(at, below) /\ below \in Path
      <4> HIDE DEF at
      <4>1. r \in Path
        BY <1>4
      <4>2. Child(Join(at, r), e) = Join(at, Child(r, e))
        BY <1>3, <4>1, ChildOfJoin
      <4>3. Child(r, e) \in Path
        BY <4>1, ChildOfPath, JoinOfPaths, JoinEmpty
      <4> QED BY <3>1, <4>2, <4>3
    <3>3. e \in ToSet(item[r].kids) <=> below \in DOMAIN item
      BY KidsFacts
    <3> HIDE DEF at, below
    <3>4. Join(at, below) \notin DOMAIN t
      BY <1>2, <1>12, <1>3, <3>2, ChildOfPath, JoinOfPaths, JoinEmpty
    <3>5. Join(at, below) \in DOMAIN more <=> below \in DOMAIN item
      BY <1>2, <1>12, <1>3, <1>4, <3>2, <3>4, JoinCancels
    <3>6. more[q] = item[r]
      BY <1>2, <1>12, <3>1
    <3> QED BY <3>2, <3>3, <3>5, <3>6
  <2> QED BY <1>2, <1>12, <2>1, <2>2
<1>9. ASSUME NEW q \in DOMAIN more, q # <<>>
      PROVE  Front(q) \in DOMAIN more /\ more[Front(q)].kind = "group"
  <2>1. CASE q \in DOMAIN t
    <3>1. Front(q) \in DOMAIN t /\ t[Front(q)].kind = "group"
      BY <1>9, <2>1, FrontIsGroup
    <3> QED BY <1>2, <1>12, <1>6, <3>1
  <2>2. CASE \E r \in DOMAIN item : q = Join(at, r)
    <3>1. PICK r \in DOMAIN item : q = Join(at, r)
      BY <2>2
    <3>2. CASE r = <<>>
      <4>1. Front(q) = parent
        BY <1>5, <3>1, <3>2
      <4> QED BY <1>1, <1>2, <1>12, <1>6, <4>1
    <3>3. CASE r # <<>>
      <4>1. PICK u \in Path, e \in Identifiers : r = Child(u, e)
        BY <1>4, <3>3, PathSplits
      <4>2. Front(r) = u
        BY <4>1, ChildOfPath, JoinOfPaths, JoinEmpty
      <4>3. u \in DOMAIN item /\ item[u].kind = "group"
        BY <3>3, <4>2, FrontIsGroup
      <4> HIDE DEF at
      <4>4. Front(q) = Join(at, u)
        BY <1>3, <3>1, <4>1, FrontOfJoin
      <4> QED BY <1>2, <1>12, <4>3, <4>4
    <3> QED BY <3>2, <3>3
  <2> QED BY <1>2, <1>12, <2>1, <2>2
<1>10. IsTree(more)
  <2>1. more \in [DOMAIN more -> Nodes]
    BY <1>7, <1>14
  <2>2. DOMAIN more \subseteq Seq(Identifiers)
    BY <1>7 DEF Path
  <2>3. <<>> \in DOMAIN more
    BY <1>2, <1>4
  <2> QED BY <1>13, <2>1, <2>2, <2>3 DEF IsTree
<1>11. Kin(more)
  BY <1>7, <1>8, <1>9 DEF Kin, ItemPaths, Groups
<1> QED BY <1>10, <1>11 DEF Good, more

-----------------------------------------------------------------------------
(* Lists put together *)

LEMMA ConcatLists ==
    ASSUME NEW S, NEW a \in Seq(S), NEW b \in Seq(S)
    PROVE  /\ Join(a, b) \in Seq(S)
           /\ \A x : x \in ToSet(Join(a, b)) <=> x \in ToSet(a) \/ x \in ToSet(b)
           /\ Distinct(a) /\ Distinct(b) /\ (\A x \in ToSet(a) : x \notin ToSet(b))
                 => Distinct(Join(a, b))
<1> DEFINE c == a \o b
           m == Len(a)
           n == Len(b)
<1>1. /\ m \in Nat /\ n \in Nat
      /\ ToSet(a) = {a[i] : i \in 1..m} /\ ToSet(b) = {b[i] : i \in 1..n}
  BY ListFacts
<1>2. /\ c \in Seq(S) /\ Len(c) = m + n
      /\ \A i \in 1..(m + n) : c[i] = IF i <= m THEN a[i] ELSE b[i - m]
  BY ConcatProperties
<1>3. ToSet(c) = {c[i] : i \in 1..(m + n)}
  BY <1>2, ListFacts
<1>4. c = Join(a, b)
  BY DEF Join
<1> HIDE DEF c, m, n
<1>5. \A x : x \in ToSet(c) <=> x \in ToSet(a) \/ x \in ToSet(b)
  <2>1. ASSUME NEW i \in 1..(m + n) PROVE c[i] \in ToSet(a) \/ c[i] \in ToSet(b)
    <3>1. CASE i <= m
      BY <1>1, <1>2, <3>1
    <3>2. CASE i > m
      <4>1. i - m \in 1..n /\ c[i] = b[i - m]
        BY <1>1, <1>2, <3>2
      <4> QED BY <1>1, <4>1
    <3> QED BY <1>1, <3>1, <3>2
  <2>2. ASSUME NEW i \in 1..m PROVE a[i] \in ToSet(c)
    <3>1. i \in 1..(m + n) /\ c[i] = a[i]
      BY <1>1, <1>2
    <3> QED BY <1>3, <3>1
  <2>3. ASSUME NEW i \in 1..n PROVE b[i] \in ToSet(c)
    <3>1. m + i \in 1..(m + n) /\ c[m + i] = b[(m + i) - m] /\ (m + i) - m = i
      BY <1>1, <1>2
    <3> QED BY <1>3, <3>1
  <2> QED BY <1>1, <1>3, <2>1, <2>2, <2>3
<1>6. ASSUME Distinct(a), Distinct(b), \A x \in ToSet(a) : x \notin ToSet(b)
      PROVE  Distinct(c)
  <2>1. /\ \A i, j \in 1..m : a[i] = a[j] => i = j
        /\ \A i, j \in 1..n : b[i] = b[j] => i = j
        /\ \A i \in 1..m, j \in 1..n : a[i] # b[j]
    BY <1>1, <1>6 DEF Distinct, m, n
  <2>2. SUFFICES ASSUME NEW i \in 1..(m + n), NEW j \in 1..(m + n), c[i] = c[j]
                 PROVE  i = j
    BY <1>2 DEF Distinct
  <2>3. CASE i <= m /\ j <= m
    BY <1>1, <1>2, <2>1, <2>2, <2>3
  <2>4. CASE i <= m /\ j > m
    <3>1. i \in 1..m /\ j - m \in 1..n /\ c[i] = a[i] /\ c[j] = b[j - m]
      BY <1>1, <1>2, <2>4
    <3> QED BY <2>1, <2>2, <3>1
  <2>5. CASE i > m /\ j <= m
    <3>1. j \in 1..m /\ i - m \in 1..n /\ c[j] = a[j] /\ c[i] = b[i - m]
      BY <1>1, <1>2, <2>5
    <3> QED BY <2>1, <2>2, <3>1
  <2>6. CASE i > m /\ j > m
    <3>1. j - m \in 1..n /\ i - m \in 1..n /\ c[j] = b[j - m] /\ c[i] = b[i - m]
      BY <1>1, <1>2, <2>6
    <3>2. i - m = j - m
      BY <2>1, <2>2, <3>1
    <3> QED BY <1>1, <3>2
  <2> QED BY <1>1, <2>3, <2>4, <2>5, <2>6
<1> QED BY <1>2, <1>4, <1>5, <1>6

LEMMA PartOfList ==
    ASSUME NEW S, NEW list \in Seq(S), NEW m \in 1..(Len(list) + 1), NEW n \in 0..Len(list)
    PROVE  /\ SubSeq(list, m, n) \in Seq(S)
           /\ \A x : x \in ToSet(SubSeq(list, m, n)) <=> \E k \in m..n : x = list[k]
           /\ Distinct(list) => Distinct(SubSeq(list, m, n))
           /\ Len(SubSeq(list, m, n)) = IF m <= n THEN n - m + 1 ELSE 0
           /\ \A k \in 1..(n - m + 1) : SubSeq(list, m, n)[k] = list[m + k - 1]
<1> DEFINE u == SubSeq(list, m, n)
<1>1. Len(list) \in Nat /\ \A k \in 1..Len(list) : list[k] \in S
  BY ListFacts
<1>2. /\ u \in Seq(S)
      /\ Len(u) = IF m <= n THEN n - m + 1 ELSE 0
      /\ \A k \in 1..(n - m + 1) : u[k] = list[m + k - 1]
  <2>1. m \in Int /\ n \in Int /\ \A k \in m..n : list[k] \in S
    BY <1>1
  <2> QED BY <1>1, <2>1, SubSeqProperties
<1>3. ToSet(u) = {u[k] : k \in 1..Len(u)}
  <2> HIDE DEF u
  <2> QED BY <1>2, ListFacts
<1> HIDE DEF u
<1>4. \A x : x \in ToSet(u) <=> \E k \in m..n : x = list[k]
  <2>1. ASSUME NEW k \in 1..Len(u) PROVE \E j \in m..n : u[k] = list[j]
    <3>1. k \in 1..(n - m + 1) /\ m + k - 1 \in m..n
      BY <1>1, <1>2
    <3> QED BY <1>2, <3>1
  <2>2. ASSUME NEW j \in m..n PROVE list[j] \in ToSet(u)
    <3>1. /\ j - m + 1 \in 1..(n - m + 1) /\ j - m + 1 \in 1..Len(u)
          /\ m + (j - m + 1) - 1 = j
      BY <1>1, <1>2
    <3>2. u[j - m + 1] = list[m + (j - m + 1) - 1]
      BY <1>2, <3>1
    <3> QED BY <1>3, <3>1, <3>2
  <2> QED BY <1>3, <2>1, <2>2
<1>5. ASSUME Distinct(list) PROVE Distinct(u)
  <2>1. SUFFICES ASSUME NEW i \in 1..Len(u), NEW j \in 1..Len(u), u[i] = u[j]
                 PROVE  i = j
    BY DEF Distinct
  <2>2. /\ i \in 1..(n - m + 1) /\ j \in 1..(n - m + 1)
        /\ m + i - 1 \in 1..Len(list) /\ m + j - 1 \in 1..Len(list)
    BY <1>1, <1>2
  <2>3. list[m + i - 1] = list[m + j - 1]
    BY <1>2, <2>1, <2>2
  <2>4. m + i - 1 = m + j - 1
    BY <1>5, <2>2, <2>3 DEF Distinct
  <2> QED BY <2>2, <2>4
<1> QED BY <1>2, <1>4, <1>5 DEF u

(* A list with what is listed at place i replaced by another list. *)
Spliced(list, i, kids) ==
    SubSeq(list, 1, i - 1) \o kids \o SubSeq(list, i + 1, Len(list))

LEMMA SplicedFacts ==
    ASSUME NEW S, NEW list \in Seq(S), NEW i \in 1..Len(list), NEW kids \in Seq(S),
           Distinct(list), Distinct(kids),
           \A x \in ToSet(kids) : x \in ToSet(list) => x = list[i]
    PROVE  /\ Spliced(list, i, kids) \in Seq(S)
           /\ \A x : x \in ToSet(Spliced(list, i, kids))
                        <=> (x \in ToSet(list) /\ x # list[i]) \/ x \in ToSet(kids)
           /\ Distinct(Spliced(list, i, kids))
<1> DEFINE a == SubSeq(list, 1, i - 1)
           c == SubSeq(list, i + 1, Len(list))
           n == Len(list)
<1>1. n \in Nat /\ ToSet(list) = {list[k] : k \in 1..n}
  BY ListFacts
<1>2. Spliced(list, i, kids) = Join(Join(a, kids), c)
  BY DEF Spliced, Join
<1>3. /\ a \in Seq(S) /\ Distinct(a)
      /\ \A x : x \in ToSet(a) <=> \E k \in 1..(i - 1) : x = list[k]
  <2>1. 1 \in 1..(Len(list) + 1) /\ i - 1 \in 0..Len(list)
    BY <1>1
  <2> QED BY <2>1, PartOfList
<1>4. /\ c \in Seq(S) /\ Distinct(c)
      /\ \A x : x \in ToSet(c) <=> \E k \in (i + 1)..n : x = list[k]
  <2>1. i + 1 \in 1..(Len(list) + 1) /\ Len(list) \in 0..Len(list)
    BY <1>1
  <2> QED BY <2>1, PartOfList
<1>5. \A j, k \in 1..n : list[j] = list[k] => j = k
  BY DEF Distinct
<1> HIDE DEF a, c, n
<1>6. \A x \in ToSet(a) : x \in ToSet(list) /\ x # list[i]
  <2>1. TAKE x \in ToSet(a)
  <2>2. PICK k \in 1..(i - 1) : x = list[k]
    BY <1>3
  <2>3. k \in 1..n /\ i \in 1..n /\ k # i
    BY <1>1 DEF n
  <2> QED BY <1>1, <1>5, <2>2, <2>3
<1>7. \A x \in ToSet(c) : x \in ToSet(list) /\ x # list[i] /\ x \notin ToSet(a)
  <2>1. TAKE x \in ToSet(c)
  <2>2. PICK k \in (i + 1)..n : x = list[k]
    BY <1>4
  <2>3. k \in 1..n /\ i \in 1..n /\ k # i
    BY <1>1 DEF n
  <2>4. \A j \in 1..(i - 1) : j \in 1..n /\ j # k
    BY <1>1, <2>3
  <2> QED BY <1>1, <1>3, <1>5, <2>2, <2>3, <2>4
<1>8. \A x \in ToSet(list) : x # list[i] => x \in ToSet(a) \/ x \in ToSet(c)
  <2>1. SUFFICES ASSUME NEW k \in 1..n, list[k] # list[i]
                 PROVE  list[k] \in ToSet(a) \/ list[k] \in ToSet(c)
    BY <1>1
  <2>2. k \in 1..(i - 1) \/ k \in (i + 1)..n
    BY <1>1, <2>1 DEF n
  <2> QED BY <1>3, <1>4, <2>2
<1>9. /\ Join(a, kids) \in Seq(S) /\ Distinct(Join(a, kids))
      /\ \A x : x \in ToSet(Join(a, kids)) <=> x \in ToSet(a) \/ x \in ToSet(kids)
  <2>1. \A x \in ToSet(a) : x \notin ToSet(kids)
    BY <1>6
  <2> QED BY <1>3, <2>1, ConcatLists
<1> DEFINE b == Join(a, kids)
<1> HIDE DEF b
<1>10. /\ Join(b, c) \in Seq(S) /\ Distinct(Join(b, c))
       /\ \A x : x \in ToSet(Join(b, c)) <=> x \in ToSet(b) \/ x \in ToSet(c)
  <2>1. \A x \in ToSet(b) : x \notin ToSet(c)
    BY <1>7, <1>9 DEF b
  <2>2. b \in Seq(S) /\ Distinct(b)
    BY <1>9 DEF b
  <2> QED BY <1>4, <2>1, <2>2, ConcatLists
<1>11. \A x : x \in ToSet(Join(b, c))
                 <=> (x \in ToSet(list) /\ x # list[i]) \/ x \in ToSet(kids)
  BY <1>6, <1>7, <1>8, <1>9, <1>10 DEF b
<1> QED BY <1>2, <1>10, <1>11 DEF b

-----------------------------------------------------------------------------
(* Children that become a group, and a group that becomes its children *)

LEMMA GroupOfFacts ==
    ASSUME NEW t, Good(t), NEW parent \in DOMAIN t, NEW ids \in SUBSET Identifiers
    PROVE  /\ \A q : q \in DOMAIN GroupOf(t, parent, ids) <=>
                 \/ q = <<>>
                 \/ /\ q \in Path
                    /\ Join(parent, q) \in DOMAIN t
                    /\ \E id \in ids : IsPrefix(Child(parent, id), Join(parent, q))
           /\ \A q \in DOMAIN GroupOf(t, parent, ids) :
                 q # <<>> => GroupOf(t, parent, ids)[q] = t[Join(parent, q)]
           /\ GroupOf(t, parent, ids)[<<>>]
                 = Node("group", <<>>, Among(t[parent].kids, ids))
           /\ IsFiniteSet(DOMAIN GroupOf(t, parent, ids))
<1> DEFINE below == UNION {Below(t, Child(parent, id)) : id \in ids}
           G == {Beyond(parent, r) : r \in below}
           group == GroupOf(t, parent, ids)
<1>1. group = [q \in {<<>>} \cup G |->
                  IF q = <<>> THEN Node("group", <<>>, Among(t[parent].kids, ids))
                  ELSE t[Join(parent, q)]]
  BY DEF GroupOf, Child, Join
<1>2. parent \in Path /\ \A q \in DOMAIN t : q \in Path
  BY KidsFacts
<1>3. \A q : q \in below <=>
         q \in DOMAIN t /\ \E id \in ids : IsPrefix(Child(parent, id), q)
  BY DEF Below
<1> HIDE DEF below, group
<1>4. \A q : q \in G <=> /\ q \in Path /\ Join(parent, q) \in DOMAIN t
                         /\ \E id \in ids : IsPrefix(Child(parent, id), Join(parent, q))
  <2>1. ASSUME NEW q \in Path, Join(parent, q) \in below PROVE q \in G
    <3>1. Beyond(parent, Join(parent, q)) = q
      BY <1>2, JoinOfPaths
    <3> QED BY <2>1, <3>1
  <2>2. ASSUME NEW r \in below
        PROVE  \E q \in Path : Beyond(parent, r) = q /\ r = Join(parent, q)
    <3>1. PICK id \in ids : IsPrefix(Child(parent, id), r)
      BY <1>3
    <3>2. r \in Path /\ id \in Identifiers
      BY <1>2, <1>3
    <3>3. Child(parent, id) \in Path /\ IsPrefix(parent, Child(parent, id))
      BY <1>2, <3>2, ChildOfPath, PathPrefixOfChild, OwnPrefix
    <3>4. PICK u \in Path : r = Join(Child(parent, id), u)
      BY <3>1, <3>2, <3>3, PathPrefix
    <3>5. PICK v \in Path : Child(parent, id) = Join(parent, v)
      BY <1>2, <3>3, PathPrefix
    <3>6. r = Join(parent, Join(v, u)) /\ Join(v, u) \in Path
      BY <1>2, <3>4, <3>5, JoinAssociates, JoinOfPaths
    <3>7. Beyond(parent, Join(parent, Join(v, u))) = Join(v, u)
      BY <1>2, <3>6, JoinOfPaths
    <3> QED BY <3>6, <3>7
  <2> QED BY <1>3, <2>1, <2>2
<1>5. IsFiniteSet({<<>>} \cup G)
  <2>1. IsFiniteSet(below)
    <3>1. IsFiniteSet(DOMAIN t) /\ below \in SUBSET DOMAIN t
      BY <1>3, TreeFacts DEF Good
    <3> QED BY <3>1, FS_Subset
  <2> DEFINE f == [r \in below |-> Beyond(parent, r)]
  <2>2. f \in Surjection(below, G)
    BY DEF Surjection
  <2> HIDE DEF f, G
  <2>3. IsFiniteSet(G)
    BY <2>1, <2>2, FS_Surjection
  <2> QED BY <2>3, FS_Singleton, FS_Union
<1> HIDE DEF G
<1>6. \A q : q \in DOMAIN group <=>
                 \/ q = <<>>
                 \/ /\ q \in Path
                    /\ Join(parent, q) \in DOMAIN t
                    /\ \E id \in ids : IsPrefix(Child(parent, id), Join(parent, q))
  BY <1>1, <1>4
<1>7. \A q \in DOMAIN group : q # <<>> => group[q] = t[Join(parent, q)]
  BY <1>1
<1>8. group[<<>>] = Node("group", <<>>, Among(t[parent].kids, ids))
  BY <1>1
<1>9. IsFiniteSet(DOMAIN group)
  BY <1>1, <1>5
<1> QED BY <1>6, <1>7, <1>8, <1>9 DEF group

LEMMA GroupNode ==
    ASSUME NEW k \in Seq(Identifiers)
    PROVE  /\ Node("group", <<>>, k) \in Nodes
           /\ Node("group", <<>>, k).kind = "group"
           /\ Node("group", <<>>, k).kids = k
           /\ Node("group", <<>>, k).locked = FALSE
<1>1. <<>> \in Identifiers
  BY EmptySeq DEF Identifiers
<1> QED BY <1>1 DEF Node, Nodes, Kinds

LEMMA GroupOfIsGood ==
    ASSUME NEW t, Good(t), NEW parent \in DOMAIN t, NEW ids \in SUBSET Identifiers
    PROVE  Good(GroupOf(t, parent, ids))
<1> DEFINE group == GroupOf(t, parent, ids)
           list == t[parent].kids
           some == Among(list, ids)
           In(q) == \E id \in ids : IsPrefix(Child(parent, id), Join(parent, q))
<1>1. \A q : q \in DOMAIN group <=>
         q = <<>> \/ (q \in Path /\ Join(parent, q) \in DOMAIN t /\ In(q))
  BY GroupOfFacts
<1>2. \A q \in DOMAIN group : q # <<>> => group[q] = t[Join(parent, q)]
  BY GroupOfFacts
<1>3. group[<<>>] = Node("group", <<>>, some)
  BY GroupOfFacts
<1>4. parent \in Path /\ Join(parent, <<>>) = parent
  BY KidsFacts, JoinEmpty
<1>5. /\ some \in Seq(Identifiers) /\ Distinct(some)
      /\ \A id : id \in ToSet(some) <=> id \in ToSet(list) /\ id \in ids
  <2>1. list \in Seq(Identifiers) /\ Distinct(list)
    BY KidsFacts
  <2> HIDE DEF list
  <2>2. ToSet(some) = ToSet(list) \cap ids
    BY <2>1, AmongFacts
  <2> QED BY <2>1, <2>2, AmongFacts
<1>6. /\ group[<<>>] \in Nodes /\ group[<<>>].kind = "group" /\ group[<<>>].kids = some
  <2> HIDE DEF some, group
  <2> QED BY <1>3, <1>5, GroupNode
<1>7. IsFiniteSet(DOMAIN group)
  BY GroupOfFacts
<1>8. group = [q \in DOMAIN group |-> group[q]]
  BY DEF GroupOf
<1> HIDE DEF group, some
<1>9. ASSUME NEW q \in DOMAIN group
      PROVE  q \in Path /\ group[q] \in Nodes /\ Distinct(group[q].kids)
  <2>1. CASE q = <<>>
    BY <1>5, <1>6, <2>1, EmptyIsPath
  <2>2. CASE q # <<>>
    BY <1>1, <1>2, <2>2, KidsFacts
  <2> QED BY <2>1, <2>2
<1>10. ASSUME NEW q \in Path, NEW e \in Identifiers
       PROVE  In(Child(q, e)) <=> In(q) \/ (q = <<>> /\ e \in ids)
  <2>1. Join(parent, Child(q, e)) = Child(Join(parent, q), e) /\ Join(parent, q) \in Path
    BY <1>4, ChildOfJoin, JoinOfPaths
  <2>2. ASSUME NEW id \in ids
        PROVE  IsPrefix(Child(parent, id), Child(Join(parent, q), e))
                  <=> \/ IsPrefix(Child(parent, id), Join(parent, q))
                      \/ q = <<>> /\ id = e
    <3>1. Child(parent, id) \in Path
      BY <1>4, ChildOfPath
    <3>2. IsPrefix(Child(parent, id), Child(Join(parent, q), e))
             <=> \/ IsPrefix(Child(parent, id), Join(parent, q))
                 \/ Child(parent, id) = Child(Join(parent, q), e)
      BY <2>1, <3>1, PathPrefixOfChild
    <3>3. Child(parent, id) = Child(Join(parent, q), e)
             <=> parent = Join(parent, q) /\ id = e
      BY <1>4, <2>1, ChildCancels
    <3>4. parent = Join(parent, q) <=> q = <<>>
      BY <1>4, EmptyIsPath, JoinCancels
    <3> QED BY <3>2, <3>3, <3>4
  <2> QED BY <2>1, <2>2
<1>11. ASSUME NEW q \in DOMAIN group, NEW e \in Identifiers
       PROVE  e \in ToSet(group[q].kids) <=> Child(q, e) \in DOMAIN group
  <2>1. /\ q \in Path /\ Child(q, e) \in Path /\ Child(q, e) # <<>>
        /\ Join(parent, Child(q, e)) = Child(Join(parent, q), e)
    BY <1>4, <1>9, ChildOfJoin, ChildOfPath
  <2>2. Child(q, e) \in DOMAIN group
           <=> Child(Join(parent, q), e) \in DOMAIN t /\ In(Child(q, e))
    BY <1>1, <2>1
  <2>3. CASE q = <<>>
    <3>1. ~In(q)
      <4>1. \A id \in ids : ~IsPrefix(Child(parent, id), parent)
        BY <1>4, ChildIsBelow
      <4> QED BY <1>4, <2>3, <4>1
    <3>2. e \in ToSet(list) <=> Child(parent, e) \in DOMAIN t
      BY KidsFacts
    <3>3. Join(parent, q) = parent /\ group[q].kids = some
      BY <1>4, <1>6, <2>3
    <3>4. In(Child(q, e)) <=> e \in ids
      <4> HIDE DEF In
      <4> QED BY <1>10, <2>1, <2>3, <3>1
    <3> HIDE DEF In
    <3> QED BY <1>5, <2>2, <3>2, <3>3, <3>4
  <2>4. CASE q # <<>>
    <3>1. Join(parent, q) \in DOMAIN t /\ In(q) /\ group[q] = t[Join(parent, q)]
      BY <1>1, <1>2, <2>4
    <3>2. In(Child(q, e))
      <4> HIDE DEF In
      <4> QED BY <1>10, <2>1, <3>1
    <3> HIDE DEF In
    <3> QED BY <2>2, <3>1, <3>2, KidsFacts
  <2> QED BY <2>3, <2>4
<1>12. ASSUME NEW q \in DOMAIN group, q # <<>>
       PROVE  Front(q) \in DOMAIN group /\ group[Front(q)].kind = "group"
  <2>1. /\ q \in Path /\ Join(parent, q) \in DOMAIN t /\ In(q)
    BY <1>1, <1>12
  <2>2. PICK u \in Path, e \in Identifiers : q = Child(u, e)
    BY <1>12, <2>1, PathSplits
  <2>3. Front(q) = u
    BY <2>2, ChildOfPath
  <2>4. CASE u = <<>>
    BY <1>1, <1>6, <2>3, <2>4
  <2>5. CASE u # <<>>
    <3>1. Join(parent, q) # <<>> /\ Front(Join(parent, q)) = Join(parent, u)
      BY <1>4, <2>2, FrontOfJoin
    <3>2. Join(parent, u) \in DOMAIN t /\ t[Join(parent, u)].kind = "group"
      BY <2>1, <3>1, FrontIsGroup
    <3>3. In(u)
      <4> HIDE DEF In
      <4> QED BY <1>10, <2>1, <2>2, <2>5
    <3>4. u \in DOMAIN group
      BY <1>1, <3>2, <3>3
    <3> QED BY <1>2, <2>3, <2>5, <3>2, <3>4
  <2> QED BY <2>4, <2>5
<1>13. IsTree(group)
  <2>1. group \in [DOMAIN group -> Nodes]
    BY <1>8, <1>9
  <2>2. DOMAIN group \subseteq Seq(Identifiers)
    BY <1>9 DEF Path
  <2>3. <<>> \in DOMAIN group
    BY <1>1
  <2> QED BY <1>7, <2>1, <2>2, <2>3 DEF IsTree
<1>14. Kin(group)
  BY <1>9, <1>11, <1>12 DEF Kin, ItemPaths, Groups
<1> QED BY <1>13, <1>14 DEF Good, group

(* A node with another list, under a name that the provers leave alone. *)
Listing(n, k) == [n EXCEPT !.kids = k]

(* What a dissolved group's tree holds. *)
LEMMA DissolvedFacts ==
    ASSUME NEW t, Good(t), NEW target \in DOMAIN t, target # <<>>
    PROVE  /\ \A q : q \in DOMAIN Dissolved(t, target) <=>
                 \/ q \in DOMAIN t /\ ~IsPrefix(target, q)
                 \/ \E v \in Path : /\ v # <<>> /\ Join(target, v) \in DOMAIN t
                                    /\ q = Join(Front(target), v)
           /\ \A v \in Path : v # <<>> /\ Join(target, v) \in DOMAIN t =>
                 Dissolved(t, target)[Join(Front(target), v)] = t[Join(target, v)]
           /\ \A q \in DOMAIN Dissolved(t, target) :
                 /\ q # Front(target)
                 /\ ~ \E v \in Path : /\ v # <<>> /\ Join(target, v) \in DOMAIN t
                                      /\ q = Join(Front(target), v)
                 => Dissolved(t, target)[q] = t[q]
           /\ Dissolved(t, target)[Front(target)] =
                 Listing(t[Front(target)],
                         Spliced(t[Front(target)].kids,
                                 IndexOf(t[Front(target)].kids, Last(target)),
                                 t[target].kids))
           /\ IsFiniteSet(DOMAIN Dissolved(t, target))
<1> DEFINE parent == Front(target)
           rest == Below(t, target) \ {target}
           lifted == {Join(parent, Beyond(target, r)) : r \in rest}
           flat == Dissolved(t, target)
           kids == Spliced(t[parent].kids, IndexOf(t[parent].kids, Last(target)), t[target].kids)
<1>1. flat = [q \in (DOMAIN t \ Below(t, target)) \cup lifted |->
                 IF q \in lifted THEN t[Join(target, Beyond(parent, q))]
                 ELSE IF q = parent THEN [t[q] EXCEPT !.kids = kids]
                 ELSE t[q]]
  BY DEF Dissolved, Join, Spliced
<1>2. /\ target \in Path /\ parent \in Path /\ Last(target) \in Identifiers
      /\ target = Child(parent, Last(target))
      /\ \A q \in DOMAIN t : q \in Path
      /\ parent \in DOMAIN t
  BY KidsFacts, PathSplits, FrontIsGroup
<1>3. \A r : r \in rest <=> r \in DOMAIN t /\ IsPrefix(target, r) /\ r # target
  BY DEF Below
<1>4. \A q : q \in lifted <=> \E v \in Path : /\ v # <<>> /\ Join(target, v) \in DOMAIN t
                                              /\ q = Join(parent, v)
  <2> HIDE DEF parent
  <2>1. ASSUME NEW r \in rest
        PROVE  \E v \in Path : /\ v # <<>> /\ Join(target, v) \in DOMAIN t
                               /\ Beyond(target, r) = v
    <3>1. r \in DOMAIN t /\ r \in Path /\ IsPrefix(target, r) /\ r # target
      BY <1>2, <1>3
    <3>2. PICK v \in Path : r = Join(target, v)
      BY <1>2, <3>1, PathPrefix
    <3>3. v # <<>> /\ Beyond(target, r) = v
      BY <1>2, <3>1, <3>2, JoinEmpty, JoinOfPaths
    <3> QED BY <3>1, <3>2, <3>3
  <2>2. ASSUME NEW v \in Path, v # <<>>, Join(target, v) \in DOMAIN t
        PROVE  Join(target, v) \in rest /\ Beyond(target, Join(target, v)) = v
    <3>1. IsPrefix(target, Join(target, v)) /\ Beyond(target, Join(target, v)) = v
      BY <1>2, <2>2, JoinOfPaths
    <3>2. Join(target, v) # target
      BY <1>2, <2>2, EmptyIsPath, JoinEmpty, JoinCancels
    <3> QED BY <1>3, <2>2, <3>1, <3>2
  <2> HIDE DEF rest
  <2> QED BY <2>1, <2>2
<1>5. IsFiniteSet((DOMAIN t \ Below(t, target)) \cup lifted)
  <2>1. IsFiniteSet(DOMAIN t)
    BY TreeFacts DEF Good
  <2>2. IsFiniteSet(DOMAIN t \ Below(t, target))
    <3>1. (DOMAIN t \ Below(t, target)) \in SUBSET DOMAIN t
      OBVIOUS
    <3> QED BY <2>1, <3>1, FS_Subset
  <2>3. IsFiniteSet(rest)
    <3>1. rest \in SUBSET DOMAIN t
      BY <1>3
    <3> HIDE DEF rest
    <3> QED BY <2>1, <3>1, FS_Subset
  <2> DEFINE f == [r \in rest |-> Join(parent, Beyond(target, r))]
  <2>4. f \in Surjection(rest, lifted)
    BY DEF Surjection
  <2> HIDE DEF f, lifted, rest
  <2>5. IsFiniteSet(lifted)
    BY <2>3, <2>4, FS_Surjection
  <2> QED BY <2>2, <2>5, FS_Union
<1>6. \A q : q \in DOMAIN t \ Below(t, target) <=> q \in DOMAIN t /\ ~IsPrefix(target, q)
  BY DEF Below
<1>7. parent \in DOMAIN t /\ ~IsPrefix(target, parent)
  BY <1>2, ChildIsBelow
<1>8. parent \notin lifted
  <2>1. ASSUME NEW v \in Path, v # <<>> PROVE parent # Join(parent, v)
    BY <1>2, <2>1, EmptyIsPath, JoinEmpty, JoinCancels
  <2> HIDE DEF lifted
  <2> QED BY <1>4, <2>1
<1> HIDE DEF lifted, flat, kids
<1>9. \A q : q \in DOMAIN flat <=>
                 \/ q \in DOMAIN t /\ ~IsPrefix(target, q)
                 \/ \E v \in Path : /\ v # <<>> /\ Join(target, v) \in DOMAIN t
                                    /\ q = Join(parent, v)
  BY <1>1, <1>4, <1>6
<1>10. ASSUME NEW v \in Path, v # <<>>, Join(target, v) \in DOMAIN t
       PROVE  flat[Join(parent, v)] = t[Join(target, v)]
  <2>1. Join(parent, v) \in lifted /\ Beyond(parent, Join(parent, v)) = v
    <3>1. Beyond(parent, Join(parent, v)) = v
      BY <1>2, JoinOfPaths
    <3> QED BY <1>4, <1>10, <3>1
  <2> QED BY <1>1, <2>1
<1>11. \A q \in DOMAIN flat : q # parent /\ q \notin lifted => flat[q] = t[q]
  BY <1>1
<1>12. flat[parent] = Listing(t[parent], kids)
  BY <1>1, <1>6, <1>7, <1>8 DEF Listing
<1>13. IsFiniteSet(DOMAIN flat)
  BY <1>1, <1>5
<1>14. \A q \in DOMAIN flat :
          /\ q # parent
          /\ ~ \E v \in Path : /\ v # <<>> /\ Join(target, v) \in DOMAIN t
                               /\ q = Join(parent, v)
          => flat[q] = t[q]
  BY <1>4, <1>11
<1> QED BY <1>9, <1>10, <1>12, <1>13, <1>14 DEF flat, kids

LEMMA DissolvedIsGood ==
    ASSUME NEW t, Good(t), NEW target \in DOMAIN t, target # <<>>,
           \A id \in ToSet(t[target].kids) :
              id \in ToSet(t[Front(target)].kids) => id = Last(target)
    PROVE  Good(Dissolved(t, target))
<1> DEFINE parent == Front(target)
           own == Last(target)
           list == t[parent].kids
           kids == Spliced(list, IndexOf(list, own), t[target].kids)
           flat == Dissolved(t, target)
           Lifted(q) == \E v \in Path : /\ v # <<>> /\ Join(target, v) \in DOMAIN t
                                        /\ q = Join(parent, v)
<1>1. \A q : q \in DOMAIN flat <=> \/ q \in DOMAIN t /\ ~IsPrefix(target, q)
                                   \/ Lifted(q)
  BY DissolvedFacts
<1>2. \A v \in Path : v # <<>> /\ Join(target, v) \in DOMAIN t =>
         flat[Join(parent, v)] = t[Join(target, v)]
  BY DissolvedFacts
<1>3. \A q \in DOMAIN flat : q # parent /\ ~Lifted(q) => flat[q] = t[q]
  BY DissolvedFacts
<1>4. flat[parent] = Listing(t[parent], kids)
  BY DissolvedFacts
<1>5. IsFiniteSet(DOMAIN flat)
  BY DissolvedFacts
<1>6. flat = [q \in DOMAIN flat |-> flat[q]]
  BY DEF Dissolved
<1>7. /\ target \in Path /\ parent \in Path /\ own \in Identifiers
      /\ target = Child(parent, own)
      /\ \A q \in DOMAIN t : q \in Path
      /\ parent \in DOMAIN t /\ t[parent].kind = "group"
      /\ ~IsPrefix(target, parent)
      /\ Join(parent, <<>>) = parent
  BY KidsFacts, PathSplits, FrontIsGroup, ChildIsBelow, JoinEmpty
<1>8. /\ kids \in Seq(Identifiers) /\ Distinct(kids)
      /\ \A id : id \in ToSet(kids)
                    <=> (id \in ToSet(list) /\ id # own) \/ id \in ToSet(t[target].kids)
  <2>1. list \in Seq(Identifiers) /\ Distinct(list) /\ own \in ToSet(list)
    BY <1>7, KidsFacts
  <2>2. t[target].kids \in Seq(Identifiers) /\ Distinct(t[target].kids)
    BY KidsFacts
  <2> DEFINE i == IndexOf(list, own)
  <2>3. i \in 1..Len(list) /\ list[i] = own
    <3>1. DOMAIN list = 1..Len(list) /\ ToSet(list) = {list[k] : k \in 1..Len(list)}
      BY <2>1, ListFacts
    <3>2. \E k \in DOMAIN list : list[k] = own
      BY <2>1, <3>1
    <3> QED BY <3>1, <3>2 DEF IndexOf
  <2>4. \A id \in ToSet(t[target].kids) : id \in ToSet(list) => id = list[i]
    <3> HIDE DEF i
    <3> QED BY <2>3
  <2> HIDE DEF i, list, own
  <2>5. /\ Spliced(list, i, t[target].kids) \in Seq(Identifiers)
        /\ Distinct(Spliced(list, i, t[target].kids))
        /\ \A x : x \in ToSet(Spliced(list, i, t[target].kids))
                     <=> (x \in ToSet(list) /\ x # list[i]) \/ x \in ToSet(t[target].kids)
    BY <2>1, <2>2, <2>3, <2>4, SplicedFacts
  <2> QED BY <2>3, <2>5 DEF i
<1>9. /\ flat[parent] \in Nodes /\ flat[parent].kind = "group" /\ flat[parent].kids = kids
  <2>1. t[parent] \in Nodes
    BY <1>7, KidsFacts
  <2> HIDE DEF kids, flat, parent
  <2> QED BY <1>4, <1>7, <1>8, <2>1, WithKids DEF Listing
<1> HIDE DEF flat, kids
(* What is lifted was nowhere else but in the group. *)
<1>10. ASSUME NEW v \in Path, v # <<>>, Join(target, v) \in DOMAIN t, NEW w \in Path,
              Join(parent, Join(v, w)) \in DOMAIN t
       PROVE  IsPrefix(target, Join(parent, Join(v, w)))
  <2>1. PICK e \in Identifiers, x \in Path :
           \A p \in Path : Join(p, v) = Join(Child(p, e), x)
    BY <1>10, FirstStep
  <2>2. Child(target, e) \in DOMAIN t
    <3>1. Join(target, v) = Join(Child(target, e), x) /\ Child(target, e) \in Path
      BY <1>7, <2>1, ChildOfPath
    <3> QED BY <1>10, <3>1, TreeIsClosed
  <2>3. Join(parent, Join(v, w)) = Join(Child(parent, e), Join(x, w)) /\ Join(x, w) \in Path
    <3>1. Join(parent, Join(v, w)) = Join(Join(parent, v), w)
      BY <1>7, JoinAssociates
    <3>2. Join(parent, v) = Join(Child(parent, e), x) /\ Child(parent, e) \in Path
      BY <1>7, <2>1, ChildOfPath
    <3>3. Join(Join(Child(parent, e), x), w) = Join(Child(parent, e), Join(x, w))
      BY <3>2, JoinAssociates
    <3> QED BY <3>1, <3>2, <3>3, JoinOfPaths
  <2>4. Child(parent, e) \in DOMAIN t
    BY <1>7, <1>10, <2>3, TreeIsClosed, ChildOfPath
  <2>5. e \in ToSet(t[target].kids) /\ e \in ToSet(list)
    BY <1>7, <2>2, <2>4, KidsFacts
  <2>6. e = own
    BY <2>5
  <2> QED BY <1>7, <2>3, <2>6, JoinOfPaths
<1>11. ASSUME NEW v \in Path, v # <<>>, Join(target, v) \in DOMAIN t
       PROVE  Join(parent, v) \in DOMAIN t => IsPrefix(target, Join(parent, v))
  <2>1. Join(v, <<>>) = v
    BY JoinEmpty
  <2> QED BY <1>10, <1>11, <2>1, EmptyIsPath
<1>12. ASSUME NEW q \in DOMAIN flat
       PROVE  q \in Path /\ flat[q] \in Nodes /\ Distinct(flat[q].kids)
  <2>1. CASE q = parent
    BY <1>7, <1>8, <1>9, <2>1
  <2>2. CASE Lifted(q)
    <3>1. PICK v \in Path : v # <<>> /\ Join(target, v) \in DOMAIN t /\ q = Join(parent, v)
      BY <2>2
    <3>2. flat[q] = t[Join(target, v)] /\ q \in Path
      BY <1>2, <1>7, <3>1, JoinOfPaths
    <3> QED BY <3>1, <3>2, KidsFacts
  <2>3. CASE q # parent /\ ~Lifted(q)
    <3>1. q \in DOMAIN t /\ flat[q] = t[q]
      BY <1>1, <1>3, <2>3
    <3> QED BY <3>1, KidsFacts
  <2> QED BY <2>1, <2>2, <2>3
<1>13. ASSUME NEW q \in DOMAIN flat, NEW e \in Identifiers
       PROVE  e \in ToSet(flat[q].kids) <=> Child(q, e) \in DOMAIN flat
  <2>1. q \in Path /\ Child(q, e) \in Path
    BY <1>12, ChildOfPath
  <2>2. CASE q = parent
    <3>1. Child(parent, e) \in DOMAIN t /\ ~IsPrefix(target, Child(parent, e))
             <=> e \in ToSet(list) /\ e # own
      <4>1. IsPrefix(target, Child(parent, e)) <=> target = Child(parent, e)
        BY <1>7, PathPrefixOfChild
      <4>2. target = Child(parent, e) <=> e = own
        BY <1>7, ChildCancels
      <4> QED BY <1>7, <4>1, <4>2, KidsFacts
    <3>2. Lifted(Child(parent, e)) <=> e \in ToSet(t[target].kids)
      <4> DEFINE v == Child(<<>>, e)
      <4>1. /\ v \in Path /\ v # <<>>
            /\ Join(parent, v) = Child(parent, e) /\ Join(target, v) = Child(target, e)
        BY <1>7, EmptyIsPath, JoinEmpty, ChildOfJoin, ChildOfPath
      <4> HIDE DEF v
      <4>2. \A w \in Path : Join(parent, w) = Child(parent, e) => w = v
        BY <1>7, <4>1, JoinCancels
      <4>3. Lifted(Child(parent, e)) <=> Child(target, e) \in DOMAIN t
        BY <4>1, <4>2
      <4> QED BY <4>3, KidsFacts
    <3> HIDE DEF Lifted
    <3> QED BY <1>1, <1>8, <1>9, <2>2, <3>1, <3>2
  <2>3. CASE Lifted(q)
    <3>1. PICK v \in Path : v # <<>> /\ Join(target, v) \in DOMAIN t /\ q = Join(parent, v)
      BY <2>3
    <3> DEFINE w == Child(v, e)
    <3>2. /\ w \in Path /\ w # <<>>
          /\ Child(q, e) = Join(parent, w)
          /\ Child(Join(target, v), e) = Join(target, w)
      BY <1>7, <3>1, ChildOfJoin, ChildOfPath
    <3>3. e \in ToSet(t[Join(target, v)].kids) <=> Join(target, w) \in DOMAIN t
      <4> HIDE DEF w
      <4> QED BY <3>1, <3>2, KidsFacts
    <3>4. Lifted(Child(q, e)) <=> Join(target, w) \in DOMAIN t
      <4> HIDE DEF w
      <4>1. \A x \in Path : Join(parent, x) = Join(parent, w) => x = w
        BY <1>7, <3>2, JoinCancels
      <4> QED BY <3>2, <4>1
    <3>5. Child(q, e) \in DOMAIN t => IsPrefix(target, Child(q, e))
      <4> DEFINE one == Child(<<>>, e)
      <4>1. one \in Path /\ w = Join(v, one)
        BY EmptyIsPath, JoinEmpty, ChildOfJoin, ChildOfPath
      <4> HIDE DEF w, one
      <4> QED BY <1>10, <3>1, <3>2, <4>1
    <3>6. flat[q] = t[Join(target, v)]
      BY <1>2, <3>1
    <3> HIDE DEF w, Lifted
    <3> QED BY <1>1, <3>3, <3>4, <3>5, <3>6
  <2>4. CASE q # parent /\ ~Lifted(q)
    <3>1. q \in DOMAIN t /\ ~IsPrefix(target, q) /\ flat[q] = t[q]
      BY <1>1, <1>3, <2>4
    <3>2. ~IsPrefix(target, Child(q, e))
      <4>1. IsPrefix(target, Child(q, e)) <=> IsPrefix(target, q) \/ target = Child(q, e)
        BY <1>7, <2>1, PathPrefixOfChild
      <4>2. target # Child(q, e)
        BY <1>7, <2>1, <2>4, ChildCancels
      <4> QED BY <3>1, <4>1, <4>2
    <3>3. ~Lifted(Child(q, e))
      <4>1. SUFFICES ASSUME NEW v \in Path, v # <<>>, Join(target, v) \in DOMAIN t,
                            Child(q, e) = Join(parent, v)
                     PROVE  FALSE
        OBVIOUS
      <4>2. PICK u \in Path, f \in Identifiers : v = Child(u, f)
        BY <4>1, PathSplits
      <4>3. Join(parent, v) = Child(Join(parent, u), f) /\ Join(parent, u) \in Path
        BY <1>7, <4>2, ChildOfJoin, JoinOfPaths
      <4>4. q = Join(parent, u)
        BY <2>1, <4>1, <4>3, ChildCancels
      <4>5. u # <<>>
        BY <1>7, <2>4, <4>4
      <4>6. Join(target, v) # <<>> /\ Front(Join(target, v)) = Join(target, u)
        BY <1>7, <4>2, FrontOfJoin
      <4>7. Join(target, u) \in DOMAIN t
        BY <4>1, <4>6, FrontIsGroup
      <4> QED BY <2>4, <4>4, <4>5, <4>7
    <3> HIDE DEF Lifted
    <3> QED BY <1>1, <3>1, <3>2, <3>3, KidsFacts
  <2> HIDE DEF Lifted
  <2> QED BY <2>2, <2>3, <2>4
<1>14. ASSUME NEW q \in DOMAIN flat, q # <<>>
       PROVE  Front(q) \in DOMAIN flat /\ flat[Front(q)].kind = "group"
  <2>1. parent \in DOMAIN flat
    <3> HIDE DEF Lifted
    <3> QED BY <1>1, <1>7
  <2>2. CASE Lifted(q)
    <3>1. PICK v \in Path : v # <<>> /\ Join(target, v) \in DOMAIN t /\ q = Join(parent, v)
      BY <2>2
    <3>2. PICK u \in Path, f \in Identifiers : v = Child(u, f)
      BY <3>1, PathSplits
    <3>3. Front(q) = Join(parent, u)
      BY <1>7, <3>1, <3>2, FrontOfJoin
    <3>4. CASE u = <<>>
      BY <1>7, <1>9, <2>1, <3>3, <3>4
    <3>5. CASE u # <<>>
      <4>1. Join(target, v) # <<>> /\ Front(Join(target, v)) = Join(target, u)
        BY <1>7, <3>2, FrontOfJoin
      <4>2. Join(target, u) \in DOMAIN t /\ t[Join(target, u)].kind = "group"
        BY <3>1, <4>1, FrontIsGroup
      <4>3. flat[Join(parent, u)] = t[Join(target, u)]
        BY <1>2, <3>5, <4>2
      <4>4. Lifted(Join(parent, u))
        BY <3>5, <4>2
      <4> HIDE DEF Lifted
      <4> QED BY <1>1, <3>3, <4>2, <4>3, <4>4
    <3> QED BY <3>4, <3>5
  <2>3. CASE ~Lifted(q)
    <3>1. q \in DOMAIN t /\ ~IsPrefix(target, q) /\ q \in Path
      <4> HIDE DEF Lifted
      <4> QED BY <1>1, <1>7, <2>3
    <3>2. Front(q) \in DOMAIN t /\ t[Front(q)].kind = "group"
      BY <1>14, <3>1, FrontIsGroup
    <3>3. Front(q) \in Path /\ Last(q) \in Identifiers /\ q = Child(Front(q), Last(q))
      BY <1>14, <3>1, PathSplits
    <3>4. ~IsPrefix(target, Front(q))
      BY <1>7, <3>1, <3>3, PathPrefixOfChild
    <3>5. Front(q) \in DOMAIN flat
      <4> HIDE DEF Lifted
      <4> QED BY <1>1, <3>2, <3>4
    <3>6. ~Lifted(Front(q))
      <4>1. SUFFICES ASSUME NEW v \in Path, v # <<>>, Join(target, v) \in DOMAIN t,
                            Front(q) = Join(parent, v)
                     PROVE  FALSE
        OBVIOUS
      <4> QED BY <1>11, <3>2, <3>4, <4>1
    <3>7. CASE Front(q) = parent
      BY <1>9, <2>1, <3>7
    <3>8. CASE Front(q) # parent
      <4> HIDE DEF Lifted
      <4> QED BY <1>3, <3>2, <3>5, <3>6, <3>8
    <3> QED BY <3>7, <3>8
  <2> QED BY <2>2, <2>3
<1>15. IsTree(flat)
  <2>1. flat \in [DOMAIN flat -> Nodes]
    BY <1>6, <1>12
  <2>2. DOMAIN flat \subseteq Seq(Identifiers)
    BY <1>12 DEF Path
  <2>3. <<>> \in DOMAIN flat
    <3>1. <<>> \in DOMAIN t
      BY TreeFacts DEF Good
    <3>2. ~IsPrefix(target, <<>>)
      <4>1. \A r \in Path : Join(target, r) # <<>>
        BY <1>7, OnlyTheRootIsEmpty
      <4> QED BY <1>7, <4>1, EmptyIsPath, PathPrefix
    <3> HIDE DEF Lifted
    <3> QED BY <1>1, <3>1, <3>2
  <2> QED BY <1>5, <2>1, <2>2, <2>3 DEF IsTree
<1>16. Kin(flat)
  BY <1>12, <1>13, <1>14 DEF Kin, ItemPaths, Groups
<1> QED BY <1>15, <1>16 DEF Good, flat

-----------------------------------------------------------------------------
(* Profiles: which scenes reach which *)

ReferencesHold(d) ==
    \A s \in Scenes(d) : /\ References(d.scenes[s], "source") \subseteq DOMAIN d.sources
                         /\ SceneRefers(d, s) \subseteq Scenes(d)

NoCircle(d) == \A s \in Scenes(d) : \A t \in SceneRefers(d, s) : ~Reaches(d, t, s)

OrderHolds(d) ==
    ToSet(d.order) = Scenes(d) /\ Len(d.order) = Cardinality(Scenes(d))

ChainsHold(d) == \A c \in DOMAIN d.sources : Distinct(d.sources[c])

Sound(d) ==
    /\ IsProfile(d)
    /\ ChainsHold(d)
    /\ \A s \in Scenes(d) : Good(d.scenes[s])
    /\ ReferencesHold(d)
    /\ NoCircle(d)
    /\ OrderHolds(d)

LEMMA SoundParses ==
    ASSUME NEW d
    PROVE  Sound(d) <=> IsProfile(d) /\ Parses(d)
<1>1. ASSUME IsProfile(d)
      PROVE  \A s \in Scenes(d) : Good(d.scenes[s]) <=> TreeIsWhole(d.scenes[s])
  BY <1>1, WholeIsKin DEF IsProfile, Good
<1>2. ASSUME IsProfile(d)
      PROVE  \A c \in DOMAIN d.sources :
                Distinct(d.sources[c]) <=> Cardinality(ToSet(d.sources[c])) = Len(d.sources[c])
  BY <1>2, DistinctLength DEF IsProfile
<1> QED BY <1>1, <1>2 DEF Sound, ChainsHold, Parses, ReferencesHold, NoCircle, OrderHolds

(* A scene is among what it reaches, and so is what that refers to. *)
Reached(d, s) == {r \in Scenes(d) : Reaches(d, s, r)}

Closed(d, S) == S \subseteq Scenes(d) /\ \A r \in S : SceneRefers(d, r) \subseteq S

LEMMA ReachedIsClosed ==
    ASSUME NEW d, ReferencesHold(d), NEW s \in Scenes(d)
    PROVE  s \in Reached(d, s) /\ Closed(d, Reached(d, s))
<1>1. s \in Reached(d, s)
  BY DEF Reached, Reaches
<1>2. ASSUME NEW r \in Reached(d, s), NEW x \in SceneRefers(d, r)
      PROVE  x \in Reached(d, s)
  <2>1. r \in Scenes(d) /\ x \in Scenes(d)
    BY <1>2 DEF Reached, ReferencesHold
  <2>2. ASSUME NEW S \in SUBSET Scenes(d), s \in S, \A y \in S : SceneRefers(d, y) \subseteq S
        PROVE  x \in S
    <3>1. r \in S
      BY <1>2, <2>2 DEF Reached, Reaches
    <3> QED BY <1>2, <2>2, <3>1
  <2> QED BY <2>1, <2>2 DEF Reached, Reaches
<1> QED BY <1>1, <1>2 DEF Closed, Reached

LEMMA ReachedIsLeast ==
    ASSUME NEW d, NEW s, NEW S, Closed(d, S), s \in S
    PROVE  Reached(d, s) \subseteq S
<1>1. S \in SUBSET Scenes(d) /\ \A r \in S : SceneRefers(d, r) \subseteq S
  BY DEF Closed
<1> QED BY <1>1 DEF Reached, Reaches

LEMMA ApartByClosed ==
    ASSUME NEW d, NEW s, NEW r, NEW S, Closed(d, S), s \in S, r \notin S
    PROVE  ~Reaches(d, s, r)
<1>1. S \in SUBSET Scenes(d) /\ \A x \in S : SceneRefers(d, x) \subseteq S
  BY DEF Closed
<1> QED BY <1>1 DEF Reaches

(* Scenes that refer to less reach less. *)
LEMMA ReachesShrinks ==
    ASSUME NEW d, NEW e, ReferencesHold(d), Scenes(e) = Scenes(d),
           \A s \in Scenes(d) : SceneRefers(e, s) \subseteq SceneRefers(d, s),
           NEW s \in Scenes(d), NEW r, r \in Scenes(d), ~Reaches(d, s, r)
    PROVE  ~Reaches(e, s, r)
<1>1. s \in Reached(d, s) /\ Closed(d, Reached(d, s)) /\ r \notin Reached(d, s)
  BY ReachedIsClosed DEF Reached
<1>2. Closed(e, Reached(d, s))
  BY <1>1 DEF Closed
<1> QED BY <1>1, <1>2, ApartByClosed

(* No circle arises where one scene, owner, refers to other scenes than before,
   as long as these do not reach it; it may be new. *)
LEMMA NoNewCircle ==
    ASSUME NEW d, ReferencesHold(d), NoCircle(d), NEW e, ReferencesHold(e),
           NEW owner, NEW X \in SUBSET Scenes(d),
           Scenes(e) \subseteq Scenes(d) \cup {owner},
           \A s \in Scenes(e) : s # owner => SceneRefers(e, s) \subseteq SceneRefers(d, s),
           owner \in Scenes(e) =>
              \A x \in SceneRefers(e, owner) :
                 \/ x \in X
                 \/ owner \in Scenes(d) /\ x \in SceneRefers(d, owner),
           \A x \in X : x # owner /\ (owner \in Scenes(d) => ~Reaches(d, x, owner))
    PROVE  NoCircle(e)
<1>1. SUFFICES ASSUME NEW s \in Scenes(e), NEW t \in SceneRefers(e, s)
               PROVE  ~Reaches(e, t, s)
  BY DEF NoCircle
<1>2. t \in Scenes(e)
  BY DEF ReferencesHold
(* A closed set without the owner stays closed. *)
<1>3. ASSUME NEW S, Closed(d, S), owner \notin S
      PROVE  Closed(e, S \cap Scenes(e))
  BY <1>3 DEF Closed, ReferencesHold
<1>4. CASE s = owner
  <2>1. CASE owner \in Scenes(d)
    <3>1. t \in Scenes(d) /\ ~Reaches(d, t, owner)
      BY <1>4, <2>1 DEF NoCircle, ReferencesHold
    <3>2. t \in Reached(d, t) /\ Closed(d, Reached(d, t)) /\ owner \notin Reached(d, t)
      BY <3>1, ReachedIsClosed DEF Reached
    <3> QED BY <1>2, <1>3, <1>4, <3>2, ApartByClosed
  <2>2. CASE owner \notin Scenes(d)
    <3>1. t \in Scenes(d)
      BY <1>4, <2>2
    <3>2. Closed(d, Scenes(d))
      BY DEF Closed, ReferencesHold
    <3> DEFINE S == Scenes(d) \cap Scenes(e)
    <3>3. Closed(e, S) /\ t \in S /\ s \notin S
      BY <1>2, <1>3, <1>4, <2>2, <3>1, <3>2
    <3> HIDE DEF S
    <3> QED BY <3>3, ApartByClosed
  <2> QED BY <2>1, <2>2
<1>5. CASE s # owner
  <2>1. s \in Scenes(d) /\ t \in SceneRefers(d, s) /\ t \in Scenes(d)
    BY <1>5 DEF ReferencesHold
  <2> DEFINE M == Reached(d, t)
  <2>2. t \in M /\ Closed(d, M) /\ s \notin M
    BY <2>1, ReachedIsClosed DEF NoCircle, Reached
  <2> HIDE DEF M
  <2>3. CASE owner \notin M
    <3> DEFINE S == M \cap Scenes(e)
    <3>1. Closed(e, S) /\ t \in S /\ s \notin S
      BY <1>2, <1>3, <2>2, <2>3
    <3> HIDE DEF S
    <3> QED BY <3>1, ApartByClosed
  <2>4. CASE owner \in M
    <3>1. owner \in Scenes(d)
      BY <2>2, <2>4 DEF Closed
    <3> DEFINE N == UNION {Reached(d, x) : x \in X}
    <3>2. \A x \in X : /\ x \in Reached(d, x) /\ Closed(d, Reached(d, x))
                       /\ owner \notin Reached(d, x)
      BY <3>1, ReachedIsClosed DEF Reached
    <3>3. \A x \in X : s \notin Reached(d, x)
      <4>1. SUFFICES ASSUME NEW x \in X, s \in Reached(d, x) PROVE FALSE
        OBVIOUS
      <4>2. t \in Reached(d, x)
        BY <2>1, <3>2, <4>1 DEF Closed
      <4>3. M \subseteq Reached(d, x)
        BY <3>2, <4>2, ReachedIsLeast DEF M
      <4> QED BY <2>4, <3>2, <4>3
    <3>4. X \subseteq N /\ owner \notin N /\ s \notin N
      BY <3>2, <3>3
    <3>5. Closed(d, N)
      BY <3>2 DEF Closed
    <3> HIDE DEF N
    <3>6. Closed(e, (M \cup N) \cap Scenes(e))
      <4>1. ASSUME NEW r \in (M \cup N) \cap Scenes(e), NEW x \in SceneRefers(e, r)
            PROVE  x \in (M \cup N) \cap Scenes(e)
        <5>1. x \in Scenes(e)
          BY <4>1 DEF ReferencesHold
        <5>2. CASE r # owner
          <6>1. x \in SceneRefers(d, r)
            BY <4>1, <5>2
          <6> QED BY <2>2, <3>5, <4>1, <5>1, <6>1 DEF Closed
        <5>3. CASE r = owner
          <6>1. x \in X \/ x \in SceneRefers(d, owner)
            BY <4>1, <5>3
          <6> QED BY <2>2, <2>4, <3>4, <5>1, <6>1 DEF Closed
        <5> QED BY <5>2, <5>3
      <4> QED BY <4>1 DEF Closed
    <3> QED BY <1>2, <2>2, <3>4, <3>6, ApartByClosed
  <2> QED BY <2>3, <2>4
<1> QED BY <1>4, <1>5

-----------------------------------------------------------------------------
(* Profiles with a scene or sources more, or changed *)

LEMMA ProfileFacts ==
    ASSUME NEW d, IsProfile(d)
    PROVE  /\ \A s \in DOMAIN d.sources : s \in Identifiers /\ d.sources[s] \in Seq(Filters)
           /\ \A s \in Scenes(d) : /\ s \in Identifiers
                                   /\ IsTree(d.scenes[s])
                                   /\ <<>> \in Groups(d.scenes[s])
           /\ d.order \in Seq(Identifiers)
  BY DEF IsProfile

LEMMA SceneFacts ==
    ASSUME NEW d, Sound(d), NEW s \in Scenes(d)
    PROVE  /\ s \in Identifiers
           /\ Good(d.scenes[s])
           /\ <<>> \in Groups(d.scenes[s])
           /\ <<>> \in DOMAIN d.scenes[s]
           /\ References(d.scenes[s], "source") \subseteq DOMAIN d.sources
           /\ References(d.scenes[s], "scene") \subseteq Scenes(d)
           /\ SceneRefers(d, s) = References(d.scenes[s], "scene")
  BY DEF Sound, IsProfile, ReferencesHold, SceneRefers, Groups

LEMMA WithSceneFacts ==
    ASSUME NEW d, IsProfile(d), NEW s \in Identifiers, NEW t,
           IsTree(t), <<>> \in Groups(t)
    PROVE  /\ IsProfile(WithScene(d, s, t))
           /\ WithScene(d, s, t).sources = d.sources
           /\ WithScene(d, s, t).order = d.order
           /\ \A r : r \in Scenes(WithScene(d, s, t)) <=> r \in Scenes(d) \/ r = s
           /\ WithScene(d, s, t).scenes[s] = t
           /\ \A r \in Scenes(d) : r # s => WithScene(d, s, t).scenes[r] = d.scenes[r]
<1> DEFINE new == [r \in Scenes(d) \cup {s} |-> IF r = s THEN t ELSE d.scenes[r]]
           e == WithScene(d, s, t)
<1>1. d = [sources |-> d.sources, scenes |-> d.scenes, order |-> d.order]
  BY DEF IsProfile
<1>2. e = [d EXCEPT !.scenes = new]
  BY DEF WithScene
<1>3. /\ DOMAIN new = Scenes(d) \cup {s} /\ new[s] = t
      /\ \A r \in Scenes(d) : r # s => new[r] = d.scenes[r]
      /\ new = [r \in DOMAIN new |-> new[r]]
  OBVIOUS
<1> HIDE DEF new, e
<1>4. e = [sources |-> d.sources, scenes |-> new, order |-> d.order]
  BY <1>1, <1>2
<1>5. e.sources = d.sources /\ e.scenes = new /\ e.order = d.order
  BY <1>4
<1>6. Scenes(e) = DOMAIN new
  BY <1>5 DEF Scenes
<1>7. IsProfile(e)
  <2>1. e = [sources |-> e.sources, scenes |-> e.scenes, order |-> e.order]
    BY <1>4, <1>5
  <2>2. \A r \in Scenes(e) : IsTree(e.scenes[r]) /\ <<>> \in Groups(e.scenes[r])
    BY <1>3, <1>5, <1>6, ProfileFacts
  <2>3. Scenes(e) \subseteq Identifiers
    BY <1>3, <1>6, ProfileFacts
  <2>4. e.scenes = [r \in Scenes(e) |-> e.scenes[r]]
    BY <1>3, <1>5, <1>6
  <2> QED BY <1>5, <2>1, <2>2, <2>3, <2>4 DEF IsProfile
<1> QED BY <1>3, <1>5, <1>6, <1>7 DEF e

LEMMA WithSourcesFacts ==
    ASSUME NEW d, IsProfile(d), NEW new, DOMAIN new \subseteq Identifiers,
           new \in [DOMAIN new -> Seq(Filters)]
    PROVE  /\ IsProfile(WithSources(d, new))
           /\ WithSources(d, new).scenes = d.scenes
           /\ Scenes(WithSources(d, new)) = Scenes(d)
           /\ WithSources(d, new).order = d.order
           /\ \A s : s \in DOMAIN WithSources(d, new).sources
                        <=> s \in DOMAIN d.sources \/ s \in DOMAIN new
           /\ \A s \in DOMAIN WithSources(d, new).sources :
                 WithSources(d, new).sources[s]
                    = IF s \in DOMAIN new THEN new[s] ELSE d.sources[s]
<1> DEFINE sources == [s \in DOMAIN d.sources \cup DOMAIN new |->
                          IF s \in DOMAIN new THEN new[s] ELSE d.sources[s]]
           e == WithSources(d, new)
<1>1. d = [sources |-> d.sources, scenes |-> d.scenes, order |-> d.order]
  BY DEF IsProfile
<1>2. e = [d EXCEPT !.sources = sources]
  BY DEF WithSources
<1>3. /\ DOMAIN sources = DOMAIN d.sources \cup DOMAIN new
      /\ sources \in [DOMAIN sources -> Seq(Filters)]
      /\ DOMAIN sources \subseteq Identifiers
      /\ \A s \in DOMAIN sources :
            sources[s] = IF s \in DOMAIN new THEN new[s] ELSE d.sources[s]
  <2>1. /\ DOMAIN d.sources \subseteq Identifiers
        /\ \A s \in DOMAIN d.sources : d.sources[s] \in Seq(Filters)
    BY ProfileFacts
  <2> QED BY <2>1
<1> HIDE DEF sources, e
<1>4. e = [sources |-> sources, scenes |-> d.scenes, order |-> d.order]
  BY <1>1, <1>2
<1>5. e.sources = sources /\ e.scenes = d.scenes /\ e.order = d.order
  BY <1>4
<1>6. IsProfile(e)
  <2>1. e = [sources |-> e.sources, scenes |-> e.scenes, order |-> e.order]
    BY <1>4, <1>5
  <2>2. /\ \A r \in DOMAIN d.scenes : IsTree(d.scenes[r]) /\ <<>> \in Groups(d.scenes[r])
        /\ DOMAIN d.scenes \subseteq Identifiers
        /\ d.scenes = [r \in DOMAIN d.scenes |-> d.scenes[r]]
        /\ d.order \in Seq(Identifiers)
    BY DEF IsProfile, Scenes
  <2> QED BY <1>3, <1>5, <2>1, <2>2 DEF IsProfile, Scenes
<1> QED BY <1>3, <1>5, <1>6 DEF e, Scenes

LEMMA SourcesAdded ==
    ASSUME NEW d, Sound(d), NEW new, DOMAIN new \subseteq Identifiers,
           new \in [DOMAIN new -> Seq(Filters)],
           \A c \in DOMAIN new : Distinct(new[c])
    PROVE  Sound(WithSources(d, new))
<1> DEFINE e == WithSources(d, new)
<1>1. /\ IsProfile(e) /\ e.scenes = d.scenes /\ Scenes(e) = Scenes(d) /\ e.order = d.order
      /\ \A s : s \in DOMAIN d.sources => s \in DOMAIN e.sources
  BY WithSourcesFacts DEF Sound
<1>6. ChainsHold(e)
  <2>1. \A s : s \in DOMAIN e.sources => s \in DOMAIN d.sources \/ s \in DOMAIN new
    BY WithSourcesFacts DEF Sound
  <2>2. \A s \in DOMAIN e.sources :
           e.sources[s] = IF s \in DOMAIN new THEN new[s] ELSE d.sources[s]
    BY WithSourcesFacts DEF Sound
  <2> HIDE DEF e
  <2> QED BY <2>1, <2>2 DEF Sound, ChainsHold
<1> HIDE DEF e
<1>2. \A s \in Scenes(e) : Good(e.scenes[s])
  BY <1>1 DEF Sound
<1>3. ReferencesHold(e)
  BY <1>1 DEF Sound, ReferencesHold, SceneRefers
<1>4. NoCircle(e)
  BY <1>1 DEF Sound, NoCircle, Reaches, SceneRefers
<1>5. OrderHolds(e)
  BY <1>1 DEF Sound, OrderHolds
<1> QED BY <1>1, <1>2, <1>3, <1>4, <1>5, <1>6 DEF Sound, e

(* The targets of an item are valid where its scene may refer to them already. *)
LEMMA OwnTargetsAreValid ==
    ASSUME NEW d, Sound(d), NEW s \in Scenes(d), NEW x \in SceneRefers(d, s)
    PROVE  TargetIsValid(d, s, x)
<1>1. x \in Scenes(d) /\ ~Reaches(d, x, s)
  BY DEF Sound, ReferencesHold, NoCircle
<1>2. Reaches(d, s, s)
  BY DEF Reaches
<1> QED BY <1>1, <1>2 DEF TargetIsValid

LEMMA SceneChanged ==
    ASSUME NEW d, Sound(d), NEW s \in Scenes(d), NEW t, Good(t), <<>> \in Groups(t),
           References(t, "source") \subseteq DOMAIN d.sources,
           \A x \in References(t, "scene") : TargetIsValid(d, s, x)
    PROVE  Sound(WithScene(d, s, t))
<1> DEFINE e == WithScene(d, s, t)
           X == References(t, "scene")
<1>0. s \in Identifiers /\ IsProfile(d) /\ IsTree(t)
  BY SceneFacts DEF Sound, Good
<1>1. IsProfile(e)
  BY <1>0, WithSceneFacts
<1>2. e.sources = d.sources /\ e.order = d.order
  BY <1>0, WithSceneFacts
<1>3. Scenes(e) = Scenes(d)
  <2>1. \A r : r \in Scenes(e) <=> r \in Scenes(d) \/ r = s
    BY <1>0, WithSceneFacts
  <2> HIDE DEF e
  <2> QED BY <2>1
<1>4. e.scenes[s] = t /\ \A r \in Scenes(d) : r # s => e.scenes[r] = d.scenes[r]
  BY <1>0, WithSceneFacts
<1> HIDE DEF e, X
<1>5. \A r \in Scenes(e) : Good(e.scenes[r])
  BY <1>3, <1>4 DEF Sound
<1>6. \A r \in Scenes(e) : r # s => SceneRefers(e, r) = SceneRefers(d, r)
  BY <1>3, <1>4 DEF SceneRefers
<1>7. SceneRefers(e, s) = X
  BY <1>4 DEF SceneRefers, X
<1>8. X \subseteq Scenes(d) /\ \A x \in X : x # s /\ ~Reaches(d, x, s)
  BY DEF TargetIsValid, X
<1>9. ReferencesHold(e)
  <2>1. \A r \in Scenes(e) : References(e.scenes[r], "source") \subseteq DOMAIN e.sources
    BY <1>2, <1>3, <1>4 DEF Sound, ReferencesHold
  <2>2. \A r \in Scenes(e) : SceneRefers(e, r) \subseteq Scenes(e)
    BY <1>3, <1>6, <1>7, <1>8 DEF Sound, ReferencesHold
  <2> QED BY <2>1, <2>2 DEF ReferencesHold
<1>10. NoCircle(e)
  <2>1. ReferencesHold(d) /\ NoCircle(d)
    BY DEF Sound
  <2>2. X \in SUBSET Scenes(d) /\ Scenes(e) \subseteq Scenes(d) \cup {s}
    BY <1>3, <1>8
  <2>3. \A r \in Scenes(e) : r # s => SceneRefers(e, r) \subseteq SceneRefers(d, r)
    BY <1>6
  <2>4. \A x \in SceneRefers(e, s) : x \in X \/ (s \in Scenes(d) /\ x \in SceneRefers(d, s))
    BY <1>7
  <2>5. \A x \in X : x # s /\ (s \in Scenes(d) => ~Reaches(d, x, s))
    BY <1>8
  <2> QED BY <1>9, <2>1, <2>2, <2>3, <2>4, <2>5, NoNewCircle
<1>11. OrderHolds(e)
  BY <1>2, <1>3 DEF Sound, OrderHolds
<1>12. ChainsHold(e)
  BY <1>2 DEF Sound, ChainsHold
<1> QED BY <1>1, <1>5, <1>9, <1>10, <1>11, <1>12 DEF Sound, e

-----------------------------------------------------------------------------
(* Lists that lose, gain or move an identifier *)

LEMMA AppendLists ==
    ASSUME NEW S, NEW list \in Seq(S), NEW e \in S
    PROVE  /\ Append(list, e) \in Seq(S)
           /\ \A x : x \in ToSet(Append(list, e)) <=> x \in ToSet(list) \/ x = e
           /\ Distinct(list) /\ e \notin ToSet(list) => Distinct(Append(list, e))
<1> DEFINE one == <<e>>
<1>1. /\ one \in Seq(S) /\ Len(one) = 1 /\ one[1] = e
  OBVIOUS
<1>2. Append(list, e) = Join(list, one)
  BY AppendIsConcat DEF Join
<1> HIDE DEF one
<1>3. Distinct(one) /\ ToSet(one) = {e}
  BY <1>1, ListFacts DEF Distinct
<1> DEFINE both == Join(list, one)
<1>4. /\ both \in Seq(S)
      /\ \A x : x \in ToSet(both) <=> x \in ToSet(list) \/ x \in ToSet(one)
      /\ Distinct(list) /\ Distinct(one) /\ (\A x \in ToSet(list) : x \notin ToSet(one))
            => Distinct(both)
  BY <1>1, ConcatLists
<1> HIDE DEF both
<1>5. /\ both \in Seq(S)
      /\ \A x : x \in ToSet(both) <=> x \in ToSet(list) \/ x = e
      /\ Distinct(list) /\ e \notin ToSet(list) => Distinct(both)
  BY <1>3, <1>4
<1> QED BY <1>2, <1>5 DEF both

LEMMA ExceptOne ==
    ASSUME NEW S, NEW list \in Seq(S), Distinct(list), NEW id \in ToSet(list)
    PROVE  Len(Except(list, {id})) = Len(list) - 1
<1> DEFINE less == Except(list, {id})
<1>1. less \in Seq(S) /\ ToSet(less) = ToSet(list) \ {id} /\ Distinct(less)
  BY ExceptFacts
<1>2. IsFiniteSet(ToSet(list)) /\ Cardinality(ToSet(list)) = Len(list)
  BY DistinctLength
<1> HIDE DEF less
<1>3. Cardinality(ToSet(less)) = Len(less)
  BY <1>1, DistinctLength
<1>4. Cardinality(ToSet(list) \ {id}) = Cardinality(ToSet(list)) - 1
  BY <1>2, FS_RemoveElement
<1> QED BY <1>1, <1>2, <1>3, <1>4 DEF less

LEMMA MovedFacts ==
    ASSUME NEW S, NEW list \in Seq(S), Distinct(list), NEW id \in ToSet(list),
           NEW index \in Nat, index < Len(list)
    PROVE  /\ Moved(list, id, index) \in Seq(S)
           /\ ToSet(Moved(list, id, index)) = ToSet(list)
           /\ Distinct(Moved(list, id, index))
<1> DEFINE less == Except(list, {id})
<1>1. /\ less \in Seq(S) /\ ToSet(less) = ToSet(list) \ {id} /\ Distinct(less)
      /\ Len(less) = Len(list) - 1
  BY ExceptFacts, ExceptOne
<1>2. Len(list) \in Nat /\ id \in S
  BY ListFacts
<1>3. Moved(list, id, index) = InsertAt(less, index + 1, id)
  BY DEF Moved
<1> HIDE DEF less
<1>4. index + 1 \in 1..(Len(less) + 1)
  BY <1>1, <1>2
<1>5. /\ InsertAt(less, index + 1, id) \in Seq(S)
      /\ ToSet(InsertAt(less, index + 1, id)) = ToSet(less) \cup {id}
      /\ Distinct(InsertAt(less, index + 1, id))
  BY <1>1, <1>2, <1>4, InsertLists
<1> QED BY <1>1, <1>3, <1>5

LEMMA OrderIsDistinct ==
    ASSUME NEW d, d.order \in Seq(Identifiers)
    PROVE  OrderHolds(d) <=> ToSet(d.order) = Scenes(d) /\ Distinct(d.order)
<1>1. Distinct(d.order) <=> Cardinality(ToSet(d.order)) = Len(d.order)
  BY DistinctLength
<1> QED BY <1>1 DEF OrderHolds

-----------------------------------------------------------------------------
(* Scenes that come, go and change places *)

LEMMA WithOrder ==
    ASSUME NEW d, IsProfile(d), NEW order \in Seq(Identifiers)
    PROVE  /\ IsProfile([d EXCEPT !.order = order])
           /\ [d EXCEPT !.order = order].order = order
           /\ [d EXCEPT !.order = order].sources = d.sources
           /\ [d EXCEPT !.order = order].scenes = d.scenes
           /\ Scenes([d EXCEPT !.order = order]) = Scenes(d)
<1> DEFINE e == [d EXCEPT !.order = order]
<1>1. d = [sources |-> d.sources, scenes |-> d.scenes, order |-> d.order]
  BY DEF IsProfile
<1>2. e = [sources |-> d.sources, scenes |-> d.scenes, order |-> order]
  BY <1>1
<1> HIDE DEF e
<1>3. e.order = order /\ e.sources = d.sources /\ e.scenes = d.scenes
  BY <1>2
<1>4. Scenes(e) = Scenes(d)
  BY <1>3 DEF Scenes
<1>5. IsProfile(e)
  <2>1. e = [sources |-> e.sources, scenes |-> e.scenes, order |-> e.order]
    BY <1>2, <1>3
  <2> QED BY <1>3, <1>4, <2>1 DEF IsProfile
<1> QED BY <1>3, <1>4, <1>5 DEF e

(* What a sound profile asks for, but for its order. *)
Holds(d) ==
    /\ IsProfile(d)
    /\ ChainsHold(d)
    /\ \A s \in Scenes(d) : Good(d.scenes[s])
    /\ ReferencesHold(d)
    /\ NoCircle(d)

LEMMA Reordered ==
    ASSUME NEW d, Holds(d), NEW order \in Seq(Identifiers),
           Distinct(order), ToSet(order) = Scenes(d)
    PROVE  Sound([d EXCEPT !.order = order])
<1> DEFINE e == [d EXCEPT !.order = order]
<1>1. /\ IsProfile(e) /\ e.order = order /\ e.sources = d.sources
      /\ e.scenes = d.scenes /\ Scenes(e) = Scenes(d)
  BY WithOrder DEF Holds
<1> HIDE DEF e
<1>2. \A s \in Scenes(e) : Good(e.scenes[s])
  BY <1>1 DEF Holds
<1>3. ReferencesHold(e)
  BY <1>1 DEF Holds, ReferencesHold, SceneRefers
<1>4. NoCircle(e)
  BY <1>1 DEF Holds, NoCircle, Reaches, SceneRefers
<1>5. OrderHolds(e)
  BY <1>1, OrderIsDistinct
<1>6. ChainsHold(e)
  BY <1>1 DEF Holds, ChainsHold
<1> QED BY <1>1, <1>2, <1>3, <1>4, <1>5, <1>6 DEF Sound, e

LEMMA SceneAdded ==
    ASSUME NEW d, Sound(d), NEW s \in Identifiers, s \notin Scenes(d),
           NEW t, Good(t), <<>> \in Groups(t),
           References(t, "source") \subseteq DOMAIN d.sources,
           References(t, "scene") \subseteq Scenes(d)
    PROVE  Sound([WithScene(d, s, t) EXCEPT !.order = Append(WithScene(d, s, t).order, s)])
<1> DEFINE e == WithScene(d, s, t)
           X == References(t, "scene")
<1>0. IsProfile(d) /\ IsTree(t)
  BY DEF Sound, Good
<1>1. IsProfile(e)
  BY <1>0, WithSceneFacts
<1>2. e.sources = d.sources /\ e.order = d.order
  BY <1>0, WithSceneFacts
<1>3. \A r : r \in Scenes(e) <=> r \in Scenes(d) \/ r = s
  BY <1>0, WithSceneFacts
<1>4. e.scenes[s] = t /\ \A r \in Scenes(d) : r # s => e.scenes[r] = d.scenes[r]
  BY <1>0, WithSceneFacts
<1> HIDE DEF e, X
<1>5. \A r \in Scenes(e) : Good(e.scenes[r])
  BY <1>3, <1>4 DEF Sound
<1>6. \A r \in Scenes(e) : r # s => r \in Scenes(d) /\ SceneRefers(e, r) = SceneRefers(d, r)
  BY <1>3, <1>4 DEF SceneRefers
<1>7. SceneRefers(e, s) = X
  BY <1>4 DEF SceneRefers, X
<1>9. ReferencesHold(e)
  <2>1. \A r \in Scenes(e) : References(e.scenes[r], "source") \subseteq DOMAIN e.sources
    BY <1>2, <1>3, <1>4 DEF Sound, ReferencesHold
  <2>2. \A r \in Scenes(e) : SceneRefers(e, r) \subseteq Scenes(e)
    BY <1>3, <1>6, <1>7 DEF Sound, ReferencesHold, X
  <2> QED BY <2>1, <2>2 DEF ReferencesHold
<1>10. NoCircle(e)
  <2>1. ReferencesHold(d) /\ NoCircle(d)
    BY DEF Sound
  <2>2. X \in SUBSET Scenes(d) /\ Scenes(e) \subseteq Scenes(d) \cup {s}
    BY <1>3 DEF X
  <2>3. \A r \in Scenes(e) : r # s => SceneRefers(e, r) \subseteq SceneRefers(d, r)
    BY <1>6
  <2>4. \A x \in SceneRefers(e, s) : x \in X \/ (s \in Scenes(d) /\ x \in SceneRefers(d, s))
    BY <1>7
  <2>5. \A x \in X : x # s /\ (s \in Scenes(d) => ~Reaches(d, x, s))
    BY <2>2
  <2> QED BY <1>9, <2>1, <2>2, <2>3, <2>4, <2>5, NoNewCircle
<1> DEFINE order == Append(e.order, s)
<1>11. order \in Seq(Identifiers) /\ Distinct(order) /\ ToSet(order) = Scenes(e)
  <2>1. d.order \in Seq(Identifiers) /\ Distinct(d.order) /\ ToSet(d.order) = Scenes(d)
    BY <1>0, ProfileFacts, OrderIsDistinct DEF Sound
  <2> DEFINE more == Append(d.order, s)
  <2>2. /\ more \in Seq(Identifiers) /\ Distinct(more)
        /\ \A x : x \in ToSet(more) <=> x \in Scenes(d) \/ x = s
    BY <2>1, AppendLists
  <2> HIDE DEF more
  <2>3. ToSet(more) = Scenes(e)
    BY <1>3, <2>2
  <2> QED BY <1>2, <2>2, <2>3 DEF more
<1> HIDE DEF order
<1>12. Holds(e)
  <2>1. ChainsHold(e)
    BY <1>2 DEF Sound, ChainsHold
  <2> QED BY <1>1, <1>5, <1>9, <1>10, <2>1 DEF Holds
<1>13. Sound([e EXCEPT !.order = order])
  BY <1>11, <1>12, Reordered
<1> QED BY <1>13 DEF e, order

LEMMA SceneRemoved ==
    ASSUME NEW d, Sound(d), NEW s \in Scenes(d), ~SceneInUse(d, s)
    PROVE  Sound(RemoveScene(d, s).doc)
<1> DEFINE scenes == [t \in Scenes(d) \ {s} |-> d.scenes[t]]
           order == Except(d.order, {s})
           e == RemoveScene(d, s).doc
<1>1. e = [d EXCEPT !.scenes = scenes, !.order = order]
  BY DEF RemoveScene, Accepted
<1>2. d = [sources |-> d.sources, scenes |-> d.scenes, order |-> d.order] /\ IsProfile(d)
  BY DEF Sound, IsProfile
<1>3. /\ DOMAIN scenes = Scenes(d) \ {s}
      /\ \A t \in Scenes(d) : t # s => scenes[t] = d.scenes[t]
      /\ scenes = [t \in DOMAIN scenes |-> scenes[t]]
  OBVIOUS
<1>4. /\ order \in Seq(Identifiers) /\ Distinct(order) /\ ToSet(order) = Scenes(d) \ {s}
  <2>1. d.order \in Seq(Identifiers) /\ Distinct(d.order) /\ ToSet(d.order) = Scenes(d)
    BY <1>2, ProfileFacts, OrderIsDistinct DEF Sound
  <2> QED BY <2>1, ExceptFacts
<1> HIDE DEF scenes, order, e
<1>5. e = [sources |-> d.sources, scenes |-> scenes, order |-> order]
  BY <1>1, <1>2
<1>6. e.sources = d.sources /\ e.scenes = scenes /\ e.order = order
  BY <1>5
<1>7. Scenes(e) = Scenes(d) \ {s}
  BY <1>3, <1>6 DEF Scenes
<1>8. \A t \in Scenes(e) : /\ t \in Scenes(d) /\ t # s /\ e.scenes[t] = d.scenes[t]
                           /\ SceneRefers(e, t) = SceneRefers(d, t)
  BY <1>3, <1>6, <1>7 DEF SceneRefers
<1>9. IsProfile(e)
  <2>1. e = [sources |-> e.sources, scenes |-> e.scenes, order |-> e.order]
    BY <1>5, <1>6
  <2>2. \A r \in Scenes(e) : IsTree(e.scenes[r]) /\ <<>> \in Groups(e.scenes[r])
    BY <1>2, <1>8, ProfileFacts
  <2>3. Scenes(e) \subseteq Identifiers
    BY <1>2, <1>8, ProfileFacts
  <2>4. e.scenes = [r \in Scenes(e) |-> e.scenes[r]]
    BY <1>3, <1>6, <1>7
  <2>5. DOMAIN e.sources \subseteq Identifiers /\ e.sources \in [DOMAIN e.sources -> Seq(Filters)]
    BY <1>2, <1>6 DEF IsProfile
  <2> QED BY <1>4, <1>6, <2>1, <2>2, <2>3, <2>4, <2>5 DEF IsProfile
<1>10. ReferencesHold(e)
  <2>1. \A t \in Scenes(e) : s \notin SceneRefers(d, t)
    BY <1>8 DEF SceneInUse, SceneRefers
  <2> QED BY <1>6, <1>7, <1>8, <2>1 DEF Sound, ReferencesHold
<1>11. NoCircle(e)
  <2>1. ReferencesHold(d) /\ NoCircle(d)
    BY DEF Sound
  <2>2. {} \in SUBSET Scenes(d) /\ Scenes(e) \subseteq Scenes(d) \cup {s} /\ s \notin Scenes(e)
    BY <1>7
  <2>3. \A r \in Scenes(e) : r # s => SceneRefers(e, r) \subseteq SceneRefers(d, r)
    BY <1>8
  <2> DEFINE X == {}
  <2>4. /\ X \in SUBSET Scenes(d)
        /\ s \in Scenes(e) => \A x \in SceneRefers(e, s) :
              x \in X \/ (s \in Scenes(d) /\ x \in SceneRefers(d, s))
        /\ \A x \in X : x # s /\ (s \in Scenes(d) => ~Reaches(d, x, s))
    BY <2>2
  <2> HIDE DEF X
  <2> QED BY <1>10, <2>1, <2>2, <2>3, <2>4, NoNewCircle
<1>12. OrderHolds(e)
  BY <1>4, <1>6, <1>7, OrderIsDistinct
<1>13. \A t \in Scenes(e) : Good(e.scenes[t])
  BY <1>8 DEF Sound
<1>14. ChainsHold(e)
  BY <1>6 DEF Sound, ChainsHold
<1> QED BY <1>9, <1>10, <1>11, <1>12, <1>13, <1>14 DEF Sound, e

LEMMA SceneMoved ==
    ASSUME NEW d, Sound(d), NEW s \in Scenes(d), NEW index \in Nat, index < Len(d.order)
    PROVE  Sound([d EXCEPT !.order = Moved(d.order, s, index)])
<1>1. d.order \in Seq(Identifiers) /\ Distinct(d.order) /\ ToSet(d.order) = Scenes(d)
  BY ProfileFacts, OrderIsDistinct DEF Sound
<1> DEFINE order == Moved(d.order, s, index)
<1>2. order \in Seq(Identifiers) /\ ToSet(order) = Scenes(d) /\ Distinct(order)
  BY <1>1, MovedFacts
<1> HIDE DEF order
<1>3. Sound([d EXCEPT !.order = order])
  BY <1>2, Reordered DEF Sound, Holds
<1> QED BY <1>3 DEF order

-----------------------------------------------------------------------------
(* What the items of a tree refer to *)

LEMMA Refers ==
    ASSUME NEW t, NEW k, NEW q \in DOMAIN t, t[q].kind = k
    PROVE  t[q].ref \in References(t, k)
  BY DEF References, Leaves

LEMMA RefersWithin ==
    ASSUME NEW t, NEW k, NEW R, \A q \in DOMAIN t : t[q].kind = k => t[q].ref \in R
    PROVE  References(t, k) \subseteq R
  BY DEF References, Leaves

LEMMA ItemRefers ==
    ASSUME NEW t, Good(t), NEW p \in DOMAIN t, NEW k
    PROVE  References(ItemAt(t, p), k) \subseteq References(t, k)
<1> DEFINE item == ItemAt(t, p)
<1>1. \A r \in DOMAIN item : Join(p, r) \in DOMAIN t /\ item[r] = t[Join(p, r)]
  BY ItemIsGood
<1> HIDE DEF item
<1>2. \A r \in DOMAIN item : item[r].kind = k => item[r].ref \in References(t, k)
  BY <1>1, Refers
<1>3. References(item, k) \subseteq References(t, k)
  BY <1>2, RefersWithin
<1> QED BY <1>3 DEF item

LEMMA DetachedRefers ==
    ASSUME NEW t, Good(t), NEW roots \in SUBSET (Path \ {<<>>}), NEW k
    PROVE  References(Detached(t, roots), k) \subseteq References(t, k)
<1> DEFINE left == Detached(t, roots)
<1>1. \A q \in DOMAIN left : q \in DOMAIN t
  <2>1. DOMAIN left = {q \in DOMAIN t : \A p \in roots : ~IsPrefix(p, q)}
    BY DetachedFacts
  <2> HIDE DEF left
  <2> QED BY <2>1
<1>2. \A q \in DOMAIN left : left[q].kind = t[q].kind /\ left[q].ref = t[q].ref
  BY DetachedNodes
<1> HIDE DEF left
<1>3. \A r \in DOMAIN left : left[r].kind = k => left[r].ref \in References(t, k)
  BY <1>1, <1>2, Refers
<1>4. References(left, k) \subseteq References(t, k)
  BY <1>3, RefersWithin
<1> QED BY <1>4 DEF left

LEMMA DetachedRoot ==
    ASSUME NEW t, Good(t), NEW roots \in SUBSET (Path \ {<<>>}), <<>> \in Groups(t)
    PROVE  <<>> \in Groups(Detached(t, roots))
<1>1. <<>> \in DOMAIN Detached(t, roots)
  BY DetachedIsGood, TreeFacts DEF Good
<1>2. Detached(t, roots)[<<>>].kind = t[<<>>].kind
  BY <1>1, DetachedNodes
<1> QED BY <1>1, <1>2 DEF Groups

LEMMA AttachedRefers ==
    ASSUME NEW t, Good(t), NEW item, Good(item), NEW parent \in DOMAIN t,
           NEW id \in Identifiers, id \notin ToSet(t[parent].kids),
           NEW index \in 0..Len(t[parent].kids), NEW k
    PROVE  References(Attached(t, parent, id, index, item), k)
              \subseteq References(t, k) \cup References(item, k)
<1> DEFINE more == Attached(t, parent, id, index, item)
           at == Child(parent, id)
<1>1. /\ \A q : q \in DOMAIN more <=>
            q \in DOMAIN t \/ \E r \in DOMAIN item : q = Join(at, r)
      /\ \A r \in DOMAIN item : more[Join(at, r)] = item[r]
  BY AttachedFacts
<1>2. \A q \in DOMAIN t : q # parent => more[q] = t[q]
  BY AttachedFacts
<1>3. more[parent].kind = t[parent].kind /\ more[parent].ref = t[parent].ref
  BY AttachedFacts
<1> HIDE DEF more, at
<1>4. ASSUME NEW q \in DOMAIN more, more[q].kind = k
      PROVE  more[q].ref \in References(t, k) \cup References(item, k)
  <2>1. CASE q \in DOMAIN t
    <3>1. more[q].kind = t[q].kind /\ more[q].ref = t[q].ref
      BY <1>2, <1>3, <2>1
    <3> QED BY <1>4, <2>1, <3>1, Refers
  <2>2. CASE \E r \in DOMAIN item : q = Join(at, r)
    <3>1. PICK r \in DOMAIN item : q = Join(at, r)
      BY <2>2
    <3> QED BY <1>1, <1>4, <3>1, Refers
  <2> QED BY <1>1, <2>1, <2>2
<1>5. References(more, k) \subseteq References(t, k) \cup References(item, k)
  BY <1>4, RefersWithin
<1> QED BY <1>5 DEF more

LEMMA AttachedRoot ==
    ASSUME NEW t, Good(t), NEW item, Good(item), NEW parent \in DOMAIN t,
           NEW id \in Identifiers, id \notin ToSet(t[parent].kids),
           NEW index \in 0..Len(t[parent].kids), <<>> \in Groups(t)
    PROVE  <<>> \in Groups(Attached(t, parent, id, index, item))
<1>1. <<>> \in DOMAIN t /\ t[<<>>].kind = "group"
  BY DEF Groups
<1>2. <<>> \in DOMAIN Attached(t, parent, id, index, item)
  BY <1>1, AttachedFacts
<1>3. Attached(t, parent, id, index, item)[<<>>].kind = "group"
  <2>1. CASE <<>> = parent
    BY <1>1, <2>1, AttachedFacts
  <2>2. CASE <<>> # parent
    <3>1. Attached(t, parent, id, index, item)[<<>>] = t[<<>>]
      BY <1>1, <2>2, AttachedFacts
    <3> QED BY <1>1, <3>1
  <2> QED BY <2>1, <2>2
<1> QED BY <1>2, <1>3 DEF Groups

LEMMA GroupOfRefers ==
    ASSUME NEW t, Good(t), NEW parent \in DOMAIN t, NEW ids \in SUBSET Identifiers,
           NEW k, k # "group"
    PROVE  References(GroupOf(t, parent, ids), k) \subseteq References(t, k)
<1> DEFINE group == GroupOf(t, parent, ids)
<1>1. /\ \A q \in DOMAIN group : q # <<>> =>
            Join(parent, q) \in DOMAIN t /\ group[q] = t[Join(parent, q)]
      /\ group[<<>>] = Node("group", <<>>, Among(t[parent].kids, ids))
  <2>1. \A q : q \in DOMAIN group => q = <<>> \/ Join(parent, q) \in DOMAIN t
    BY GroupOfFacts
  <2> QED BY <2>1, GroupOfFacts
<1>2. group[<<>>].kind = "group"
  BY <1>1 DEF Node
<1> HIDE DEF group
<1>3. \A r \in DOMAIN group : group[r].kind = k => group[r].ref \in References(t, k)
  BY <1>1, <1>2, Refers
<1>4. References(group, k) \subseteq References(t, k)
  BY <1>3, RefersWithin
<1> QED BY <1>4 DEF group

LEMMA DissolvedNodes ==
    ASSUME NEW t, Good(t), NEW target \in DOMAIN t, target # <<>>
    PROVE  /\ Dissolved(t, target)[Front(target)].kind = t[Front(target)].kind
           /\ Dissolved(t, target)[Front(target)].ref = t[Front(target)].ref
<1> DEFINE kids == Spliced(t[Front(target)].kids, IndexOf(t[Front(target)].kids, Last(target)),
                           t[target].kids)
<1>1. Dissolved(t, target)[Front(target)] = Listing(t[Front(target)], kids)
  BY DissolvedFacts
<1> HIDE DEF kids
<1>2. t[Front(target)] \in Nodes
  BY FrontIsGroup, KidsFacts
<1> QED BY <1>1, <1>2 DEF Listing, Nodes

LEMMA DissolvedRefers ==
    ASSUME NEW t, Good(t), NEW target \in DOMAIN t, target # <<>>, NEW k
    PROVE  References(Dissolved(t, target), k) \subseteq References(t, k)
<1> DEFINE flat == Dissolved(t, target)
           parent == Front(target)
           Lifted(q) == \E v \in Path : /\ v # <<>> /\ Join(target, v) \in DOMAIN t
                                        /\ q = Join(parent, v)
<1>1. \A q : q \in DOMAIN flat <=> \/ q \in DOMAIN t /\ ~IsPrefix(target, q)
                                   \/ Lifted(q)
  BY DissolvedFacts
<1>2. \A v \in Path : v # <<>> /\ Join(target, v) \in DOMAIN t =>
         flat[Join(parent, v)] = t[Join(target, v)]
  BY DissolvedFacts
<1>3. \A q \in DOMAIN flat : q # parent /\ ~Lifted(q) => flat[q] = t[q]
  BY DissolvedFacts
<1>4. flat[parent].kind = t[parent].kind /\ flat[parent].ref = t[parent].ref
  BY DissolvedNodes
<1>5. parent \in DOMAIN t
  BY FrontIsGroup
<1> HIDE DEF flat, parent
<1>6. ASSUME NEW q \in DOMAIN flat, flat[q].kind = k
      PROVE  flat[q].ref \in References(t, k)
  <2>1. CASE q = parent
    BY <1>4, <1>5, <1>6, <2>1, Refers
  <2>2. CASE Lifted(q)
    <3>1. PICK v \in Path : v # <<>> /\ Join(target, v) \in DOMAIN t /\ q = Join(parent, v)
      BY <2>2
    <3>2. flat[q] = t[Join(target, v)]
      BY <1>2, <3>1
    <3> QED BY <1>6, <3>1, <3>2, Refers
  <2>3. CASE q # parent /\ ~Lifted(q)
    <3>1. q \in DOMAIN t /\ flat[q] = t[q]
      BY <1>1, <1>3, <2>3
    <3> QED BY <1>6, <3>1, Refers
  <2> QED BY <2>1, <2>2, <2>3
<1>7. References(flat, k) \subseteq References(t, k)
  BY <1>6, RefersWithin
<1> QED BY <1>7 DEF flat

LEMMA DissolvedRoot ==
    ASSUME NEW t, Good(t), NEW target \in DOMAIN t, target # <<>>, <<>> \in Groups(t)
    PROVE  <<>> \in Groups(Dissolved(t, target))
<1>1. <<>> \in DOMAIN t /\ t[<<>>].kind = "group"
  BY DEF Groups
<1>2. /\ target \in Path /\ Front(target) \in Path /\ Front(target) \in DOMAIN t
      /\ t[Front(target)].kind = "group"
  BY KidsFacts, PathSplits, FrontIsGroup
<1>3. ~IsPrefix(target, <<>>)
  <2>1. \A r \in Path : Join(target, r) # <<>>
    BY <1>2, OnlyTheRootIsEmpty
  <2> QED BY <1>2, <2>1, EmptyIsPath, PathPrefix
<1>4. <<>> \in DOMAIN Dissolved(t, target)
  BY <1>1, <1>3, DissolvedFacts
<1>5. ~ \E v \in Path : /\ v # <<>> /\ Join(target, v) \in DOMAIN t
                        /\ <<>> = Join(Front(target), v)
  BY <1>2, OnlyTheRootIsEmpty
<1>6. Dissolved(t, target)[<<>>].kind = "group"
  <2>1. CASE <<>> = Front(target)
    BY <1>2, <2>1, DissolvedNodes
  <2>2. CASE <<>> # Front(target)
    <3>1. Dissolved(t, target)[<<>>] = t[<<>>]
      BY <1>4, <1>5, <2>2, DissolvedFacts
    <3> QED BY <1>1, <3>1
  <2> QED BY <2>1, <2>2
<1> QED BY <1>4, <1>6 DEF Groups

LEMMA RelistedRefers ==
    ASSUME NEW t, NEW u, Relisted(t, u), NEW k
    PROVE  References(u, k) = References(t, k)
<1>1. DOMAIN u = DOMAIN t /\ \A q \in DOMAIN t : u[q].kind = t[q].kind /\ u[q].ref = t[q].ref
  BY DEF Relisted
<1>2. References(u, k) \subseteq References(t, k)
  BY <1>1, Refers, RefersWithin
<1>3. References(t, k) \subseteq References(u, k)
  BY <1>1, Refers, RefersWithin
<1> QED BY <1>2, <1>3

LEMMA RelistedRoot ==
    ASSUME NEW t, NEW u, Relisted(t, u), <<>> \in Groups(t)
    PROVE  <<>> \in Groups(u)
  BY DEF Relisted, Groups

LEMMA MovedWithinIsRelisted ==
    ASSUME NEW t, Good(t), NEW p \in DOMAIN t, p # <<>>,
           NEW index \in Nat, index < Len(t[Front(p)].kids)
    PROVE  Relisted(t, MovedWithin(t, p, index))
<1> DEFINE u == MovedWithin(t, p, index)
           parent == Front(p)
           kids == Moved(t[parent].kids, Last(p), index)
<1>1. u = [t EXCEPT ![parent].kids = kids]
  BY DEF MovedWithin
<1>2. parent \in DOMAIN t /\ p \in Path /\ Last(p) \in Identifiers /\ p = Child(parent, Last(p))
  BY KidsFacts, PathSplits, FrontIsGroup
<1>3. Last(p) \in ToSet(t[parent].kids)
  BY <1>2, KidsFacts
<1>4. kids \in Seq(Identifiers) /\ ToSet(kids) = ToSet(t[parent].kids) /\ Distinct(kids)
  <2>1. t[parent].kids \in Seq(Identifiers) /\ Distinct(t[parent].kids)
    BY <1>2, KidsFacts
  <2> QED BY <1>3, <2>1, MovedFacts
<1>5. t = [q \in DOMAIN t |-> t[q]] /\ t[parent] \in Nodes
  BY <1>2, KidsFacts DEF Good, IsTree
<1> HIDE DEF u, kids, parent
<1>6. /\ DOMAIN u = DOMAIN t /\ u = [q \in DOMAIN u |-> u[q]]
      /\ \A q \in DOMAIN t : q # parent => u[q] = t[q]
      /\ u[parent] = [t[parent] EXCEPT !.kids = kids]
  BY <1>1, <1>2, <1>5
<1>7. /\ u[parent] \in Nodes /\ u[parent].kind = t[parent].kind
      /\ u[parent].ref = t[parent].ref /\ u[parent].kids = kids
  BY <1>4, <1>5, <1>6, WithKids
<1>8. \A q \in DOMAIN t : t[q] \in Nodes /\ Distinct(t[q].kids)
  BY KidsFacts
<1> QED BY <1>4, <1>6, <1>7, <1>8 DEF Relisted, u

LEMMA LockIsRelisted ==
    ASSUME NEW t, Good(t), NEW p \in DOMAIN t, NEW b \in BOOLEAN
    PROVE  Relisted(t, [t EXCEPT ![p].locked = b])
<1> DEFINE u == [t EXCEPT ![p].locked = b]
<1>1. t = [q \in DOMAIN t |-> t[q]] /\ t[p] \in Nodes
  BY KidsFacts DEF Good, IsTree
<1>2. /\ DOMAIN u = DOMAIN t /\ u = [q \in DOMAIN u |-> u[q]]
      /\ \A q \in DOMAIN t : q # p => u[q] = t[q]
      /\ u[p] = [t[p] EXCEPT !.locked = b]
  BY <1>1
<1> HIDE DEF u
<1>3. /\ u[p] \in Nodes /\ u[p].kind = t[p].kind
      /\ u[p].ref = t[p].ref /\ u[p].kids = t[p].kids
  BY <1>1, <1>2, WithLock
<1>4. \A q \in DOMAIN t : t[q] \in Nodes /\ Distinct(t[q].kids)
  BY KidsFacts
<1> QED BY <1>2, <1>3, <1>4 DEF Relisted, u

-----------------------------------------------------------------------------
(* Items of one node *)

LEMMA LeafFacts ==
    ASSUME NEW kind \in Kinds, NEW ref \in Identifiers
    PROVE  /\ Good(Leaf(kind, ref))
           /\ DOMAIN Leaf(kind, ref) = {<<>>}
           /\ Leaf(kind, ref)[<<>>].kind = kind
           /\ Leaf(kind, ref)[<<>>].ref = ref
<1> DEFINE t == Leaf(kind, ref)
           node == Node(kind, ref, <<>>)
<1>1. /\ node \in Nodes /\ node.kind = kind /\ node.ref = ref /\ node.kids = <<>>
  <2>1. <<>> \in Seq(Identifiers)
    BY EmptyPath
  <2> QED BY <2>1 DEF Node, Nodes
<1> HIDE DEF node
<1>2. t = [p \in {<<>>} |-> node]
  BY DEF Leaf, node
<1>3. DOMAIN t = {<<>>} /\ t[<<>>] = node
  BY <1>2
<1>4. IsTree(t)
  <2>1. IsFiniteSet({<<>>})
    BY FS_Singleton
  <2>2. {<<>>} \subseteq Seq(Identifiers)
    BY EmptyPath
  <2>3. t \in [{<<>>} -> Nodes]
    BY <1>1, <1>2
  <2> HIDE DEF t
  <2> QED BY <1>3, <2>1, <2>2, <2>3 DEF IsTree
<1>5. Kin(t)
  <2>1. ToSet(<<>>) = {} /\ Distinct(<<>>)
    BY DEF ToSet, Distinct
  <2>2. \A id \in Identifiers : Child(<<>>, id) # <<>>
    BY ChildOfPath, EmptyIsPath
  <2> HIDE DEF t
  <2> QED BY <1>1, <1>3, <2>1, <2>2 DEF Kin, ItemPaths
<1> HIDE DEF t
<1>6. Good(t)
  BY <1>4, <1>5 DEF Good
<1> QED BY <1>1, <1>3, <1>6 DEF t

LEMMA LeafRefers ==
    ASSUME NEW kind \in Kinds, NEW ref \in Identifiers, NEW k
    PROVE  \A x \in References(Leaf(kind, ref), k) : k = kind /\ x = ref
<1> DEFINE t == Leaf(kind, ref)
<1>1. DOMAIN t = {<<>>} /\ t[<<>>].kind = kind /\ t[<<>>].ref = ref
  BY LeafFacts
<1> HIDE DEF t
<1>2. \A x \in References(t, k) : k = kind /\ x = ref
  BY <1>1 DEF References, Leaves
<1> QED BY <1>2 DEF t

LEMMA EmptySceneFacts ==
    /\ Good(EmptyScene)
    /\ <<>> \in Groups(EmptyScene)
    /\ References(EmptyScene, "source") = {}
    /\ References(EmptyScene, "scene") = {}
<1>1. "group" \in Kinds /\ <<>> \in Identifiers
  BY EmptyPath DEF Kinds, Identifiers
<1> DEFINE t == Leaf("group", <<>>)
<1>2. Good(t) /\ DOMAIN t = {<<>>} /\ t[<<>>].kind = "group"
  BY <1>1, LeafFacts
<1>3. \A k : k # "group" => References(t, k) = {}
  BY <1>1, LeafRefers
<1> HIDE DEF t
<1>4. <<>> \in Groups(t)
  BY <1>2 DEF Groups
<1>5. References(t, "source") = {} /\ References(t, "scene") = {}
  BY <1>3
<1> QED BY <1>2, <1>4, <1>5 DEF EmptyScene, EmptyGroup, t

-----------------------------------------------------------------------------
(* Other sources *)

LEMMA SourcesChanged ==
    ASSUME NEW d, Sound(d), NEW sources, DOMAIN sources \subseteq Identifiers,
           sources \in [DOMAIN sources -> Seq(Filters)],
           \A c \in DOMAIN sources : Distinct(sources[c]),
           \A s \in Scenes(d) : References(d.scenes[s], "source") \subseteq DOMAIN sources
    PROVE  Sound([d EXCEPT !.sources = sources])
<1> DEFINE e == [d EXCEPT !.sources = sources]
<1>1. d = [sources |-> d.sources, scenes |-> d.scenes, order |-> d.order]
  BY DEF Sound, IsProfile
<1>2. e = [sources |-> sources, scenes |-> d.scenes, order |-> d.order]
  BY <1>1
<1>3. e.sources = sources /\ e.scenes = d.scenes /\ e.order = d.order
  BY <1>2
<1> HIDE DEF e
<1>4. Scenes(e) = Scenes(d)
  BY <1>3 DEF Scenes
<1>5. IsProfile(e)
  <2>1. e = [sources |-> e.sources, scenes |-> e.scenes, order |-> e.order]
    BY <1>2, <1>3
  <2>2. /\ \A r \in Scenes(d) : IsTree(d.scenes[r]) /\ <<>> \in Groups(d.scenes[r])
        /\ Scenes(d) \subseteq Identifiers
        /\ d.scenes = [r \in Scenes(d) |-> d.scenes[r]]
        /\ d.order \in Seq(Identifiers)
    BY DEF Sound, IsProfile
  <2> QED BY <1>3, <1>4, <2>1, <2>2 DEF IsProfile
<1>6. \A s \in Scenes(e) : Good(e.scenes[s])
  BY <1>3, <1>4 DEF Sound
<1>7. ReferencesHold(e)
  BY <1>3, <1>4 DEF Sound, ReferencesHold, SceneRefers
<1>8. NoCircle(e)
  BY <1>3, <1>4 DEF Sound, NoCircle, Reaches, SceneRefers
<1>9. OrderHolds(e)
  BY <1>3, <1>4 DEF Sound, OrderHolds
<1>10. ChainsHold(e)
  BY <1>3 DEF ChainsHold
<1> QED BY <1>5, <1>6, <1>7, <1>8, <1>9, <1>10 DEF Sound, e

LEMMA SourceRemoved ==
    ASSUME NEW d, Sound(d), NEW source, ~SourceInUse(d, source)
    PROVE  Sound(RemoveSource(d, source).doc)
<1>1. CASE source \in DOMAIN d.sources
  <2> DEFINE sources == [s \in DOMAIN d.sources \ {source} |-> d.sources[s]]
  <2>1. RemoveSource(d, source).doc = [d EXCEPT !.sources = sources]
    BY <1>1 DEF RemoveSource, Accepted
  <2>2. /\ DOMAIN sources = DOMAIN d.sources \ {source}
        /\ DOMAIN sources \subseteq Identifiers
        /\ sources \in [DOMAIN sources -> Seq(Filters)]
        /\ \A c \in DOMAIN sources : Distinct(sources[c])
    <3>1. \A s \in DOMAIN d.sources : /\ s \in Identifiers /\ d.sources[s] \in Seq(Filters)
                                     /\ Distinct(d.sources[s])
      BY ProfileFacts DEF Sound, ChainsHold
    <3> QED BY <3>1
  <2>3. \A s \in Scenes(d) : References(d.scenes[s], "source") \subseteq DOMAIN d.sources \ {source}
    BY DEF Sound, ReferencesHold, SourceInUse
  <2> HIDE DEF sources
  <2>4. Sound([d EXCEPT !.sources = sources])
    BY <2>2, <2>3, SourcesChanged
  <2> QED BY <2>1, <2>4
<1>2. CASE source \notin DOMAIN d.sources
  BY <1>2 DEF RemoveSource, Refused
<1> QED BY <1>1, <1>2

LEMMA FiltersChanged ==
    ASSUME NEW d, Sound(d), NEW source \in DOMAIN d.sources, NEW filters \in Seq(Filters),
           Distinct(filters)
    PROVE  Sound(WithFilters(d, source, filters))
<1> DEFINE sources == [d.sources EXCEPT ![source] = filters]
<1>1. WithFilters(d, source, filters) = [d EXCEPT !.sources = sources]
  BY DEF WithFilters
<1>2. /\ DOMAIN sources = DOMAIN d.sources
      /\ DOMAIN sources \subseteq Identifiers
      /\ sources \in [DOMAIN sources -> Seq(Filters)]
      /\ \A c \in DOMAIN sources : Distinct(sources[c])
  <2>1. /\ DOMAIN d.sources \subseteq Identifiers
        /\ d.sources \in [DOMAIN d.sources -> Seq(Filters)]
        /\ \A c \in DOMAIN d.sources : Distinct(d.sources[c])
    BY DEF Sound, IsProfile, ChainsHold
  <2> QED BY <2>1
<1>3. \A s \in Scenes(d) : References(d.scenes[s], "source") \subseteq DOMAIN d.sources
  BY DEF Sound, ReferencesHold
<1> HIDE DEF sources
<1>4. Sound([d EXCEPT !.sources = sources])
  BY <1>2, <1>3, SourcesChanged
<1> QED BY <1>1, <1>4

-----------------------------------------------------------------------------
(* Copies *)

(* What copy_identity returns is new. *)
LEMMA CopyFacts ==
    ASSUME NEW id \in Identifiers, NEW taken, CanCopy(id, taken)
    PROVE  CopyOf(id, taken) \in Identifiers /\ CopyOf(id, taken) \notin taken
<1> DEFINE Free(n) == /\ Append(id, n) \notin taken
                      /\ \A k \in 1..(n - 1) : Append(id, k) \in taken
           T == {n \in 1..MaxCopies : Append(id, n) \notin taken}
           m == CHOOSE n \in 1..MaxCopies : Free(n)
<1>1. T \subseteq Nat /\ T # {}
  <2>1. PICK c \in Copies(id) : c \notin taken
    BY DEF CanCopy
  <2>2. PICK n \in 1..MaxCopies : c = Append(id, n)
    BY <2>1 DEF Copies
  <2>3. n \in T
    BY <2>1, <2>2
  <2>4. T \subseteq Nat
    BY MaxCopiesAssumption
  <2> QED BY <2>3, <2>4
<1>2. PICK x \in T : \A y \in T : x <= y
  <2> HIDE DEF T
  <2> QED BY <1>1, LeastNumber
<1>3. x \in 1..MaxCopies /\ Free(x)
  <2>1. x \in 1..MaxCopies /\ Append(id, x) \notin taken
    BY <1>2
  <2>2. ASSUME NEW k \in 1..(x - 1) PROVE Append(id, k) \in taken
    <3>1. k \in 1..MaxCopies /\ ~(x <= k)
      BY <2>1, MaxCopiesAssumption
    <3>2. k \notin T
      BY <1>2, <3>1
    <3> QED BY <3>1, <3>2
  <2> QED BY <2>1, <2>2
<1>4. m \in 1..MaxCopies /\ Free(m)
  <2> HIDE DEF Free
  <2> QED BY <1>3, Zenon
<1>5. Append(id, m) \notin taken
  BY <1>4
<1>6. CopyOf(id, taken) = Append(id, m)
  BY DEF CopyOf
<1> HIDE DEF m
<1>7. Append(id, m) \in Identifiers
  <2>1. id \in Seq(Names \cup 1..MaxCopies) /\ m \in Names \cup 1..MaxCopies
    BY <1>4 DEF Identifiers
  <2> QED BY <2>1, AppendProperties DEF Identifiers
<1> QED BY <1>5, <1>6, <1>7

LEMMA WithRef ==
    ASSUME NEW n \in Nodes, NEW x \in Identifiers
    PROVE  /\ [n EXCEPT !.ref = x] \in Nodes
           /\ [n EXCEPT !.ref = x].ref = x
           /\ [n EXCEPT !.ref = x].kids = n.kids
           /\ [n EXCEPT !.ref = x].kind = n.kind
           /\ [n EXCEPT !.ref = x].locked = n.locked
  BY DEF Nodes

LEMMA SourceCopiesFacts ==
    ASSUME NEW d, NEW item, IsTree(item), CanCopySources(d, item)
    PROVE  /\ DOMAIN SourceCopies(d, item) = References(item, "source")
           /\ \A s \in References(item, "source") :
                 /\ s \in Identifiers
                 /\ SourceCopies(d, item)[s] \in Identifiers
                 /\ SourceCopies(d, item)[s] \notin DOMAIN d.sources
<1>1. \A s \in References(item, "source") : s \in Identifiers
  BY TreeFacts DEF References, Leaves
<1>2. \A s \in References(item, "source") : CanCopy(s, DOMAIN d.sources)
  BY DEF CanCopySources
<1>3. \A s \in References(item, "source") :
         /\ CopyOf(s, DOMAIN d.sources) \in Identifiers
         /\ CopyOf(s, DOMAIN d.sources) \notin DOMAIN d.sources
  BY <1>1, <1>2, CopyFacts
<1> QED BY <1>1, <1>3 DEF SourceCopies

(* duplicate_item_sources: the profile gains a copy of every source, ... *)
LEMMA SourcesCopied ==
    ASSUME NEW d, Sound(d), NEW item, IsTree(item), CanCopySources(d, item),
           References(item, "source") \subseteq DOMAIN d.sources
    PROVE  /\ Sound(WithCopiedSources(d, item))
           /\ WithCopiedSources(d, item).scenes = d.scenes
           /\ WithCopiedSources(d, item).order = d.order
           /\ \A s \in References(item, "source") :
                 SourceCopies(d, item)[s] \in DOMAIN WithCopiedSources(d, item).sources
           /\ \A s \in DOMAIN d.sources : s \in DOMAIN WithCopiedSources(d, item).sources
<1> DEFINE copy == SourceCopies(d, item)
           Of(c) == CHOOSE s \in DOMAIN copy : copy[s] = c
           C == {copy[s] : s \in DOMAIN copy}
           new == [c \in C |-> d.sources[Of(c)]]
<1>1. /\ DOMAIN copy = References(item, "source")
      /\ \A s \in DOMAIN copy : copy[s] \in Identifiers
  BY SourceCopiesFacts
<1>2. WithCopiedSources(d, item) = WithSources(d, new)
  BY DEF WithCopiedSources
<1> HIDE DEF copy
<1>3. \A c \in C : Of(c) \in DOMAIN copy
  BY Zenon
<1> HIDE DEF Of
<1>4. \A s \in DOMAIN d.sources : d.sources[s] \in Seq(Filters) /\ Distinct(d.sources[s])
  BY ProfileFacts DEF Sound, ChainsHold
<1>5. DOMAIN new = C /\ C \subseteq Identifiers
  BY <1>1
<1>6. new \in [DOMAIN new -> Seq(Filters)] /\ \A c \in DOMAIN new : Distinct(new[c])
  <2>1. \A c \in C : d.sources[Of(c)] \in Seq(Filters) /\ Distinct(d.sources[Of(c)])
    BY <1>1, <1>3, <1>4
  <2> QED BY <2>1
<1>7. \A s \in References(item, "source") : copy[s] \in DOMAIN new
  BY <1>1
<1>8. DOMAIN new \subseteq Identifiers
  BY <1>5
<1> HIDE DEF new, C
<1>9. Sound(WithSources(d, new))
  BY <1>6, <1>8, SourcesAdded
<1>10. /\ WithSources(d, new).scenes = d.scenes
       /\ WithSources(d, new).order = d.order
       /\ \A s : s \in DOMAIN WithSources(d, new).sources
                    <=> s \in DOMAIN d.sources \/ s \in DOMAIN new
  BY <1>6, <1>8, WithSourcesFacts DEF Sound
<1> QED BY <1>2, <1>7, <1>9, <1>10 DEF copy

(* ... and the item refers to the copies. *)
LEMMA OnCopiesFacts ==
    ASSUME NEW d, NEW item, Good(item), CanCopySources(d, item)
    PROVE  /\ Good(OnCopiedSources(d, item))
           /\ \A x \in References(OnCopiedSources(d, item), "source") :
                 \E s \in References(item, "source") : x = SourceCopies(d, item)[s]
           /\ References(OnCopiedSources(d, item), "scene") \subseteq References(item, "scene")
           /\ <<>> \in Groups(item) => <<>> \in Groups(OnCopiedSources(d, item))
<1> DEFINE u == OnCopiedSources(d, item)
           copy == SourceCopies(d, item)
<1>0. IsTree(item)
  BY DEF Good
<1>1. \A s \in References(item, "source") : copy[s] \in Identifiers
  BY <1>0, SourceCopiesFacts
<1>2. \A q \in DOMAIN item : item[q] \in Nodes
  BY <1>0, TreeFacts
<1>3. DOMAIN u = DOMAIN item
  BY DEF OnCopiedSources
<1>4. ASSUME NEW q \in DOMAIN item
      PROVE  /\ u[q] \in Nodes
             /\ u[q].kids = item[q].kids
             /\ u[q].kind = item[q].kind
             /\ u[q].kind # "source" => u[q].ref = item[q].ref
             /\ u[q].kind = "source" =>
                   item[q].ref \in References(item, "source") /\ u[q].ref = copy[item[q].ref]
  <2>1. u[q] = IF item[q].kind = "source"
               THEN [item[q] EXCEPT !.ref = copy[item[q].ref]] ELSE item[q]
    BY DEF OnCopiedSources
  <2> HIDE DEF u, copy
  <2>2. CASE item[q].kind = "source"
    <3>1. item[q].ref \in References(item, "source")
      BY <2>2, Refers
    <3> DEFINE x == copy[item[q].ref]
    <3>2. x \in Identifiers
      BY <1>1, <3>1
    <3>3. u[q] = [item[q] EXCEPT !.ref = x]
      BY <2>1, <2>2
    <3>5. x = copy[item[q].ref]
      OBVIOUS
    <3> HIDE DEF x
    <3>4. /\ u[q] \in Nodes
          /\ u[q].ref = x
          /\ u[q].kids = item[q].kids
          /\ u[q].kind = item[q].kind
      BY <1>2, <3>2, <3>3, WithRef
    <3> QED BY <2>2, <3>1, <3>4, <3>5
  <2>3. CASE item[q].kind # "source"
    BY <1>2, <2>1, <2>3
  <2> QED BY <2>2, <2>3
<1>5. u = [q \in DOMAIN u |-> u[q]]
  BY DEF OnCopiedSources
<1> HIDE DEF u, copy
<1>6. IsTree(u)
  <2>1. u \in [DOMAIN u -> Nodes]
    BY <1>3, <1>4, <1>5
  <2> QED BY <1>0, <1>3, <2>1 DEF IsTree
<1>7. Kin(u)
  <2>1. Groups(u) = Groups(item) /\ ItemPaths(u) = ItemPaths(item)
    BY <1>3, <1>4 DEF Groups, ItemPaths
  <2> QED BY <1>3, <1>4, <2>1 DEF Good, Kin
<1>8. Good(u)
  BY <1>6, <1>7 DEF Good
<1>9. \A x \in References(u, "source") :
         \E s \in References(item, "source") : x = copy[s]
  BY <1>3, <1>4 DEF References, Leaves
<1>10. References(u, "scene") \subseteq References(item, "scene")
  <2>1. \A q \in DOMAIN u : u[q].kind = "scene" => u[q].ref \in References(item, "scene")
    BY <1>3, <1>4, Refers
  <2> QED BY <2>1, RefersWithin
<1>11. <<>> \in Groups(item) => <<>> \in Groups(u)
  BY <1>3, <1>4 DEF Groups
<1> QED BY <1>8, <1>9, <1>10, <1>11 DEF u, copy

-----------------------------------------------------------------------------
(* Targets *)

(* A walk of m steps from a, where the n-th step is a function of where the walk
   stands. *)

Walks(m, S, a, step) ==
    {g \in [0..m -> S] : g[0] = a /\ \A n \in 1..m : g[n] = step[n][g[n - 1]]}

LEMMA WalkExists ==
    ASSUME NEW m \in Nat, NEW S, NEW a \in S,
           NEW step \in [1..m -> [S -> S]]
    PROVE  Walks(m, S, a, step) # {}
<1> DEFINE UpTo(k) == {g \in [0..k -> S] : g[0] = a /\ \A n \in 1..k : g[n] = step[n][g[n - 1]]}
           N == {k \in 0..m : UpTo(k) # {}}
<1>1. 0 \in N
  <2>1. [n \in 0..0 |-> a] \in UpTo(0)
    OBVIOUS
  <2> QED BY <2>1
<1>2. ASSUME NEW k \in 0..(m - 1), k \in N PROVE k + 1 \in N
  <2>1. PICK f \in UpTo(k) : TRUE
    BY <1>2
  <2>2. f \in [0..k -> S] /\ f[0] = a /\ \A n \in 1..k : f[n] = step[n][f[n - 1]]
    BY <2>1
  <2> DEFINE x == step[k + 1][f[k]]
             h == [n \in 0..(k + 1) |-> IF n <= k THEN f[n] ELSE x]
  <2>3. x \in S
    <3>1. f[k] \in S /\ k + 1 \in 1..m
      BY <2>2
    <3> QED BY <3>1
  <2>4. x = step[k + 1][f[k]]
    OBVIOUS
  <2> HIDE DEF x
  <2>5. h \in [0..(k + 1) -> S] /\ h[0] = a
    BY <2>2, <2>3
  <2>6. \A n \in 1..(k + 1) : h[n] = step[n][h[n - 1]]
    <3>1. TAKE n \in 1..(k + 1)
    <3>2. CASE n <= k
      <4>1. h[n] = f[n] /\ h[n - 1] = f[n - 1] /\ n \in 1..k
        BY <3>2
      <4> QED BY <2>2, <4>1
    <3>3. CASE n = k + 1
      <4>1. h[n] = x /\ h[n - 1] = f[k]
        BY <3>3
      <4> QED BY <3>3, <4>1, <2>4
    <3> QED BY <3>2, <3>3
  <2> HIDE DEF h
  <2>7. h \in UpTo(k + 1)
    BY <2>5, <2>6
  <2> QED BY <2>7
<1>3. \A k \in 0..m : k \in N
  <2> HIDE DEF N
  <2> QED BY <1>1, <1>2, InductionUpTo
<1>4. UpTo(m) # {}
  BY <1>3
<1> QED BY <1>4 DEF Walks

(* Where a walk through groups and scene references may stand. *)
Positions(d) ==
    {at \in [ok : BOOLEAN, scene : Scenes(d), path : Path, locked : BOOLEAN] :
        at.path \in Groups(d.scenes[at.scene])}

LEMMA StepIntoPosition ==
    ASSUME NEW d, Sound(d), NEW at \in Positions(d), NEW id \in Identifiers
    PROVE  StepInto(d, at, id) \in Positions(d)
<1> DEFINE t == d.scenes[at.scene]
           next == Child(at.path, id)
           e == StepInto(d, at, id)
<1>1. /\ at \in [ok : BOOLEAN, scene : Scenes(d), path : Path, locked : BOOLEAN]
      /\ at.ok \in BOOLEAN /\ at.scene \in Scenes(d) /\ at.path \in Path
      /\ at.locked \in BOOLEAN /\ at.path \in Groups(t)
  BY DEF Positions
<1>2. Good(t) /\ IsTree(t)
  BY <1>1, SceneFacts DEF Good
<1>3. e = IF ~at.ok \/ next \notin DOMAIN t THEN [at EXCEPT !.ok = FALSE]
          ELSE CASE t[next].kind = "group" ->
                       [ok |-> TRUE, scene |-> at.scene, path |-> next,
                        locked |-> at.locked \/ t[next].locked]
                 [] t[next].kind = "scene" ->
                       [ok |-> TRUE, scene |-> t[next].ref, path |-> <<>>,
                        locked |-> at.locked \/ t[next].locked]
                 [] OTHER ->
                       [ok |-> FALSE, scene |-> at.scene, path |-> at.path,
                        locked |-> at.locked \/ t[next].locked]
  BY Zenon DEF StepInto, Child
<1>4. References(t, "scene") \subseteq Scenes(d)
  BY <1>1, SceneFacts
<1> HIDE DEF e
<1>5. CASE ~at.ok \/ next \notin DOMAIN t
  <2>1. e = [at EXCEPT !.ok = FALSE]
    BY <1>3, <1>5
  <2>2. /\ e \in [ok : BOOLEAN, scene : Scenes(d), path : Path, locked : BOOLEAN]
        /\ e.scene = at.scene /\ e.path = at.path
    BY <1>1, <2>1
  <2>3. e.path \in Groups(d.scenes[e.scene])
    BY <1>1, <2>2
  <2> QED BY <2>2, <2>3 DEF Positions, e
<1>6. CASE at.ok /\ next \in DOMAIN t
  <2>1. t[next] \in Nodes /\ next \in Path
    BY <1>2, <1>6, TreeFacts
  <2> DEFINE locked == at.locked \/ t[next].locked
  <2>2. locked \in BOOLEAN
    OBVIOUS
  <2>3. CASE t[next].kind = "group"
    <3>1. e = [ok |-> TRUE, scene |-> at.scene, path |-> next, locked |-> locked]
      BY <1>3, <1>6, <2>3
    <3>2. next \in Groups(t)
      BY <1>6, <2>3 DEF Groups
    <3> HIDE DEF locked, next
    <3>3. /\ e \in [ok : BOOLEAN, scene : Scenes(d), path : Path, locked : BOOLEAN]
          /\ e.scene = at.scene /\ e.path = next
      BY <1>1, <2>1, <2>2, <3>1
    <3>4. e.path \in Groups(d.scenes[e.scene])
      BY <3>2, <3>3
    <3> QED BY <3>3, <3>4 DEF Positions, e
  <2>4. CASE t[next].kind = "scene"
    <3>1. e = [ok |-> TRUE, scene |-> t[next].ref, path |-> <<>>, locked |-> locked]
      BY <1>3, <1>6, <2>4
    <3> DEFINE r == t[next].ref
    <3>2. r \in Scenes(d)
      <4>1. r \in References(t, "scene")
        BY <1>6, <2>4, Refers
      <4> QED BY <1>4, <4>1
    <3>3. <<>> \in Groups(d.scenes[r])
      BY <3>2, SceneFacts
    <3> HIDE DEF locked, r
    <3>4. /\ e \in [ok : BOOLEAN, scene : Scenes(d), path : Path, locked : BOOLEAN]
          /\ e.scene = r /\ e.path = <<>>
      BY <2>2, <3>1, <3>2, EmptyIsPath DEF r
    <3>5. e.path \in Groups(d.scenes[e.scene])
      BY <3>3, <3>4
    <3> QED BY <3>4, <3>5 DEF Positions, e
  <2>5. CASE t[next].kind \notin {"group", "scene"}
    <3>1. e = [ok |-> FALSE, scene |-> at.scene, path |-> at.path, locked |-> locked]
      BY <1>3, <1>6, <2>5
    <3> HIDE DEF locked
    <3>2. /\ e \in [ok : BOOLEAN, scene : Scenes(d), path : Path, locked : BOOLEAN]
          /\ e.scene = at.scene /\ e.path = at.path
      BY <1>1, <2>2, <3>1
    <3>3. e.path \in Groups(d.scenes[e.scene])
      BY <1>1, <3>2
    <3> QED BY <3>2, <3>3 DEF Positions, e
  <2> QED BY <2>3, <2>4, <2>5
<1> QED BY <1>1, <1>5, <1>6

AtRoot(s) == [ok |-> TRUE, scene |-> s, path |-> <<>>, locked |-> FALSE]

(* resolve_flattened_parent goes from position to position. *)
LEMMA ParentByWalk ==
    ASSUME NEW d, Sound(d), NEW s \in Scenes(d), NEW target \in Path
    PROVE  \E g \in [0..Len(target) -> Positions(d)] :
              /\ g[0] = AtRoot(s)
              /\ \A n \in 1..Len(target) : g[n] = StepInto(d, g[n - 1], target[n])
              /\ ResolveParent(d, s, target) = g[Len(target)]
<1> DEFINE m == Len(target)
           Solves(g) == g = [n \in 0..m |-> IF n = 0 THEN AtRoot(s)
                                            ELSE StepInto(d, g[n - 1], target[n])]
           f == CHOOSE g : Solves(g)
           step == [n \in 1..m |-> [at \in Positions(d) |-> StepInto(d, at, target[n])]]
<1>1. m \in Nat /\ \A n \in 1..m : target[n] \in Identifiers
  BY ListFacts DEF Path
<1>2. ResolveParent(d, s, target) = f[m]
  BY DEF ResolveParent, AtRoot
<1>3. AtRoot(s) \in Positions(d)
  <2>1. <<>> \in Groups(d.scenes[s]) /\ <<>> \in Path
    BY SceneFacts, EmptyIsPath
  <2>2. /\ AtRoot(s) \in [ok : BOOLEAN, scene : Scenes(d), path : Path, locked : BOOLEAN]
        /\ AtRoot(s).scene = s /\ AtRoot(s).path = <<>>
    BY <2>1 DEF AtRoot
  <2> QED BY <2>1, <2>2 DEF Positions
<1>4. \A n \in 1..m : step[n] \in [Positions(d) -> Positions(d)]
  <2>1. TAKE n \in 1..m
  <2>2. \A at \in Positions(d) : StepInto(d, at, target[n]) \in Positions(d)
    BY <1>1, StepIntoPosition
  <2> QED BY <2>2
<1>5. \A n \in 1..m : \A at \in Positions(d) : step[n][at] = StepInto(d, at, target[n])
  OBVIOUS
<1>6. PICK h \in [0..m -> Positions(d)] :
         h[0] = AtRoot(s) /\ \A n \in 1..m : h[n] = step[n][h[n - 1]]
  <2> DEFINE S == Positions(d)
             a == AtRoot(s)
  <2>1. m \in Nat /\ a \in S /\ step \in [1..m -> [S -> S]]
    BY <1>1, <1>3, <1>4
  <2> HIDE DEF step, m, S, a
  <2>2. Walks(m, S, a, step) # {}
    BY <2>1, WalkExists
  <2> QED BY <2>2 DEF S, a, Walks
<1> HIDE DEF step
<1>7. \A n \in 1..m : h[n] = StepInto(d, h[n - 1], target[n])
  <2>1. TAKE n \in 1..m
  <2>2. h[n - 1] \in Positions(d)
    <3>1. n - 1 \in 0..m
      BY <1>1
    <3> QED BY <1>6, <3>1
  <2> QED BY <1>5, <1>6, <2>2
<1>8. Solves(h)
  <2>1. \A n \in 0..m : n # 0 => n \in 1..m
    BY <1>1
  <2>2. h = [n \in 0..m |-> h[n]]
    BY <1>6
  <2> HIDE DEF m
  <2> QED BY <1>6, <1>7, <2>1, <2>2
<1>9. Solves(f)
  <2> HIDE DEF Solves
  <2> QED BY <1>8, Zenon
<1> HIDE DEF f
<1>10. \A n \in 0..m : f[n] = h[n]
  <2> DEFINE N == {n \in 0..m : f[n] = h[n]}
  <2>1. f[0] = AtRoot(s) /\ \A n \in 1..m : f[n] = StepInto(d, f[n - 1], target[n])
    <3>1. f[0] = AtRoot(s)
      <4>1. 0 \in 0..m
        BY <1>1
      <4> QED BY <1>9, <4>1, Zenon
    <3>2. ASSUME NEW n \in 1..m PROVE f[n] = StepInto(d, f[n - 1], target[n])
      <4>1. n \in 0..m /\ n # 0
        BY <1>1
      <4>2. f[n] = IF n = 0 THEN AtRoot(s) ELSE StepInto(d, f[n - 1], target[n])
        BY <1>9, <4>1, Zenon
      <4> QED BY <4>1, <4>2
    <3> QED BY <3>1, <3>2
  <2>2. 0 \in N
    BY <1>1, <1>6, <2>1
  <2>3. ASSUME NEW n \in 0..(m - 1), n \in N PROVE n + 1 \in N
    <3>1. n + 1 \in 1..m /\ n + 1 \in 0..m /\ (n + 1) - 1 = n /\ f[n] = h[n]
      BY <1>1, <2>3
    <3>2. /\ f[n + 1] = StepInto(d, f[(n + 1) - 1], target[n + 1])
          /\ h[n + 1] = StepInto(d, h[(n + 1) - 1], target[n + 1])
      BY <1>7, <2>1, <3>1, Zenon
    <3>3. f[n + 1] = h[n + 1]
      BY <3>1, <3>2
    <3> QED BY <3>1, <3>3
  <2>4. \A n \in 0..m : n \in N
    <3> HIDE DEF N, m
    <3> QED BY <1>1, <2>2, <2>3, InductionUpTo
  <2> QED BY <2>4
<1>11. ResolveParent(d, s, target) = h[m]
  BY <1>1, <1>2, <1>10
<1> QED BY <1>6, <1>7, <1>11

LEMMA ParentFound ==
    ASSUME NEW d, Sound(d), NEW s \in Scenes(d), NEW target \in Path
    PROVE  /\ ResolveParent(d, s, target).ok \in BOOLEAN
           /\ ResolveParent(d, s, target).scene \in Scenes(d)
           /\ ResolveParent(d, s, target).path \in Path
           /\ ResolveParent(d, s, target).path
                 \in Groups(d.scenes[ResolveParent(d, s, target).scene])
<1>1. Len(target) \in Nat
  BY ListFacts DEF Path
<1>2. ResolveParent(d, s, target) \in Positions(d)
  BY <1>1, ParentByWalk
<1> QED BY <1>2 DEF Positions

LEMMA TargetFound ==
    ASSUME NEW d, Sound(d), NEW s \in Scenes(d), NEW target \in Path, target # <<>>,
           Resolve(d, s, target).ok
    PROVE  /\ Resolve(d, s, target).scene \in Scenes(d)
           /\ Resolve(d, s, target).path \in ItemPaths(d.scenes[Resolve(d, s, target).scene])
           /\ Resolve(d, s, target).path \in DOMAIN d.scenes[Resolve(d, s, target).scene]
           /\ Resolve(d, s, target).path # <<>>
           /\ Last(Resolve(d, s, target).path) = Last(target)
<1> DEFINE at == ResolveParent(d, s, Front(target))
           e == Resolve(d, s, target)
<1>1. Front(target) \in Path /\ Last(target) \in Identifiers
  BY PathSplits
<1>2. at.scene \in Scenes(d) /\ at.path \in Path
  BY <1>1, ParentFound
<1>3. /\ e.scene = at.scene
      /\ e.path = Child(at.path, Last(target))
      /\ e.path \in DOMAIN d.scenes[at.scene]
  BY DEF Resolve, Child
<1> HIDE DEF e, at
<1>4. e.path # <<>> /\ Last(e.path) = Last(target)
  BY <1>1, <1>2, <1>3, ChildOfPath
<1> QED BY <1>2, <1>3, <1>4 DEF ItemPaths, e

LEMMA TargetsArePaths ==
    ASSUME NEW d, Sound(d), NEW s \in Scenes(d), NEW target \in Targets(d, s)
    PROVE  target \in Path /\ target # <<>>
<1>1. \A r \in Scenes(d) : \A p \in DOMAIN d.scenes[r] : p \in Path
  BY TreeFacts, SceneFacts DEF Good
<1>2. CASE target \in ItemPaths(d.scenes[s])
  BY <1>1, <1>2 DEF ItemPaths
<1>3. CASE \E p \in Leaves(d.scenes[s], "scene") :
              \E q \in ItemPaths(d.scenes[d.scenes[s][p].ref]) : target = p \o q
  <2>1. PICK p \in Leaves(d.scenes[s], "scene") :
              \E q \in ItemPaths(d.scenes[d.scenes[s][p].ref]) : target = p \o q
    BY <1>3
  <2>2. p \in DOMAIN d.scenes[s] /\ d.scenes[s][p].kind = "scene"
    BY DEF Leaves
  <2>3. d.scenes[s][p].ref \in Scenes(d)
    BY <2>2, SceneFacts, Refers
  <2>4. PICK q \in ItemPaths(d.scenes[d.scenes[s][p].ref]) : target = Join(p, q)
    BY <2>1 DEF Join
  <2>5. p \in Path /\ q \in Path /\ q # <<>>
    BY <1>1, <2>2, <2>3 DEF ItemPaths
  <2> QED BY <2>4, <2>5, JoinOfPaths, OnlyTheRootIsEmpty
<1> QED BY <1>2, <1>3 DEF Targets

-----------------------------------------------------------------------------
(* Scenes whose items change *)

LEMMA Answers ==
    ASSUME NEW d
    PROVE  /\ Accepted(d).doc = d /\ Accepted(d).ok = TRUE
           /\ Refused(d).doc = d /\ Refused(d).ok = FALSE
  BY DEF Accepted, Refused

(* A scene that refers to nothing it did not refer to. *)
LEMMA SceneRearranged ==
    ASSUME NEW d, Sound(d), NEW s \in Scenes(d), NEW t, Good(t), <<>> \in Groups(t),
           \A x \in References(t, "source") : x \in References(d.scenes[s], "source"),
           \A x \in References(t, "scene") : x \in References(d.scenes[s], "scene")
    PROVE  Sound(WithScene(d, s, t))
<1>1. References(t, "source") \subseteq DOMAIN d.sources
  BY SceneFacts
<1>2. \A x \in References(t, "scene") : TargetIsValid(d, s, x)
  <2>1. \A x \in References(t, "scene") : x \in SceneRefers(d, s)
    BY SceneFacts
  <2> QED BY <2>1, OwnTargetsAreValid
<1> QED BY <1>1, <1>2, SceneChanged

LEMMA ItemAdded ==
    ASSUME NEW d, Sound(d), NEW s \in Scenes(d), NEW parent \in Groups(d.scenes[s]),
           NEW id \in Identifiers, id \notin ToSet(d.scenes[s][parent].kids),
           NEW index \in 0..Len(d.scenes[s][parent].kids),
           NEW item, Good(item),
           \A x \in References(item, "source") : x \in DOMAIN d.sources,
           \A x \in References(item, "scene") : TargetIsValid(d, s, x)
    PROVE  Sound(WithScene(d, s, Attached(d.scenes[s], parent, id, index, item)))
<1> DEFINE t == d.scenes[s]
           u == Attached(t, parent, id, index, item)
<1>1. Good(t) /\ parent \in DOMAIN t /\ <<>> \in Groups(t)
  BY SceneFacts DEF Groups
<1>2. Good(u)
  BY <1>1, AttachedIsGood
<1>3. <<>> \in Groups(u)
  BY <1>1, AttachedRoot
<1>4. \A k : References(u, k) \subseteq References(t, k) \cup References(item, k)
  BY <1>1, AttachedRefers
<1>5. References(t, "source") \subseteq DOMAIN d.sources
  BY SceneFacts
<1>6. \A x \in References(t, "scene") : TargetIsValid(d, s, x)
  BY SceneFacts, OwnTargetsAreValid
<1> HIDE DEF t, u
<1>7. References(u, "source") \subseteq DOMAIN d.sources
  BY <1>4, <1>5
<1>8. \A x \in References(u, "scene") : TargetIsValid(d, s, x)
  BY <1>4, <1>6
<1>9. Sound(WithScene(d, s, u))
  BY <1>2, <1>3, <1>7, <1>8, SceneChanged
<1> QED BY <1>9 DEF u, t

(* An item at the end of a list. *)
LEMMA ItemAppended ==
    ASSUME NEW d, Sound(d), NEW s \in Scenes(d), NEW parent \in Groups(d.scenes[s]),
           NEW id \in Identifiers, ~HasChild(d.scenes[s], parent, id),
           NEW item, Good(item),
           \A x \in References(item, "source") : x \in DOMAIN d.sources,
           \A x \in References(item, "scene") : TargetIsValid(d, s, x)
    PROVE  Sound(WithScene(d, s, Appended(d.scenes[s], parent, id, item)))
<1> DEFINE list == d.scenes[s][parent].kids
<1>1. list \in Seq(Identifiers)
  BY SceneFacts, KidsFacts DEF Groups
<1>2. id \notin ToSet(list)
  BY <1>1, ListFacts DEF HasChild
<1>3. Len(list) \in 0..Len(list)
  BY <1>1, ListFacts
<1> QED BY <1>2, <1>3, ItemAdded DEF Appended

LEMMA ItemsDetached ==
    ASSUME NEW d, Sound(d), NEW s \in Scenes(d), NEW roots \in SUBSET (Path \ {<<>>})
    PROVE  Sound(WithScene(d, s, Detached(d.scenes[s], roots)))
<1> DEFINE t == d.scenes[s]
           u == Detached(t, roots)
<1>1. Good(t) /\ <<>> \in Groups(t)
  BY SceneFacts
<1>2. Good(u) /\ <<>> \in Groups(u)
  BY <1>1, DetachedIsGood, DetachedRoot
<1>3. \A k : References(u, k) \subseteq References(t, k)
  BY <1>1, DetachedRefers
<1> HIDE DEF u
<1>4. Sound(WithScene(d, s, u))
  BY <1>2, <1>3, SceneRearranged
<1> QED BY <1>4 DEF u

(* A target stays valid as long as scenes refer to no more than before. *)
LEMMA TargetStaysValid ==
    ASSUME NEW d, Sound(d), NEW e, Scenes(e) = Scenes(d),
           \A r \in Scenes(d) : SceneRefers(e, r) \subseteq SceneRefers(d, r),
           NEW s \in Scenes(d), NEW x, TargetIsValid(d, s, x)
    PROVE  TargetIsValid(e, s, x)
<1>1. x \in Scenes(d) /\ s # x /\ ~Reaches(d, x, s)
  BY DEF TargetIsValid
<1>2. ~Reaches(e, x, s)
  BY <1>1, ReachesShrinks DEF Sound
<1> QED BY <1>1, <1>2 DEF TargetIsValid

-----------------------------------------------------------------------------
(* Commands on scenes *)

LEMMA AddSceneIsSound ==
    ASSUME NEW d, Sound(d), NEW s \in Identifiers
    PROVE  Sound(AddScene(d, s, EmptyScene).doc)
<1> DEFINE t == EmptyScene
           e == WithScene(d, s, t)
<1>1. CASE s \in Scenes(d) \/ ~ItemIsValid(d, s, t, 0)
  BY <1>1, Answers DEF AddScene
<1>2. CASE s \notin Scenes(d) /\ ItemIsValid(d, s, t, 0)
  <2>1. AddScene(d, s, t).doc = [e EXCEPT !.order = Append(e.order, s)]
    BY <1>2, Answers DEF AddScene
  <2>2. /\ Good(t) /\ <<>> \in Groups(t)
        /\ References(t, "source") \subseteq DOMAIN d.sources
        /\ References(t, "scene") \subseteq Scenes(d)
    BY EmptySceneFacts
  <2>3. Sound([e EXCEPT !.order = Append(e.order, s)])
    <3> HIDE DEF t
    <3> QED BY <1>2, <2>2, SceneAdded
  <2> QED BY <2>1, <2>3
<1> QED BY <1>1, <1>2

LEMMA RemoveSceneIsSound ==
    ASSUME NEW d, Sound(d), NEW s
    PROVE  Sound(RemoveScene(d, s).doc)
<1>1. CASE s \notin Scenes(d) \/ SceneInUse(d, s)
  BY <1>1, Answers DEF RemoveScene
<1>2. CASE s \in Scenes(d) /\ ~SceneInUse(d, s)
  BY <1>2, SceneRemoved
<1> QED BY <1>1, <1>2

LEMMA MoveSceneIsSound ==
    ASSUME NEW d, Sound(d), NEW s, NEW index \in Nat
    PROVE  Sound(MoveScene(d, s, index).doc)
<1>1. Len(d.order) \in Nat
  BY ProfileFacts, ListFacts DEF Sound
<1>2. CASE s \notin Scenes(d) \/ index >= Len(d.order)
  BY <1>2, Answers DEF MoveScene
<1>3. CASE s \in Scenes(d) /\ index < Len(d.order)
  <2>1. ~(index >= Len(d.order))
    BY <1>1, <1>3
  <2> DEFINE e == [d EXCEPT !.order = Moved(d.order, s, index)]
  <2>2. MoveScene(d, s, index) = Accepted(e)
    BY <1>3, <2>1 DEF MoveScene
  <2>3. Sound(e)
    BY <1>3, SceneMoved
  <2> HIDE DEF e
  <2> QED BY <2>2, <2>3, Answers
<1> QED BY <1>1, <1>2, <1>3

(* A scene's items are valid in a copy of it without a check. *)
LEMMA DuplicateSceneIsSound ==
    ASSUME NEW d, Sound(d), NEW s, NEW mode \in Modes
    PROVE  /\ Sound(DuplicateScene(d, s, mode).doc)
           /\ ~DuplicateScene(d, s, mode).ok => DuplicateScene(d, s, mode).doc = d
<1> DEFINE t == d.scenes[s]
           copy == CopyOf(s, Scenes(d))
           r == DuplicateScene(d, s, mode)
<1>1. CASE \/ s \notin Scenes(d)
           \/ ~CanCopy(s, Scenes(d))
           \/ mode = "DuplicateSource" /\ ~CanCopySources(d, t)
  <2>1. r = Refused(d)
    BY <1>1 DEF DuplicateScene
  <2> QED BY <2>1, Answers
<1>2. CASE /\ s \in Scenes(d)
           /\ CanCopy(s, Scenes(d))
           /\ mode = "DuplicateSource" => CanCopySources(d, t)
  <2> DEFINE copied == WithCopiedSources(d, t)
             u == OnCopiedSources(d, t)
             plain == WithScene(d, copy, t)
             deep == WithScene(copied, copy, u)
             done == IF mode = "Reference" THEN plain ELSE deep
  <2>1. s \in Identifiers /\ Good(t) /\ <<>> \in Groups(t)
    BY <1>2, SceneFacts
  <2>2. copy \in Identifiers /\ copy \notin Scenes(d)
    BY <1>2, <2>1, CopyFacts
  <2>3. r = Accepted([done EXCEPT !.order = Append(done.order, copy)])
    BY <1>2, <2>2 DEF DuplicateScene
  <2>4. CASE mode = "Reference"
    <3>1. /\ References(t, "source") \subseteq DOMAIN d.sources
          /\ References(t, "scene") \subseteq Scenes(d)
      BY <1>2, SceneFacts
    <3> HIDE DEF t, copy
    <3>2. Sound([plain EXCEPT !.order = Append(plain.order, copy)])
      BY <2>1, <2>2, <3>1, SceneAdded
    <3> QED BY <2>3, <2>4, <3>2, Answers
  <2>5. CASE mode = "DuplicateSource"
    <3>1. CanCopySources(d, t) /\ IsTree(t)
      BY <1>2, <2>1, <2>5 DEF Good
    <3>2. References(t, "source") \subseteq DOMAIN d.sources
      BY <1>2, SceneFacts
    <3>3. /\ Sound(copied) /\ copied.scenes = d.scenes
          /\ \A x \in References(t, "source") : SourceCopies(d, t)[x] \in DOMAIN copied.sources
      BY <3>1, <3>2, SourcesCopied
    <3>4. /\ Good(u) /\ <<>> \in Groups(u)
          /\ \A x \in References(u, "source") :
                \E y \in References(t, "source") : x = SourceCopies(d, t)[y]
          /\ References(u, "scene") \subseteq References(t, "scene")
      BY <2>1, <3>1, OnCopiesFacts
    <3>5. References(t, "scene") \subseteq Scenes(d)
      BY <1>2, SceneFacts
    <3> HIDE DEF t, copy, u, copied
    <3>6. Scenes(copied) = Scenes(d)
      BY <3>3 DEF Scenes
    <3>7. References(u, "source") \subseteq DOMAIN copied.sources
      BY <3>3, <3>4
    <3>8. References(u, "scene") \subseteq Scenes(copied)
      BY <3>4, <3>5, <3>6
    <3>9. Sound([deep EXCEPT !.order = Append(deep.order, copy)])
      BY <2>1, <2>2, <3>3, <3>4, <3>6, <3>7, <3>8, SceneAdded
    <3> QED BY <2>3, <2>5, <3>9, Answers
  <2> QED BY <2>4, <2>5 DEF Modes
<1> QED BY <1>1, <1>2

-----------------------------------------------------------------------------
(* Commands on sources *)

LEMMA NewSourcesFacts ==
    ASSUME NEW source \in Identifiers, NEW filters \in Seq(Filters), Distinct(filters)
    PROVE  /\ DOMAIN [c \in {source} |-> filters] \subseteq Identifiers
           /\ [c \in {source} |-> filters]
                 \in [DOMAIN [c \in {source} |-> filters] -> Seq(Filters)]
           /\ \A x \in DOMAIN [c \in {source} |-> filters] :
                 Distinct([c \in {source} |-> filters][x])
           /\ source \in DOMAIN [c \in {source} |-> filters]
  OBVIOUS

LEMMA AddSourceIsSound ==
    ASSUME NEW d, Sound(d), NEW s, NEW source \in Identifiers
    PROVE  Sound(AddSource(d, s, source).doc)
<1> DEFINE t == d.scenes[s]
           new == [c \in {source} |-> <<>>]
           e == WithSources(d, new)
           item == SourceItem(source)
<1>1. CASE \/ s \notin Scenes(d)
           \/ source \in DOMAIN d.sources
           \/ HasChild(t, <<>>, source)
  BY <1>1, Answers DEF AddSource
<1>2. CASE s \in Scenes(d) /\ source \notin DOMAIN d.sources /\ ~HasChild(t, <<>>, source)
  <2>1. AddSource(d, s, source).doc = WithScene(e, s, Appended(t, <<>>, source, item))
    BY <1>2, Answers DEF AddSource
  <2>2. /\ DOMAIN new \subseteq Identifiers
        /\ new \in [DOMAIN new -> Seq(Filters)]
        /\ \A c \in DOMAIN new : Distinct(new[c])
        /\ source \in DOMAIN new
    <3>1. <<>> \in Seq(Filters) /\ Distinct(<<>>)
      BY EmptyPath DEF Distinct
    <3> QED BY <3>1, NewSourcesFacts
  <2>3. /\ Good(item)
        /\ \A x \in References(item, "source") : x = source
        /\ \A x \in References(item, "scene") : FALSE
    <3>1. "source" \in Kinds
      BY DEF Kinds
    <3> QED BY <3>1, LeafFacts, LeafRefers DEF SourceItem
  <2> HIDE DEF new, item
  <2>4. /\ Sound(e) /\ e.scenes = d.scenes /\ Scenes(e) = Scenes(d)
        /\ source \in DOMAIN e.sources
    BY <2>2, SourcesAdded, WithSourcesFacts DEF Sound
  <2> HIDE DEF e
  <2>5. <<>> \in Groups(e.scenes[s]) /\ e.scenes[s] = t /\ s \in Scenes(e)
    BY <1>2, <2>4, SceneFacts
  <2>6. \A x \in References(item, "source") : x \in DOMAIN e.sources
    BY <2>3, <2>4
  <2>7. \A x \in References(item, "scene") : TargetIsValid(e, s, x)
    BY <2>3
  <2>8. Sound(WithScene(e, s, Appended(e.scenes[s], <<>>, source, item)))
    <3>1. ~HasChild(e.scenes[s], <<>>, source)
      BY <1>2, <2>5
    <3> QED BY <2>3, <2>4, <2>5, <2>6, <2>7, <3>1, ItemAppended
  <2> QED BY <2>1, <2>5, <2>8
<1> QED BY <1>1, <1>2

LEMMA DuplicateSourceIsSound ==
    ASSUME NEW d, Sound(d), NEW source
    PROVE  Sound(DuplicateSource(d, source).doc)
<1>1. CASE source \notin DOMAIN d.sources \/ ~CanCopy(source, DOMAIN d.sources)
  BY <1>1, Answers DEF DuplicateSource
<1>2. CASE source \in DOMAIN d.sources /\ CanCopy(source, DOMAIN d.sources)
  <2> DEFINE copy == CopyOf(source, DOMAIN d.sources)
             filters == d.sources[source]
             new == [c \in {copy} |-> filters]
  <2>1. source \in Identifiers /\ filters \in Seq(Filters) /\ Distinct(filters)
    BY <1>2, ProfileFacts DEF Sound, ChainsHold
  <2>2. copy \in Identifiers
    BY <1>2, <2>1, CopyFacts
  <2>3. DuplicateSource(d, source).doc = WithSources(d, new)
    BY <1>2, Answers DEF DuplicateSource
  <2> HIDE DEF copy, filters
  <2>4. /\ DOMAIN new \subseteq Identifiers /\ new \in [DOMAIN new -> Seq(Filters)]
        /\ \A c \in DOMAIN new : Distinct(new[c])
    BY <2>1, <2>2, NewSourcesFacts
  <2> HIDE DEF new
  <2>5. Sound(WithSources(d, new))
    BY <2>4, SourcesAdded
  <2> QED BY <2>3, <2>5
<1> QED BY <1>1, <1>2

LEMMA RemoveSourceIsSound ==
    ASSUME NEW d, Sound(d), NEW source
    PROVE  Sound(RemoveSource(d, source).doc)
<1>1. CASE SourceInUse(d, source)
  BY <1>1, Answers DEF RemoveSource
<1>2. CASE ~SourceInUse(d, source)
  BY <1>2, SourceRemoved
<1> QED BY <1>1, <1>2

LEMMA ChainFacts ==
    ASSUME NEW d, Sound(d), NEW source \in DOMAIN d.sources
    PROVE  /\ d.sources[source] \in Seq(Filters)
           /\ Distinct(d.sources[source])
           /\ Len(d.sources[source]) \in Nat
           /\ \A f : Contains(d.sources[source], f) <=> f \in ToSet(d.sources[source])
<1>1. d.sources[source] \in Seq(Filters) /\ Distinct(d.sources[source])
  BY ProfileFacts DEF Sound, ChainsHold
<1> QED BY <1>1, ListFacts

LEMMA AddFilterIsSound ==
    ASSUME NEW d, Sound(d), NEW source, NEW filter \in Filters
    PROVE  Sound(AddSourceFilter(d, source, filter).doc)
<1>1. CASE source \notin DOMAIN d.sources \/ Contains(d.sources[source], filter)
  BY <1>1, Answers DEF AddSourceFilter
<1>2. CASE source \in DOMAIN d.sources /\ ~Contains(d.sources[source], filter)
  <2> DEFINE filters == Append(d.sources[source], filter)
  <2>1. filters \in Seq(Filters) /\ Distinct(filters)
    BY <1>2, ChainFacts, AppendLists
  <2>2. AddSourceFilter(d, source, filter).doc = WithFilters(d, source, filters)
    BY <1>2, Answers DEF AddSourceFilter
  <2> HIDE DEF filters
  <2> QED BY <1>2, <2>1, <2>2, FiltersChanged
<1> QED BY <1>1, <1>2

LEMMA RemoveFilterIsSound ==
    ASSUME NEW d, Sound(d), NEW source, NEW filter
    PROVE  Sound(RemoveSourceFilter(d, source, filter).doc)
<1>1. CASE ~HasFilter(d, source, filter)
  BY <1>1, Answers DEF RemoveSourceFilter
<1>2. CASE HasFilter(d, source, filter)
  <2> DEFINE filters == Except(d.sources[source], {filter})
  <2>1. source \in DOMAIN d.sources
    BY <1>2 DEF HasFilter
  <2>2. filters \in Seq(Filters) /\ Distinct(filters)
    BY <2>1, ChainFacts, ExceptFacts
  <2>3. RemoveSourceFilter(d, source, filter).doc = WithFilters(d, source, filters)
    BY <1>2, Answers DEF RemoveSourceFilter
  <2> HIDE DEF filters
  <2> QED BY <2>1, <2>2, <2>3, FiltersChanged
<1> QED BY <1>1, <1>2

LEMMA MoveFilterIsSound ==
    ASSUME NEW d, Sound(d), NEW source, NEW filter, NEW index \in Nat
    PROVE  Sound(MoveSourceFilter(d, source, filter, index).doc)
<1> DEFINE chain == d.sources[source]
<1>1. CASE ~HasFilter(d, source, filter) \/ index >= Len(chain)
  BY <1>1, Answers DEF MoveSourceFilter
<1>2. CASE HasFilter(d, source, filter) /\ ~(index >= Len(chain))
  <2> DEFINE filters == Moved(chain, filter, index)
  <2>1. source \in DOMAIN d.sources /\ filter \in ToSet(chain)
    BY <1>2, ChainFacts DEF HasFilter
  <2>2. index < Len(chain)
    BY <1>2, <2>1, ChainFacts
  <2>3. filters \in Seq(Filters) /\ Distinct(filters)
    BY <2>1, <2>2, ChainFacts, MovedFacts
  <2>4. MoveSourceFilter(d, source, filter, index).doc = WithFilters(d, source, filters)
    BY <1>2, Answers DEF MoveSourceFilter
  <2> HIDE DEF filters
  <2> QED BY <2>1, <2>3, <2>4, FiltersChanged
<1> QED BY <1>1, <1>2

-----------------------------------------------------------------------------
(* What is counted: the items that are no groups *)

IsLeaf(t, p) == p \in ItemPaths(t) /\ t[p].kind # "group"
IsSlot(d, s, p) == s \in Scenes(d) /\ IsLeaf(d.scenes[s], p)

Slots(d) ==
    UNION {{<<s, p>> : p \in ItemPaths(d.scenes[s]) \ Groups(d.scenes[s])}
              : s \in Scenes(d)}

Look(d, i) == d.scenes[i[1]][i[2]]

LEMMA UsesOfSlots ==
    ASSUME NEW d
    PROVE  Uses(d) = [n \in {Look(d, i) : i \in Slots(d)} |->
                         Cardinality({i \in Slots(d) : Look(d, i) = n})]
  BY Zenon DEF Uses, Slots, Look

LEMMA SlotFacts ==
    ASSUME NEW d
    PROVE  /\ \A s, p : <<s, p>> \in Slots(d) <=> IsSlot(d, s, p)
           /\ \A i \in Slots(d) : \E s, p : i = <<s, p>> /\ IsSlot(d, s, p)
<1>1. \A i : i \in Slots(d) <=>
         \E s \in Scenes(d) : \E p \in ItemPaths(d.scenes[s]) \ Groups(d.scenes[s]) :
            i = <<s, p>>
  BY DEF Slots
<1>2. \A s, p : s \in Scenes(d) =>
         (p \in ItemPaths(d.scenes[s]) \ Groups(d.scenes[s]) <=> IsSlot(d, s, p))
  BY DEF IsSlot, IsLeaf, ItemPaths, Groups
<1>3. \A s, p : IsSlot(d, s, p) => s \in Scenes(d)
  BY DEF IsSlot
<1>4. \A s, p : <<s, p>> \in Slots(d) <=> IsSlot(d, s, p)
  BY <1>1, <1>2, <1>3
<1>5. \A i \in Slots(d) : \E s, p : i = <<s, p>> /\ IsSlot(d, s, p)
  BY <1>1, <1>2
<1> QED BY <1>4, <1>5

LEMMA SlotsAreFinite ==
    ASSUME NEW d, Sound(d)
    PROVE  IsFiniteSet(Slots(d))
<1> DEFINE Of(s) == {<<s, p>> : p \in ItemPaths(d.scenes[s]) \ Groups(d.scenes[s])}
           each == {Of(s) : s \in Scenes(d)}
<1>1. IsFiniteSet(Scenes(d))
  BY DistinctLength DEF Sound, IsProfile, OrderHolds
<1>2. IsFiniteSet(each)
  <2> DEFINE f == [s \in Scenes(d) |-> Of(s)]
  <2>1. f \in Surjection(Scenes(d), each)
    BY DEF Surjection
  <2> HIDE DEF f, each
  <2> QED BY <1>1, <2>1, FS_Surjection
<1>3. ASSUME NEW s \in Scenes(d) PROVE IsFiniteSet(Of(s))
  <2>1. IsFiniteSet(DOMAIN d.scenes[s])
    BY SceneFacts, TreeFacts DEF Good
  <2>2. ItemPaths(d.scenes[s]) \ Groups(d.scenes[s]) \in SUBSET DOMAIN d.scenes[s]
    BY DEF ItemPaths
  <2>3. IsFiniteSet(ItemPaths(d.scenes[s]) \ Groups(d.scenes[s]))
    BY <2>1, <2>2, FS_Subset
  <2> DEFINE own == ItemPaths(d.scenes[s]) \ Groups(d.scenes[s])
             f == [p \in own |-> <<s, p>>]
  <2>4. f \in Surjection(own, Of(s))
    BY DEF Surjection
  <2> HIDE DEF f, own, Of
  <2> QED BY <2>3, <2>4, FS_Surjection DEF own
<1>4. \A T \in each : IsFiniteSet(T)
  BY <1>3
<1> HIDE DEF Of
<1>5. IsFiniteSet(UNION each)
  <2> HIDE DEF each
  <2> QED BY <1>2, <1>4, FS_UNION
<1> QED BY <1>5 DEF Slots, Of

(* Each use is counted as often as before where the items of one profile are
   those of the other in other places. *)
LEMMA UsesByPlaces ==
    ASSUME NEW d, NEW e, IsFiniteSet(Slots(d)),
           NEW f \in [Slots(d) -> Slots(e)],
           \A i, j \in Slots(d) : f[i] = f[j] => i = j,
           \A j \in Slots(e) : \E i \in Slots(d) : f[i] = j,
           \A i \in Slots(d) : Look(e, f[i]) = Look(d, i)
    PROVE  Uses(e) = Uses(d)
<1> DEFINE Of(n) == {i \in Slots(d) : Look(d, i) = n}
           To(n) == {j \in Slots(e) : Look(e, j) = n}
<1>1. {Look(e, j) : j \in Slots(e)} = {Look(d, i) : i \in Slots(d)}
  OBVIOUS
<1>2. ASSUME NEW n PROVE Cardinality(To(n)) = Cardinality(Of(n))
  <2> DEFINE g == [i \in Of(n) |-> f[i]]
  <2>1. g \in [Of(n) -> To(n)]
    OBVIOUS
  <2>2. \A i, j \in Of(n) : g[i] = g[j] => i = j
    OBVIOUS
  <2>3. \A j \in To(n) : \E i \in Of(n) : g[i] = j
    OBVIOUS
  <2>4. Of(n) \in SUBSET Slots(d)
    OBVIOUS
  <2> HIDE DEF g, Of, To
  <2>5. g \in Bijection(Of(n), To(n))
    BY <2>1, <2>2, <2>3 DEF Bijection, Injection, Surjection, IsInjective
  <2>6. IsFiniteSet(Of(n))
    BY <2>4, FS_Subset
  <2>7. ExistsBijection(Of(n), To(n))
    BY <2>5 DEF ExistsBijection
  <2> QED BY <2>6, <2>7, FS_Bijection
<1>3. Uses(d) = [n \in {Look(d, i) : i \in Slots(d)} |-> Cardinality(Of(n))]
  BY UsesOfSlots, Zenon
<1>4. Uses(e) = [n \in {Look(e, i) : i \in Slots(e)} |-> Cardinality(To(n))]
  BY UsesOfSlots, Zenon
<1> HIDE DEF Of, To
<1> QED BY <1>1, <1>2, <1>3, <1>4

(* What a command that rearranges may do to a profile. *)
Rearranged(d, e) == Sound(e) /\ Uses(e) = Uses(d)

LEMMA NothingRearranged ==
    ASSUME NEW d, Sound(d)
    PROVE  Rearranged(d, d)
  BY DEF Rearranged

(* Slots that are somewhere else: those of s at P and beyond it, as far as V has
   them, are in r at Q and beyond it; the others stay. *)
Shifted(d, e, s, r, P, Q, V) ==
    /\ \A v \in V : IsSlot(d, s, Join(P, v)) =>
          /\ IsSlot(e, r, Join(Q, v))
          /\ e.scenes[r][Join(Q, v)] = d.scenes[s][Join(P, v)]
    /\ \A x, p : IsSlot(d, x, p) /\ ~(x = s /\ \E v \in V : p = Join(P, v)) =>
          /\ IsSlot(e, x, p)
          /\ e.scenes[x][p] = d.scenes[x][p]
          /\ ~(x = r /\ \E v \in V : p = Join(Q, v))
    /\ \A x, p : IsSlot(e, x, p) =>
          \/ x = r /\ \E v \in V : p = Join(Q, v) /\ IsSlot(d, s, Join(P, v))
          \/ IsSlot(d, x, p) /\ ~(x = s /\ \E v \in V : p = Join(P, v))

LEMMA UsesByShift ==
    ASSUME NEW d, NEW e, Sound(d), NEW s, NEW r,
           NEW P \in Path, NEW Q \in Path, NEW V \in SUBSET Path,
           Shifted(d, e, s, r, P, Q, V)
    PROVE  Uses(e) = Uses(d)
<1> DEFINE Goes(i) == i[1] = s /\ \E v \in V : i[2] = Join(P, v)
           f == [i \in Slots(d) |-> IF Goes(i) THEN <<r, Join(Q, Beyond(P, i[2]))>> ELSE i]
<1>1. \A v \in V : Beyond(P, Join(P, v)) = v
  BY JoinOfPaths
<1>2. \A v, w \in V : Join(Q, v) = Join(Q, w) => v = w
  BY JoinCancels
<1>3. \A x, p : <<x, p>> \in Slots(d) => <<x, p>>[1] = x /\ <<x, p>>[2] = p
  OBVIOUS
<1>4. ASSUME NEW v \in V, IsSlot(d, s, Join(P, v))
      PROVE  f[<<s, Join(P, v)>>] = <<r, Join(Q, v)>>
  <2>1. <<s, Join(P, v)>> \in Slots(d)
    BY <1>4, SlotFacts
  <2> QED BY <1>1, <2>1
<1>5. ASSUME NEW x, NEW p, IsSlot(d, x, p), ~(x = s /\ \E v \in V : p = Join(P, v))
      PROVE  f[<<x, p>>] = <<x, p>>
  <2>1. <<x, p>> \in Slots(d)
    BY <1>5, SlotFacts
  <2> QED BY <1>5, <2>1
<1> HIDE DEF f
<1>6. ASSUME NEW i \in Slots(d)
      PROVE  \/ \E v \in V : /\ IsSlot(d, s, Join(P, v)) /\ i = <<s, Join(P, v)>>
                             /\ f[i] = <<r, Join(Q, v)>>
                             /\ IsSlot(e, r, Join(Q, v))
                             /\ Look(e, f[i]) = Look(d, i)
             \/ \E x, p : /\ IsSlot(d, x, p) /\ i = <<x, p>> /\ f[i] = i
                          /\ IsSlot(e, x, p)
                          /\ Look(e, f[i]) = Look(d, i)
                          /\ ~(x = r /\ \E v \in V : p = Join(Q, v))
  <2>1. PICK x, p : i = <<x, p>> /\ IsSlot(d, x, p)
    BY SlotFacts
  <2>2. CASE x = s /\ \E v \in V : p = Join(P, v)
    <3>1. PICK v \in V : p = Join(P, v)
      BY <2>2
    <3>2. f[i] = <<r, Join(Q, v)>> /\ i = <<s, Join(P, v)>> /\ IsSlot(d, s, Join(P, v))
      BY <1>4, <2>1, <2>2, <3>1
    <3>3. /\ IsSlot(e, r, Join(Q, v))
          /\ e.scenes[r][Join(Q, v)] = d.scenes[s][Join(P, v)]
      BY <3>2 DEF Shifted
    <3>4. Look(e, f[i]) = Look(d, i)
      BY <3>2, <3>3 DEF Look
    <3> QED BY <3>2, <3>3, <3>4
  <2>3. CASE ~(x = s /\ \E v \in V : p = Join(P, v))
    <3>1. f[i] = i
      BY <1>5, <2>1, <2>3
    <3>2. /\ IsSlot(e, x, p) /\ e.scenes[x][p] = d.scenes[x][p]
          /\ ~(x = r /\ \E v \in V : p = Join(Q, v))
      BY <2>1, <2>3 DEF Shifted
    <3>3. Look(e, f[i]) = Look(d, i)
      BY <2>1, <3>1, <3>2 DEF Look
    <3> QED BY <2>1, <3>1, <3>2, <3>3
  <2> QED BY <2>2, <2>3
<1>7. f \in [Slots(d) -> Slots(e)]
  <2>1. ASSUME NEW i \in Slots(d) PROVE f[i] \in Slots(e)
    BY <1>6, SlotFacts
  <2> QED BY <2>1 DEF f
<1>8. ASSUME NEW i \in Slots(d), NEW j \in Slots(d), f[i] = f[j] PROVE i = j
  BY <1>2, <1>6, <1>8
<1>9. ASSUME NEW j \in Slots(e) PROVE \E i \in Slots(d) : f[i] = j
  <2>1. PICK x, p : j = <<x, p>> /\ IsSlot(e, x, p)
    BY SlotFacts
  <2>2. CASE x = r /\ \E v \in V : p = Join(Q, v) /\ IsSlot(d, s, Join(P, v))
    BY <1>4, <2>1, <2>2, SlotFacts
  <2>3. CASE IsSlot(d, x, p) /\ ~(x = s /\ \E v \in V : p = Join(P, v))
    BY <1>5, <2>1, <2>3, SlotFacts
  <2>4. \/ x = r /\ \E v \in V : p = Join(Q, v) /\ IsSlot(d, s, Join(P, v))
        \/ IsSlot(d, x, p) /\ ~(x = s /\ \E v \in V : p = Join(P, v))
    BY <2>1 DEF Shifted
  <2> QED BY <2>2, <2>3, <2>4
<1>10. \A i \in Slots(d) : Look(e, f[i]) = Look(d, i)
  BY <1>6
<1>11. IsFiniteSet(Slots(d))
  BY SlotsAreFinite
<1> QED BY <1>7, <1>8, <1>9, <1>10, <1>11, UsesByPlaces

(* The same of the items of a tree. *)
LeavesShifted(t, u, P, Q, V) ==
    /\ \A v \in V : IsLeaf(t, Join(P, v)) =>
          IsLeaf(u, Join(Q, v)) /\ u[Join(Q, v)] = t[Join(P, v)]
    /\ \A p : IsLeaf(t, p) /\ ~(\E v \in V : p = Join(P, v)) =>
          /\ IsLeaf(u, p)
          /\ u[p] = t[p]
          /\ ~(\E v \in V : p = Join(Q, v))
    /\ \A p : IsLeaf(u, p) =>
          \/ \E v \in V : p = Join(Q, v) /\ IsLeaf(t, Join(P, v))
          \/ IsLeaf(t, p) /\ ~(\E v \in V : p = Join(P, v))

LEMMA UsesInScene ==
    ASSUME NEW d, Sound(d), NEW s \in Scenes(d), NEW u, IsTree(u), <<>> \in Groups(u),
           NEW P \in Path, NEW Q \in Path, NEW V \in SUBSET Path,
           LeavesShifted(d.scenes[s], u, P, Q, V)
    PROVE  Uses(WithScene(d, s, u)) = Uses(d)
<1> DEFINE e == WithScene(d, s, u)
           t == d.scenes[s]
<1>1. /\ \A x : x \in Scenes(e) <=> x \in Scenes(d)
      /\ e.scenes[s] = u
      /\ \A x \in Scenes(d) : x # s => e.scenes[x] = d.scenes[x]
  BY SceneFacts, WithSceneFacts DEF Sound
<1> HIDE DEF e
<1>2. \A p : /\ IsSlot(d, s, p) <=> IsLeaf(t, p)
             /\ IsSlot(e, s, p) <=> IsLeaf(u, p)
  BY <1>1 DEF IsSlot
<1>3. \A x, p : x # s => (IsSlot(e, x, p) <=> IsSlot(d, x, p))
  BY <1>1 DEF IsSlot
<1>4. \A x, p : x # s /\ IsSlot(d, x, p) => e.scenes[x][p] = d.scenes[x][p]
  BY <1>1 DEF IsSlot
<1> HIDE DEF t
<1>5. \A v \in V : IsSlot(d, s, Join(P, v)) =>
         IsSlot(e, s, Join(Q, v)) /\ e.scenes[s][Join(Q, v)] = t[Join(P, v)]
  BY <1>1, <1>2 DEF LeavesShifted, t
<1>6. \A x, p : IsSlot(d, x, p) /\ ~(x = s /\ \E v \in V : p = Join(P, v)) =>
         /\ IsSlot(e, x, p)
         /\ e.scenes[x][p] = d.scenes[x][p]
         /\ ~(x = s /\ \E v \in V : p = Join(Q, v))
  <2>1. \A p : IsSlot(d, s, p) /\ ~(\E v \in V : p = Join(P, v)) =>
           /\ IsSlot(e, s, p)
           /\ e.scenes[s][p] = d.scenes[s][p]
           /\ ~(\E v \in V : p = Join(Q, v))
    BY <1>1, <1>2 DEF LeavesShifted, t
  <2> QED BY <1>3, <1>4, <2>1
<1>7. \A x, p : IsSlot(e, x, p) =>
         \/ x = s /\ \E v \in V : p = Join(Q, v) /\ IsSlot(d, s, Join(P, v))
         \/ IsSlot(d, x, p) /\ ~(x = s /\ \E v \in V : p = Join(P, v))
  <2>1. \A p : IsSlot(e, s, p) =>
           \/ \E v \in V : p = Join(Q, v) /\ IsSlot(d, s, Join(P, v))
           \/ IsSlot(d, s, p) /\ ~(\E v \in V : p = Join(P, v))
    BY <1>2 DEF LeavesShifted, t
  <2> QED BY <1>3, <2>1
<1>8. Shifted(d, e, s, s, P, Q, V)
  BY <1>5, <1>6, <1>7, Zenon DEF Shifted, t
<1>9. Uses(e) = Uses(d)
  BY <1>8, UsesByShift
<1> QED BY <1>9 DEF e

(* Nothing moves. *)
LEMMA UsesInPlace ==
    ASSUME NEW d, Sound(d), NEW s \in Scenes(d), NEW u, IsTree(u), <<>> \in Groups(u),
           \A p : IsLeaf(u, p) <=> IsLeaf(d.scenes[s], p),
           \A p : IsLeaf(u, p) => u[p] = d.scenes[s][p]
    PROVE  Uses(WithScene(d, s, u)) = Uses(d)
<1> DEFINE V == {}
<1>1. V \in SUBSET Path /\ <<>> \in Path
  BY EmptyIsPath
<1>2. LeavesShifted(d.scenes[s], u, <<>>, <<>>, V)
  BY DEF LeavesShifted
<1> HIDE DEF V
<1> QED BY <1>1, <1>2, UsesInScene

-----------------------------------------------------------------------------
(* Which items that are no groups a tree has after an operation *)

LEMMA NodesAgree ==
    ASSUME NEW n \in Nodes, NEW m \in Nodes, n.kind = m.kind, n.ref = m.ref,
           n.kids = m.kids, n.locked = m.locked
    PROVE  n = m
  BY DEF Nodes

LEMMA LeafHasNoKids ==
    ASSUME NEW t, Good(t), NEW p, IsLeaf(t, p)
    PROVE  t[p].kids = <<>>
<1>1. p \in DOMAIN t /\ t[p].kind # "group"
  BY DEF IsLeaf, ItemPaths
<1>2. ASSUME t[p].kids # <<>> PROVE FALSE
  <2>1. t[p].kids \in Seq(Identifiers) /\ p \in Path
    BY <1>1, KidsFacts
  <2>2. PICK id \in Identifiers : id \in ToSet(t[p].kids)
    <3>1. Len(t[p].kids) > 0 /\ Len(t[p].kids) \in Nat
      BY <1>2, <2>1
    <3>2. t[p].kids[1] \in Identifiers /\ t[p].kids[1] \in ToSet(t[p].kids)
      BY <2>1, <3>1, ListFacts
    <3> QED BY <3>2
  <2>3. Child(p, id) \in DOMAIN t
    BY <1>1, <2>2, KidsFacts
  <2>4. Child(p, id) # <<>> /\ Front(Child(p, id)) = p
    BY <2>1, ChildOfPath
  <2>5. t[p].kind = "group"
    BY <2>3, <2>4, FrontIsGroup
  <2> QED BY <1>1, <2>5
<1> QED BY <1>2

LEMMA DetachedLeaves ==
    ASSUME NEW t, Good(t), NEW roots \in SUBSET (Path \ {<<>>})
    PROVE  /\ \A p : IsLeaf(Detached(t, roots), p) <=>
                 IsLeaf(t, p) /\ \A q \in roots : ~IsPrefix(q, p)
           /\ \A p : IsLeaf(Detached(t, roots), p) => Detached(t, roots)[p] = t[p]
<1> DEFINE left == Detached(t, roots)
<1>1. \A p : p \in DOMAIN left <=> p \in DOMAIN t /\ \A q \in roots : ~IsPrefix(q, p)
  <2>1. DOMAIN left = {p \in DOMAIN t : \A q \in roots : ~IsPrefix(q, p)}
    BY DetachedFacts
  <2> HIDE DEF left
  <2> QED BY <2>1
<1>2. \A p \in DOMAIN left :
         /\ left[p] \in Nodes
         /\ left[p].kind = t[p].kind
         /\ left[p].ref = t[p].ref
         /\ left[p].locked = t[p].locked
         /\ \A id : id \in ToSet(left[p].kids) => id \in ToSet(t[p].kids)
  BY DetachedNodes
<1>3. Good(left)
  BY DetachedIsGood
<1> HIDE DEF left
<1>4. \A p : IsLeaf(left, p) <=> IsLeaf(t, p) /\ \A q \in roots : ~IsPrefix(q, p)
  BY <1>1, <1>2 DEF IsLeaf, ItemPaths
<1>5. ASSUME NEW p, IsLeaf(left, p) PROVE left[p] = t[p]
  <2>1. p \in DOMAIN left /\ p \in DOMAIN t
    BY <1>1, <1>5 DEF IsLeaf, ItemPaths
  <2>2. left[p].kids = <<>> /\ t[p].kids = <<>>
    BY <1>3, <1>4, <1>5, LeafHasNoKids
  <2>3. t[p] \in Nodes
    BY <2>1, KidsFacts
  <2> QED BY <1>2, <2>1, <2>2, <2>3, NodesAgree
<1> QED BY <1>4, <1>5 DEF left

LEMMA AttachedLeaves ==
    ASSUME NEW t, Good(t), NEW item, Good(item), NEW parent \in Groups(t),
           NEW id \in Identifiers, id \notin ToSet(t[parent].kids),
           NEW index \in 0..Len(t[parent].kids)
    PROVE  /\ \A p : IsLeaf(Attached(t, parent, id, index, item), p) <=>
                 \/ IsLeaf(t, p)
                 \/ \E v \in DOMAIN item : /\ p = Join(Child(parent, id), v)
                                           /\ item[v].kind # "group"
           /\ \A p : IsLeaf(t, p) => Attached(t, parent, id, index, item)[p] = t[p]
           /\ \A p : IsLeaf(t, p) => ~IsPrefix(Child(parent, id), p)
           /\ \A v \in DOMAIN item :
                 Attached(t, parent, id, index, item)[Join(Child(parent, id), v)] = item[v]
<1> DEFINE more == Attached(t, parent, id, index, item)
           at == Child(parent, id)
<1>1. parent \in DOMAIN t /\ t[parent].kind = "group" /\ parent \in Path
  BY KidsFacts DEF Groups
<1>2. at \in Path /\ at # <<>>
  BY <1>1, ChildOfPath
<1>3. /\ \A q \in DOMAIN t : ~IsPrefix(at, q)
      /\ \A q : q \in DOMAIN more <=> q \in DOMAIN t \/ \E v \in DOMAIN item : q = Join(at, v)
      /\ \A v \in DOMAIN item : more[Join(at, v)] = item[v]
      /\ \A q \in DOMAIN t : q # parent => more[q] = t[q]
      /\ more[parent].kind = t[parent].kind
  BY <1>1, AttachedFacts
<1>4. \A v \in DOMAIN item : v \in Path
  BY KidsFacts
<1>5. \A v \in DOMAIN item : Join(at, v) # <<>>
  BY <1>2, <1>4, OnlyTheRootIsEmpty
<1> HIDE DEF more, at
<1>6. \A p : IsLeaf(t, p) => p # parent /\ p \in DOMAIN t /\ p # <<>>
  BY <1>1 DEF IsLeaf, ItemPaths
<1>7. \A p : IsLeaf(t, p) => more[p] = t[p] /\ ~IsPrefix(at, p)
  BY <1>3, <1>6
<1>8. \A p : IsLeaf(t, p) => IsLeaf(more, p)
  BY <1>3, <1>6, <1>7 DEF IsLeaf, ItemPaths
<1>9. \A v \in DOMAIN item : item[v].kind # "group" => IsLeaf(more, Join(at, v))
  BY <1>3, <1>5 DEF IsLeaf, ItemPaths
<1>10. ASSUME NEW p, IsLeaf(more, p)
       PROVE  \/ IsLeaf(t, p)
              \/ \E v \in DOMAIN item : p = Join(at, v) /\ item[v].kind # "group"
  <2>1. p \in DOMAIN more /\ p # <<>> /\ more[p].kind # "group"
    BY <1>10 DEF IsLeaf, ItemPaths
  <2>2. CASE p \in DOMAIN t
    <3>1. p # parent
      BY <1>1, <1>3, <2>1
    <3> QED BY <1>3, <2>1, <2>2, <3>1 DEF IsLeaf, ItemPaths
  <2>3. CASE \E v \in DOMAIN item : p = Join(at, v)
    BY <1>3, <2>1, <2>3
  <2> QED BY <1>3, <2>1, <2>2, <2>3
<1> QED BY <1>3, <1>7, <1>8, <1>9, <1>10 DEF more, at

-----------------------------------------------------------------------------
(* Rearranging keeps every item that is no group *)

LEMMA ListMoved ==
    ASSUME NEW t, Good(t), NEW p \in DOMAIN t, p # <<>>, NEW index
    PROVE  /\ \A q : IsLeaf(MovedWithin(t, p, index), q) <=> IsLeaf(t, q)
           /\ \A q : IsLeaf(t, q) => MovedWithin(t, p, index)[q] = t[q]
<1> DEFINE u == MovedWithin(t, p, index)
           parent == Front(p)
           kids == Moved(t[parent].kids, Last(p), index)
<1>1. u = [t EXCEPT ![parent].kids = kids]
  BY DEF MovedWithin
<1>2. parent \in DOMAIN t /\ t[parent].kind = "group" /\ t[parent] \in Nodes
  BY FrontIsGroup, KidsFacts
<1> HIDE DEF u, kids, parent
<1>3. /\ DOMAIN u = DOMAIN t
      /\ \A q \in DOMAIN t : q # parent => u[q] = t[q]
      /\ u[parent] = [t[parent] EXCEPT !.kids = kids]
  BY <1>1, <1>2
<1>4. u[parent].kind = t[parent].kind
  BY <1>2, <1>3 DEF Nodes
<1>5. \A q : IsLeaf(u, q) <=> IsLeaf(t, q)
  BY <1>2, <1>3, <1>4 DEF IsLeaf, ItemPaths
<1>6. \A q : IsLeaf(t, q) => u[q] = t[q]
  BY <1>2, <1>3 DEF IsLeaf, ItemPaths
<1> QED BY <1>5, <1>6 DEF u

LEMMA DissolvedConserves ==
    ASSUME NEW d, Sound(d), NEW s \in Scenes(d), NEW p \in DOMAIN d.scenes[s], p # <<>>,
           d.scenes[s][p].kind = "group",
           \A id \in ToSet(d.scenes[s][p].kids) :
              id \in ToSet(d.scenes[s][Front(p)].kids) => id = Last(p)
    PROVE  Uses(WithScene(d, s, Dissolved(d.scenes[s], p))) = Uses(d)
<1> DEFINE t == d.scenes[s]
           u == Dissolved(t, p)
           parent == Front(p)
           V == {v \in Path : v # <<>> /\ Join(p, v) \in DOMAIN t}
<1>1. Good(t) /\ <<>> \in Groups(t)
  BY SceneFacts
<1>2. Good(u) /\ <<>> \in Groups(u)
  BY <1>1, DissolvedIsGood, DissolvedRoot
<1>3. /\ p \in Path /\ parent \in Path /\ t[parent].kind = "group" /\ parent \in DOMAIN t
      /\ Last(p) \in Identifiers /\ p = Child(parent, Last(p))
  BY <1>1, KidsFacts, PathSplits, FrontIsGroup
<1>4. /\ \A q : q \in DOMAIN u <=> \/ q \in DOMAIN t /\ ~IsPrefix(p, q)
                                   \/ \E v \in V : q = Join(parent, v)
      /\ \A v \in V : u[Join(parent, v)] = t[Join(p, v)]
      /\ \A q \in DOMAIN u : q # parent /\ ~(\E v \in V : q = Join(parent, v)) => u[q] = t[q]
  BY <1>1, DissolvedFacts
<1>5. u[parent].kind = "group"
  BY <1>1, <1>3, DissolvedNodes
<1>6. \A q \in DOMAIN t : IsPrefix(p, q) /\ q # p => \E v \in V : q = Join(p, v)
  <2>1. ASSUME NEW q \in DOMAIN t, IsPrefix(p, q), q # p
        PROVE  \E v \in V : q = Join(p, v)
    <3>1. q \in Path
      BY <1>1, KidsFacts
    <3>2. PICK v \in Path : q = Join(p, v)
      BY <1>3, <2>1, <3>1, PathPrefix
    <3>3. v # <<>>
      BY <1>3, <2>1, <3>2, JoinEmpty
    <3> QED BY <2>1, <3>2, <3>3
  <2> QED BY <2>1
<1>7. /\ V \in SUBSET Path
      /\ \A v \in V : /\ Join(p, v) \in DOMAIN t /\ Join(p, v) # <<>>
                      /\ Join(parent, v) # <<>> /\ Join(parent, v) \in DOMAIN u
                      /\ IsPrefix(p, Join(p, v))
  <2>1. \A v \in V : v \in Path /\ v # <<>> /\ Join(p, v) \in DOMAIN t
    OBVIOUS
  <2>2. \A v \in V : Join(p, v) # <<>> /\ Join(parent, v) # <<>> /\ IsPrefix(p, Join(p, v))
    BY <1>3, <2>1, OnlyTheRootIsEmpty, JoinOfPaths
  <2> HIDE DEF V
  <2> QED BY <1>4, <2>1, <2>2
(* A child of the group that comes to where a sibling is would be that sibling. *)
<1>8. ASSUME NEW v \in V, Join(parent, v) \in DOMAIN t
      PROVE  IsPrefix(p, Join(parent, v))
  <2>1. PICK id \in Identifiers, w \in Path :
           \A q \in Path : Join(q, v) = Join(Child(q, id), w)
    BY <1>8, FirstStep
  <2>2. Join(parent, v) = Join(Child(parent, id), w) /\ Join(p, v) = Join(Child(p, id), w)
    BY <1>3, <2>1
  <2>3. Child(parent, id) \in Path /\ Child(p, id) \in Path
    BY <1>3, ChildOfPath
  <2>4. Join(p, v) \in DOMAIN t
    BY <1>8
  <2>5. Child(parent, id) \in DOMAIN t /\ Child(p, id) \in DOMAIN t
    BY <1>1, <1>8, <2>2, <2>3, <2>4, TreeIsClosed
  <2>6. id \in ToSet(t[parent].kids) /\ id \in ToSet(t[p].kids)
    BY <1>1, <1>3, <2>5, KidsFacts
  <2>7. id = Last(p)
    BY <2>6
  <2> QED BY <1>3, <2>2, <2>3, <2>7, JoinOfPaths
<1> HIDE DEF u, V
<1>9. \A v \in V : IsLeaf(t, Join(p, v)) =>
         IsLeaf(u, Join(parent, v)) /\ u[Join(parent, v)] = t[Join(p, v)]
  BY <1>4, <1>7 DEF IsLeaf, ItemPaths
<1>10. ASSUME NEW q, IsLeaf(t, q), ~(\E v \in V : q = Join(p, v))
       PROVE  /\ IsLeaf(u, q)
              /\ u[q] = t[q]
              /\ ~(\E v \in V : q = Join(parent, v))
  <2>1. q \in DOMAIN t /\ q # <<>> /\ t[q].kind # "group"
    BY <1>10 DEF IsLeaf, ItemPaths
  <2>2. q # p /\ q # parent
    BY <1>3, <2>1
  <2>3. ~IsPrefix(p, q)
    BY <1>6, <1>10, <2>1, <2>2
  <2>4. ~(\E v \in V : q = Join(parent, v))
    BY <1>8, <2>1, <2>3
  <2>5. q \in DOMAIN u /\ u[q] = t[q]
    BY <1>4, <2>1, <2>2, <2>3, <2>4
  <2> QED BY <2>1, <2>4, <2>5 DEF IsLeaf, ItemPaths
<1>11. ASSUME NEW q, IsLeaf(u, q)
       PROVE  \/ \E v \in V : q = Join(parent, v) /\ IsLeaf(t, Join(p, v))
              \/ IsLeaf(t, q) /\ ~(\E v \in V : q = Join(p, v))
  <2>1. q \in DOMAIN u /\ q # <<>> /\ u[q].kind # "group"
    BY <1>11 DEF IsLeaf, ItemPaths
  <2>2. CASE \E v \in V : q = Join(parent, v)
    BY <1>4, <1>7, <2>1, <2>2 DEF IsLeaf, ItemPaths
  <2>3. CASE ~(\E v \in V : q = Join(parent, v))
    <3>1. q \in DOMAIN t /\ ~IsPrefix(p, q)
      BY <1>4, <2>1, <2>3
    <3>2. u[q] = t[q]
      BY <1>4, <1>5, <2>1, <2>3
    <3> QED BY <1>7, <2>1, <3>1, <3>2 DEF IsLeaf, ItemPaths
  <2> QED BY <2>2, <2>3
<1>12. LeavesShifted(t, u, p, parent, V)
  BY <1>9, <1>10, <1>11, Zenon DEF LeavesShifted
<1>13. Uses(WithScene(d, s, u)) = Uses(d)
  BY <1>2, <1>3, <1>7, <1>12, UsesInScene DEF Good
<1> QED BY <1>13 DEF u

-----------------------------------------------------------------------------
(* Commands that add, take and lock items *)

LEMMA ItemFacts ==
    ASSUME NEW d, Sound(d), NEW s \in Scenes(d), NEW p \in DOMAIN d.scenes[s]
    PROVE  /\ p \in Path
           /\ Good(ItemAt(d.scenes[s], p))
           /\ \A x \in References(ItemAt(d.scenes[s], p), "source") :
                 x \in References(d.scenes[s], "source")
           /\ \A x \in References(ItemAt(d.scenes[s], p), "scene") :
                 x \in References(d.scenes[s], "scene")
<1>1. Good(d.scenes[s])
  BY SceneFacts
<1>2. p \in Path
  BY <1>1, KidsFacts
<1>3. Good(ItemAt(d.scenes[s], p))
  BY <1>1, ItemIsGood
<1>4. \A k : References(ItemAt(d.scenes[s], p), k) \subseteq References(d.scenes[s], k)
  BY <1>1, ItemRefers
<1> QED BY <1>2, <1>3, <1>4

LEMMA PlaceOfItem ==
    ASSUME NEW d, Sound(d), NEW s \in Scenes(d), NEW p \in DOMAIN d.scenes[s], p # <<>>
    PROVE  /\ Front(p) \in Path
           /\ Last(p) \in Identifiers
           /\ p = Child(Front(p), Last(p))
           /\ Front(p) \in Groups(d.scenes[s])
           /\ Front(p) \in DOMAIN d.scenes[s]
           /\ Last(p) \in ToSet(d.scenes[s][Front(p)].kids)
<1>1. Good(d.scenes[s])
  BY SceneFacts
<1>2. p \in Path
  BY <1>1, KidsFacts
<1>3. Front(p) \in Path /\ Last(p) \in Identifiers /\ p = Child(Front(p), Last(p))
  BY <1>2, PathSplits
<1>4. Front(p) \in DOMAIN d.scenes[s] /\ Front(p) \in Groups(d.scenes[s])
  BY <1>1, FrontIsGroup DEF Groups
<1>5. Last(p) \in ToSet(d.scenes[s][Front(p)].kids)
  BY <1>1, <1>3, <1>4, KidsFacts
<1> QED BY <1>3, <1>4, <1>5

LEMMA AddSceneItemIsSound ==
    ASSUME NEW d, Sound(d), NEW s, NEW id \in Identifiers, NEW item, Good(item)
    PROVE  Sound(AddSceneItem(d, s, id, item).doc)
<1> DEFINE new == Appended(d.scenes[s], <<>>, id, item)
<1>1. CASE \/ s \notin Scenes(d)
           \/ ~ItemIsValid(d, s, item, 0)
           \/ HasChild(d.scenes[s], <<>>, id)
  BY <1>1, Answers DEF AddSceneItem
<1>2. CASE s \in Scenes(d) /\ ItemIsValid(d, s, item, 0) /\ ~HasChild(d.scenes[s], <<>>, id)
  <2>1. AddSceneItem(d, s, id, item).doc = WithScene(d, s, new)
    BY <1>2, Answers DEF AddSceneItem
  <2>2. <<>> \in Groups(d.scenes[s])
    BY <1>2, SceneFacts
  <2>3. /\ \A x \in References(item, "scene") : TargetIsValid(d, s, x)
        /\ \A x \in References(item, "source") : x \in DOMAIN d.sources
    BY <1>2 DEF ItemIsValid
  <2>4. Sound(WithScene(d, s, new))
    BY <1>2, <2>2, <2>3, ItemAppended
  <2> QED BY <2>1, <2>4
<1> QED BY <1>1, <1>2

(* A pasted item is there under an identifier of its own, with its sources or
   with copies of them; when it is refused nothing was copied. *)
LEMMA PasteItemIsSound ==
    ASSUME NEW d, Sound(d), NEW s, NEW parent, NEW id \in Identifiers,
           NEW item, Good(item), NEW mode
    PROVE  /\ Sound(PasteItem(d, s, parent, id, item, mode).doc)
           /\ ~PasteItem(d, s, parent, id, item, mode).ok
                => PasteItem(d, s, parent, id, item, mode).doc = d
<1> DEFINE r == PasteItem(d, s, parent, id, item, mode)
           t == d.scenes[s]
           copied == mode = "DuplicateSource"
           fresh == IF HasChild(t, parent, id)
                    THEN CopyOf(id, ToSet(t[parent].kids)) ELSE id
           more == WithCopiedSources(d, item)
           twin == OnCopiedSources(d, item)
           with == IF copied THEN more ELSE d
           pasted == IF copied THEN twin ELSE item
           refused == \/ s \notin Scenes(d)
                      \/ parent \notin Groups(t)
                      \/ Len(parent) > MaxDepth
                      \/ ~ItemIsValid(d, s, item, 0)
                      \/ HasChild(t, parent, id) /\ ~CanCopy(id, ToSet(t[parent].kids))
                      \/ copied /\ ~CanCopySources(d, item)
<1>1. CASE refused
  <2>1. r = Refused(d)
    BY <1>1 DEF PasteItem
  <2> QED BY <2>1, Answers
<1>2. CASE ~refused
  <2>1. /\ s \in Scenes(d) /\ parent \in Groups(t) /\ ItemIsValid(d, s, item, 0)
        /\ HasChild(t, parent, id) => CanCopy(id, ToSet(t[parent].kids))
        /\ copied => CanCopySources(d, item)
    BY <1>2
  <2>2. fresh \in Identifiers /\ ~HasChild(t, parent, fresh)
    <3> DEFINE list == t[parent].kids
    <3>1. \A x : HasChild(t, parent, x) <=> x \in ToSet(list)
      <4>1. list \in Seq(Identifiers)
        BY <2>1, SceneFacts, KidsFacts DEF Groups
      <4> QED BY <4>1, ListFacts DEF HasChild
    <3>2. CASE HasChild(t, parent, id)
      <4>1. fresh = CopyOf(id, ToSet(list)) /\ CanCopy(id, ToSet(list))
        BY <2>1, <3>2
      <4>2. /\ CopyOf(id, ToSet(list)) \in Identifiers
            /\ CopyOf(id, ToSet(list)) \notin ToSet(list)
        BY <4>1, CopyFacts
      <4> QED BY <3>1, <4>1, <4>2
    <3>3. CASE ~HasChild(t, parent, id)
      BY <3>3
    <3> QED BY <3>2, <3>3
  <2>3. r = Accepted(WithScene(with, s, Appended(t, parent, fresh, pasted)))
    BY <1>2, <2>2, Zenon DEF PasteItem
  <2>4. /\ \A x \in References(item, "scene") : TargetIsValid(d, s, x)
        /\ \A x \in References(item, "source") : x \in DOMAIN d.sources
    BY <2>1 DEF ItemIsValid
  <2> HIDE DEF fresh
  <2>5. CASE ~copied
    <3>1. Sound(WithScene(d, s, Appended(t, parent, fresh, item)))
      BY <2>1, <2>2, <2>4, ItemAppended
    <3>2. with = d /\ pasted = item
      BY <2>5
    <3> QED BY <2>3, <3>1, <3>2, Answers
  <2>6. CASE copied
    <3>1. CanCopySources(d, item) /\ IsTree(item)
      BY <2>1, <2>6 DEF Good
    <3>2. References(item, "source") \subseteq DOMAIN d.sources
      BY <2>4
    <3>3. /\ Sound(more) /\ more.scenes = d.scenes
          /\ \A x \in References(item, "source") : SourceCopies(d, item)[x] \in DOMAIN more.sources
      BY <3>1, <3>2, SourcesCopied
    <3>4. /\ Good(twin)
          /\ \A x \in References(twin, "source") :
                \E y \in References(item, "source") : x = SourceCopies(d, item)[y]
          /\ References(twin, "scene") \subseteq References(item, "scene")
      BY <3>1, OnCopiesFacts
    <3>5. with = more /\ pasted = twin
      BY <2>6
    <3> HIDE DEF more, twin, with, pasted
    <3>6. Scenes(more) = Scenes(d) /\ more.scenes[s] = t
      BY <3>3 DEF Scenes
    <3>7. \A x \in References(twin, "source") : x \in DOMAIN more.sources
      BY <3>3, <3>4
    <3>8. \A x \in References(twin, "scene") : TargetIsValid(more, s, x)
      <4>1. \A x : Scenes(d) \subseteq Scenes(more) => SceneRefers(more, x) = SceneRefers(d, x)
        BY <3>3 DEF SceneRefers
      <4>2. \A x \in References(twin, "scene") : TargetIsValid(d, s, x)
        BY <2>4, <3>4
      <4>3. \A x \in Scenes(d) : SceneRefers(more, x) \subseteq SceneRefers(d, x)
        BY <3>6, <4>1
      <4> QED BY <2>1, <3>6, <4>2, <4>3, TargetStaysValid
    <3>9. parent \in Groups(more.scenes[s]) /\ ~HasChild(more.scenes[s], parent, fresh)
      BY <2>1, <2>2, <3>6
    <3>10. Sound(WithScene(more, s, Appended(more.scenes[s], parent, fresh, twin)))
      BY <2>1, <2>2, <3>3, <3>4, <3>6, <3>7, <3>8, <3>9, ItemAppended
    <3> QED BY <2>3, <3>5, <3>6, <3>10, Answers
  <2> QED BY <2>5, <2>6
<1> QED BY <1>1, <1>2

LEMMA DuplicateItemIsSound ==
    ASSUME NEW d, Sound(d), NEW s \in Scenes(d), NEW target \in Path, target # <<>>, NEW mode
    PROVE  /\ Sound(DuplicateItem(d, s, target, mode).doc)
           /\ ~DuplicateItem(d, s, target, mode).ok => DuplicateItem(d, s, target, mode).doc = d
<1> DEFINE at == Resolve(d, s, target)
           r == DuplicateItem(d, s, target, mode)
           item == ItemAt(d.scenes[at.scene], at.path)
<1>1. CASE ~at.ok
  <2>1. r = Refused(d)
    BY <1>1 DEF DuplicateItem
  <2> QED BY <2>1, Answers
<1>2. CASE at.ok
  <2>1. r = PasteItem(d, at.scene, Front(at.path), Last(at.path), item, mode)
    BY <1>2 DEF DuplicateItem
  <2>2. /\ at.scene \in Scenes(d) /\ at.path \in DOMAIN d.scenes[at.scene]
        /\ at.path # <<>>
    BY <1>2, TargetFound
  <2>3. Good(item)
    BY <2>2, ItemFacts
  <2>4. Last(at.path) \in Identifiers
    BY <2>2, PlaceOfItem
  <2> HIDE DEF at, item
  <2> QED BY <2>1, <2>3, <2>4, PasteItemIsSound
<1> QED BY <1>1, <1>2

LEMMA RemoveItemIsSound ==
    ASSUME NEW d, Sound(d), NEW s \in Scenes(d), NEW target \in Path, target # <<>>
    PROVE  Sound(RemoveItem(d, s, target).doc)
<1> DEFINE at == Resolve(d, s, target)
           roots == {at.path}
<1>1. CASE ~at.ok
  BY <1>1, Answers DEF RemoveItem
<1>2. CASE at.ok
  <2>1. RemoveItem(d, s, target).doc
           = WithScene(d, at.scene, Detached(d.scenes[at.scene], roots))
    BY <1>2, Answers DEF RemoveItem, InOwner
  <2>2. /\ at.scene \in Scenes(d) /\ at.path \in DOMAIN d.scenes[at.scene]
        /\ at.path # <<>>
    BY <1>2, TargetFound
  <2>3. roots \in SUBSET (Path \ {<<>>})
    BY <2>2, ItemFacts
  <2> HIDE DEF at, roots
  <2> QED BY <2>1, <2>2, <2>3, ItemsDetached
<1> QED BY <1>1, <1>2

LEMMA RemoveItemsIsSound ==
    ASSUME NEW d, Sound(d), NEW s, NEW paths
    PROVE  Sound(RemoveItems(d, s, paths).doc)
<1> DEFINE t == d.scenes[s]
           refused == \/ paths = {}
                      \/ s \notin Scenes(d)
                      \/ \E p \in paths : \/ p \notin ItemPaths(t)
                                          \/ Len(p) > MaxDepth + 1
                                          \/ ~PathUnlocked(t, p)
<1>1. CASE refused
  BY <1>1, Answers DEF RemoveItems
<1>2. CASE ~refused
  <2>1. RemoveItems(d, s, paths).doc = WithScene(d, s, Detached(t, paths))
    BY <1>2, Answers DEF RemoveItems
  <2>2. s \in Scenes(d) /\ \A p \in paths : p \in DOMAIN t /\ p # <<>>
    BY <1>2 DEF ItemPaths
  <2>3. paths \in SUBSET (Path \ {<<>>})
    BY <2>2, ItemFacts
  <2> QED BY <2>1, <2>2, <2>3, ItemsDetached
<1> QED BY <1>1, <1>2

(* A scene whose lists change their order, or whose items a lock. *)
LEMMA SceneRelisted ==
    ASSUME NEW d, Sound(d), NEW s \in Scenes(d), NEW u, Relisted(d.scenes[s], u)
    PROVE  Sound(WithScene(d, s, u))
<1>1. Good(d.scenes[s]) /\ <<>> \in Groups(d.scenes[s])
  BY SceneFacts
<1>2. Good(u) /\ <<>> \in Groups(u)
  BY <1>1, RelistedIsGood, RelistedRoot
<1>3. \A k : References(u, k) = References(d.scenes[s], k)
  BY RelistedRefers
<1> QED BY <1>2, <1>3, SceneRearranged

LEMMA SetItemLockedIsSound ==
    ASSUME NEW d, Sound(d), NEW s \in Scenes(d), NEW target \in Path, target # <<>>,
           NEW locked \in BOOLEAN
    PROVE  Sound(SetItemLocked(d, s, target, locked).doc)
<1> DEFINE at == Resolve(d, s, target)
           t == d.scenes[at.scene]
           u == [t EXCEPT ![at.path].locked = locked]
<1>1. CASE ~at.ok
  BY <1>1, Answers DEF SetItemLocked
<1>2. CASE at.ok
  <2>1. SetItemLocked(d, s, target, locked).doc = WithScene(d, at.scene, u)
    BY <1>2, Answers DEF SetItemLocked, InOwner
  <2>2. at.scene \in Scenes(d) /\ at.path \in DOMAIN t
    BY <1>2, TargetFound
  <2>3. Relisted(t, u)
    BY <2>2, SceneFacts, LockIsRelisted
  <2> HIDE DEF at, u
  <2> QED BY <2>1, <2>2, <2>3, SceneRelisted
<1> QED BY <1>1, <1>2

LEMMA ItemMovedWithin ==
    ASSUME NEW d, Sound(d), NEW s \in Scenes(d), NEW p \in DOMAIN d.scenes[s], p # <<>>,
           NEW index \in Nat, ~(index >= Len(d.scenes[s][Front(p)].kids))
    PROVE  Rearranged(d, WithScene(d, s, MovedWithin(d.scenes[s], p, index)))
<1> DEFINE t == d.scenes[s]
           u == MovedWithin(t, p, index)
<1>1. Good(t) /\ Front(p) \in DOMAIN t /\ <<>> \in Groups(t)
  BY SceneFacts, PlaceOfItem
<1>2. index < Len(t[Front(p)].kids)
  <2>1. Len(t[Front(p)].kids) \in Nat
    BY <1>1, KidsFacts
  <2> QED BY <2>1
<1>3. Relisted(t, u)
  BY <1>1, <1>2, MovedWithinIsRelisted
<1>4. IsTree(u) /\ <<>> \in Groups(u)
  BY <1>1, <1>3, RelistedIsGood, RelistedRoot DEF Good
<1>5. /\ \A q : IsLeaf(u, q) <=> IsLeaf(t, q)
      /\ \A q : IsLeaf(t, q) => u[q] = t[q]
  BY <1>1, ListMoved
<1> HIDE DEF u
<1>6. Sound(WithScene(d, s, u))
  BY <1>3, SceneRelisted
<1>7. Uses(WithScene(d, s, u)) = Uses(d)
  BY <1>4, <1>5, UsesInPlace
<1> QED BY <1>6, <1>7 DEF u, Rearranged

LEMMA MoveItemRearranges ==
    ASSUME NEW d, Sound(d), NEW s \in Scenes(d), NEW target \in Path, target # <<>>,
           NEW index \in Nat
    PROVE  Rearranged(d, MoveItem(d, s, target, index).doc)
<1> DEFINE at == Resolve(d, s, target)
           t == d.scenes[at.scene]
<1>1. CASE ~at.ok \/ index >= Len(t[Front(at.path)].kids)
  BY <1>1, Answers, NothingRearranged DEF MoveItem
<1>2. CASE at.ok /\ ~(index >= Len(t[Front(at.path)].kids))
  <2>1. MoveItem(d, s, target, index).doc
           = WithScene(d, at.scene, MovedWithin(t, at.path, index))
    BY <1>2, Answers DEF MoveItem, InOwner
  <2>2. at.scene \in Scenes(d) /\ at.path \in DOMAIN t /\ at.path # <<>>
    BY <1>2, TargetFound
  <2> HIDE DEF at
  <2>3. Rearranged(d, WithScene(d, at.scene, MovedWithin(t, at.path, index)))
    BY <1>2, <2>2, ItemMovedWithin
  <2> QED BY <2>1, <2>3
<1> QED BY <1>1, <1>2

-----------------------------------------------------------------------------
(* Groups that come and go *)

(* A list that keeps what is listed before place i is not shorter than that. *)
LEMMA RoomBefore ==
    ASSUME NEW S, NEW list \in Seq(S), Distinct(list), NEW i \in 1..Len(list),
           NEW less \in Seq(S), Distinct(less),
           \A k \in 1..(i - 1) : list[k] \in ToSet(less)
    PROVE  i - 1 \in 0..Len(less)
<1> DEFINE part == SubSeq(list, 1, i - 1)
<1>1. Len(list) \in Nat /\ Len(less) \in Nat
  BY ListFacts
<1>2. 1 \in 1..(Len(list) + 1) /\ i - 1 \in 0..Len(list)
  BY <1>1
<1>3. /\ part \in Seq(S)
      /\ \A x : x \in ToSet(part) <=> \E k \in 1..(i - 1) : x = list[k]
      /\ Distinct(part)
      /\ Len(part) = IF 1 <= i - 1 THEN (i - 1) - 1 + 1 ELSE 0
  BY <1>2, PartOfList
<1> HIDE DEF part
<1>4. Len(part) = i - 1
  BY <1>1, <1>3
<1>5. ToSet(part) \subseteq ToSet(less)
  BY <1>3
<1>6. /\ IsFiniteSet(ToSet(less)) /\ Cardinality(ToSet(less)) = Len(less)
      /\ Cardinality(ToSet(part)) = Len(part)
  BY <1>3, DistinctLength
<1>7. Cardinality(ToSet(part)) <= Cardinality(ToSet(less))
  BY <1>5, <1>6, FS_Subset
<1> QED BY <1>1, <1>4, <1>6, <1>7

(* The index a group is given is one its list has when its items are gone. *)
LEMMA FirstIndexFacts ==
    ASSUME NEW S, NEW list \in Seq(S), Distinct(list), NEW ids,
           NEW id \in ids, id \in ToSet(list),
           NEW less \in Seq(S), Distinct(less),
           \A x : x \in ToSet(less) <=> x \in ToSet(list) /\ x \notin ids
    PROVE  FirstIndex(list, ids) \in 0..Len(less)
<1> DEFINE First(i) == list[i] \in ids /\ \A k \in 1..(i - 1) : list[k] \notin ids
           T == {i \in DOMAIN list : list[i] \in ids}
           f == CHOOSE i \in DOMAIN list : First(i)
<1>1. /\ Len(list) \in Nat /\ DOMAIN list = 1..Len(list)
      /\ ToSet(list) = {list[i] : i \in 1..Len(list)}
  BY ListFacts
<1>2. T # {} /\ T \subseteq Nat
  BY <1>1
<1>3. PICK x \in T : \A y \in T : x <= y
  <2> HIDE DEF T
  <2> QED BY <1>2, LeastNumber
<1>4. x \in DOMAIN list /\ First(x)
  <2>1. x \in DOMAIN list /\ list[x] \in ids
    BY <1>3
  <2>2. ASSUME NEW k \in 1..(x - 1) PROVE list[k] \notin ids
    <3>1. k \in DOMAIN list /\ ~(x <= k)
      BY <1>1, <2>1
    <3>2. k \notin T
      BY <1>3, <3>1
    <3> QED BY <3>1, <3>2
  <2> QED BY <2>1, <2>2
<1>5. f \in DOMAIN list /\ First(f)
  <2> HIDE DEF First
  <2> QED BY <1>4, Zenon
<1>6. FirstIndex(list, ids) = f - 1
  BY DEF FirstIndex
<1> HIDE DEF f
<1>7. \A k \in 1..(f - 1) : list[k] \in ToSet(less)
  BY <1>1, <1>5
<1>8. f - 1 \in 0..Len(less)
  BY <1>1, <1>5, <1>7, RoomBefore
<1> QED BY <1>6, <1>8

(* The paths of some children of a group, of which it has one at least. *)
Picks(t, parent, ids, roots) ==
    /\ parent \in Groups(t)
    /\ ids \in SUBSET Identifiers
    /\ \A p : p \in roots <=> \E id \in ids : p = Child(parent, id)
    /\ \E id \in ids : id \in ToSet(t[parent].kids)

(* What leaves a parent for a new group in it, and where the group goes. *)
LEMMA GroupFits ==
    ASSUME NEW t, Good(t), <<>> \in Groups(t),
           NEW parent, NEW ids, NEW roots, Picks(t, parent, ids, roots),
           NEW group \in Identifiers, ~HasChild(t, parent, group)
    PROVE  /\ roots \in SUBSET (Path \ {<<>>})
           /\ Good(Detached(t, roots)) /\ <<>> \in Groups(Detached(t, roots))
           /\ Good(GroupOf(t, parent, ids))
           /\ parent \in Groups(Detached(t, roots))
           /\ parent \in DOMAIN Detached(t, roots)
           /\ group \notin ToSet(Detached(t, roots)[parent].kids)
           /\ FirstIndex(t[parent].kids, ids) \in 0..Len(Detached(t, roots)[parent].kids)
<1> DEFINE left == Detached(t, roots)
           list == t[parent].kids
           index == FirstIndex(list, ids)
           item == GroupOf(t, parent, ids)
<1>1. parent \in DOMAIN t /\ t[parent].kind = "group" /\ ids \in SUBSET Identifiers
  BY DEF Groups, Picks
<1>2. /\ \A p : p \in roots <=> \E id \in ids : p = Child(parent, id)
      /\ \E id \in ids : id \in ToSet(list)
  BY DEF Picks
<1>3. PICK one \in ids : one \in ToSet(list)
  BY <1>2
<1>4. parent \in Path /\ list \in Seq(Identifiers) /\ Distinct(list)
  BY <1>1, KidsFacts
<1>5. roots \in SUBSET (Path \ {<<>>})
  <2>1. ASSUME NEW id \in ids
        PROVE  Child(parent, id) \in Path /\ Child(parent, id) # <<>>
    <3>1. id \in Identifiers
      BY <1>1
    <3> QED BY <1>4, <3>1, ChildOfPath
  <2> QED BY <1>2, <2>1
<1>6. Good(left) /\ <<>> \in Groups(left) /\ Good(item)
  BY <1>1, <1>5, DetachedIsGood, DetachedRoot, GroupOfIsGood
<1>7. parent \in DOMAIN left
  <2>1. DOMAIN left = {q \in DOMAIN t : \A p \in roots : ~IsPrefix(p, q)}
    BY <1>5, DetachedFacts
  <2>2. \A id \in ids : ~IsPrefix(Child(parent, id), parent)
    BY <1>1, <1>4, ChildIsBelow
  <2> HIDE DEF left
  <2> QED BY <1>1, <1>2, <2>1, <2>2
<1>8. /\ left[parent].kind = "group"
      /\ \A x : x \in ToSet(left[parent].kids)
                   <=> x \in ToSet(list) /\ Child(parent, x) \notin roots
      /\ Distinct(left[parent].kids)
  BY <1>1, <1>5, <1>7, DetachedNodes
<1>9. \A x \in Identifiers : Child(parent, x) \in roots <=> x \in ids
  <2>1. \A x \in Identifiers, id \in ids : Child(parent, x) = Child(parent, id) => x = id
    BY <1>1, <1>4, ChildCancels
  <2> QED BY <1>2, <2>1
<1>10. \A x \in ToSet(list) : x \in Identifiers
  BY <1>4, ListFacts
<1>11. left[parent].kids \in Seq(Identifiers)
  BY <1>6, <1>7, KidsFacts
<1> HIDE DEF left, item
<1>12. \A x : x \in ToSet(left[parent].kids) <=> x \in ToSet(list) /\ x \notin ids
  BY <1>8, <1>9, <1>10
<1>13. index \in 0..Len(left[parent].kids)
  <2> HIDE DEF list
  <2> QED BY <1>1, <1>3, <1>4, <1>8, <1>11, <1>12, FirstIndexFacts DEF list
<1>14. group \notin ToSet(left[parent].kids)
  <2>1. group \notin ToSet(list)
    BY <1>4, ListFacts DEF HasChild
  <2> QED BY <1>12, <2>1
<1>15. parent \in Groups(left)
  BY <1>7, <1>8 DEF Groups
<1> HIDE DEF index
<1> QED BY <1>5, <1>6, <1>7, <1>13, <1>14, <1>15 DEF left, item, index

(* The items of the group are where they were, one level down. *)
LEMMA GroupedLeaves ==
    ASSUME NEW t, Good(t), NEW parent \in Groups(t), NEW ids \in SUBSET Identifiers,
           NEW roots \in SUBSET (Path \ {<<>>}),
           \A p : p \in roots <=> \E id \in ids : p = Child(parent, id),
           NEW group \in Identifiers, NEW index,
           Good(Detached(t, roots)), parent \in Groups(Detached(t, roots)),
           Good(GroupOf(t, parent, ids)),
           group \notin ToSet(Detached(t, roots)[parent].kids),
           index \in 0..Len(Detached(t, roots)[parent].kids)
    PROVE  \E V \in SUBSET Path :
              LeavesShifted(t, Attached(Detached(t, roots), parent, group, index,
                                        GroupOf(t, parent, ids)),
                            parent, Child(parent, group), V)
<1> DEFINE left == Detached(t, roots)
           item == GroupOf(t, parent, ids)
           u == Attached(left, parent, group, index, item)
           at == Child(parent, group)
           V == {v \in DOMAIN item : v # <<>>}
<1>1. parent \in Path /\ at \in Path
  <2>1. parent \in DOMAIN t
    BY DEF Groups
  <2>2. parent \in Path
    BY <2>1, KidsFacts
  <2> QED BY <2>2, ChildOfPath
<1>2. /\ \A q \in DOMAIN item : q \in Path
      /\ \A v : v \in V <=>
            /\ v \in Path /\ v # <<>>
            /\ Join(parent, v) \in DOMAIN t
            /\ \E id \in ids : IsPrefix(Child(parent, id), Join(parent, v))
      /\ \A v \in V : item[v] = t[Join(parent, v)]
      /\ item[<<>>].kind = "group"
  <2>1. \A q : q \in DOMAIN item <=>
           \/ q = <<>>
           \/ /\ q \in Path
              /\ Join(parent, q) \in DOMAIN t
              /\ \E id \in ids : IsPrefix(Child(parent, id), Join(parent, q))
    BY GroupOfFacts DEF Groups
  <2>2. /\ \A q \in DOMAIN item : q # <<>> => item[q] = t[Join(parent, q)]
        /\ item[<<>>] = Node("group", <<>>, Among(t[parent].kids, ids))
    BY GroupOfFacts DEF Groups
  <2>3. item[<<>>].kind = "group"
    BY <2>2 DEF Node
  <2> HIDE DEF item
  <2> QED BY <2>1, <2>2, <2>3, EmptyIsPath
<1>3. /\ \A p : IsLeaf(left, p) <=> IsLeaf(t, p) /\ \A q \in roots : ~IsPrefix(q, p)
      /\ \A p : IsLeaf(left, p) => left[p] = t[p]
  BY DetachedLeaves
<1>4. /\ \A p : IsLeaf(u, p) <=>
            \/ IsLeaf(left, p)
            \/ \E v \in DOMAIN item : p = Join(at, v) /\ item[v].kind # "group"
      /\ \A p : IsLeaf(left, p) => u[p] = left[p]
      /\ \A p : IsLeaf(left, p) => ~IsPrefix(at, p)
      /\ \A v \in DOMAIN item : u[Join(at, v)] = item[v]
  BY AttachedLeaves
<1>5. /\ \A v \in V : v \in DOMAIN item /\ v \in Path /\ v # <<>>
      /\ \A v \in DOMAIN item : v # <<>> => v \in V
      /\ V \in SUBSET Path
  BY <1>2
<1>6. \A v \in V : Join(parent, v) # <<>> /\ IsPrefix(at, Join(at, v))
  BY <1>1, <1>5, OnlyTheRootIsEmpty, JoinOfPaths
<1> HIDE DEF u, left, item, V, at
<1>7. \A v \in V : \E q \in roots : IsPrefix(q, Join(parent, v))
  BY <1>2
<1>8. ASSUME NEW p, IsLeaf(t, p), NEW q \in roots, IsPrefix(q, p)
      PROVE  \E v \in V : p = Join(parent, v)
  <2>1. p \in DOMAIN t /\ p \in Path
    <3>1. p \in DOMAIN t
      BY <1>8 DEF IsLeaf, ItemPaths
    <3> QED BY <3>1, KidsFacts
  <2>2. PICK id \in ids : q = Child(parent, id)
    OBVIOUS
  <2>3. PICK w \in Path : p = Join(Child(parent, id), w)
    <3>1. Child(parent, id) \in Path
      BY <2>2
    <3> QED BY <1>8, <2>1, <2>2, <3>1, PathPrefix
  <2>4. id \in Identifiers
    OBVIOUS
  <2>5. Child(parent, id) = Join(parent, Child(<<>>, id)) /\ Child(<<>>, id) \in Path
    BY <1>1, <2>4, EmptyIsPath, JoinEmpty, ChildOfJoin, ChildOfPath
  <2> DEFINE v == Join(Child(<<>>, id), w)
  <2>6. p = Join(parent, v) /\ v \in Path
    BY <1>1, <2>3, <2>5, JoinAssociates, JoinOfPaths
  <2> HIDE DEF v
  <2>7. v # <<>>
    <3>1. CASE v = <<>>
      <4>1. p = parent
        BY <1>1, <2>6, <3>1, JoinEmpty
      <4> QED BY <1>1, <1>8, <2>2, <2>4, <4>1, ChildIsBelow
    <3> QED BY <3>1
  <2>8. v \in V
    BY <1>2, <1>8, <2>1, <2>2, <2>6, <2>7
  <2> QED BY <2>6, <2>8
<1>9. \A v \in V : IsLeaf(t, Join(parent, v)) =>
         IsLeaf(u, Join(at, v)) /\ u[Join(at, v)] = t[Join(parent, v)]
  BY <1>2, <1>4, <1>5 DEF IsLeaf
<1>10. ASSUME NEW p, IsLeaf(t, p), ~(\E v \in V : p = Join(parent, v))
       PROVE  /\ IsLeaf(u, p)
              /\ u[p] = t[p]
              /\ ~(\E v \in V : p = Join(at, v))
  <2>1. IsLeaf(left, p)
    BY <1>3, <1>8, <1>10
  <2>2. u[p] = t[p]
    BY <1>3, <1>4, <2>1
  <2> QED BY <1>4, <1>6, <2>1, <2>2
<1>11. ASSUME NEW p, IsLeaf(u, p)
       PROVE  \/ \E v \in V : p = Join(at, v) /\ IsLeaf(t, Join(parent, v))
              \/ IsLeaf(t, p) /\ ~(\E v \in V : p = Join(parent, v))
  <2>1. CASE IsLeaf(left, p)
    BY <1>3, <1>7, <2>1
  <2>2. CASE \E v \in DOMAIN item : p = Join(at, v) /\ item[v].kind # "group"
    <3>1. PICK v \in DOMAIN item : p = Join(at, v) /\ item[v].kind # "group"
      BY <2>2
    <3>2. v \in V
      BY <1>2, <1>5, <3>1
    <3>3. IsLeaf(t, Join(parent, v))
      BY <1>2, <1>6, <3>1, <3>2 DEF IsLeaf, ItemPaths
    <3> QED BY <3>1, <3>2, <3>3
  <2> QED BY <1>4, <1>11, <2>1, <2>2
<1>12. LeavesShifted(t, u, parent, at, V)
  BY <1>9, <1>10, <1>11, Zenon DEF LeavesShifted
<1>13. \E W \in SUBSET Path : LeavesShifted(t, u, parent, at, W)
  BY <1>5, <1>12
<1> QED BY <1>13 DEF u, left, item, at

(* Children that leave a parent for a new group in it. *)
LEMMA ItemsGrouped ==
    ASSUME NEW d, Sound(d), NEW s \in Scenes(d), NEW parent \in Groups(d.scenes[s]),
           NEW ids \in SUBSET Identifiers,
           NEW roots, \A p : p \in roots <=> \E id \in ids : p = Child(parent, id),
           NEW one \in ids, one \in ToSet(d.scenes[s][parent].kids),
           NEW group \in Identifiers, ~HasChild(d.scenes[s], parent, group)
    PROVE  Rearranged(d, WithScene(d, s,
                    Attached(Detached(d.scenes[s], roots), parent, group,
                             FirstIndex(d.scenes[s][parent].kids, ids),
                             GroupOf(d.scenes[s], parent, ids))))
<1> DEFINE t == d.scenes[s]
           left == Detached(t, roots)
           index == FirstIndex(t[parent].kids, ids)
           item == GroupOf(t, parent, ids)
           u == Attached(left, parent, group, index, item)
<1>1. Good(t) /\ <<>> \in Groups(t) /\ parent \in DOMAIN t
  BY SceneFacts DEF Groups
<1>2. /\ roots \in SUBSET (Path \ {<<>>})
      /\ Good(left) /\ <<>> \in Groups(left)
      /\ Good(item)
      /\ parent \in Groups(left) /\ parent \in DOMAIN left
      /\ group \notin ToSet(left[parent].kids)
      /\ index \in 0..Len(left[parent].kids)
  <2>1. Picks(t, parent, ids, roots)
    BY DEF Picks
  <2>2. ~HasChild(t, parent, group)
    OBVIOUS
  <2> HIDE DEF t
  <2> QED BY <1>1, <2>1, <2>2, GroupFits
<1>3. \E V \in SUBSET Path : LeavesShifted(t, u, parent, Child(parent, group), V)
  <2> HIDE DEF index
  <2> QED BY <1>1, <1>2, GroupedLeaves
<1>4. parent \in Path /\ Child(parent, group) \in Path
  BY <1>1, KidsFacts, ChildOfPath
<1> HIDE DEF index, left, item
<1>5. Good(u)
  BY <1>2, AttachedIsGood
<1>6. <<>> \in Groups(u)
  BY <1>2, AttachedRoot
<1>7. \A k : References(u, k) \subseteq References(left, k) \cup References(item, k)
  BY <1>2, AttachedRefers
<1>8. \A k : References(left, k) \subseteq References(t, k)
  BY <1>1, <1>2, DetachedRefers DEF left
<1>9. \A k : k # "group" => References(item, k) \subseteq References(t, k)
  BY <1>1, GroupOfRefers DEF item
<1> HIDE DEF u
<1>10. Uses(WithScene(d, s, u)) = Uses(d)
  BY <1>3, <1>4, <1>5, <1>6, UsesInScene DEF Good
<1> HIDE DEF t
<1>11. \A x \in References(u, "source") : x \in References(t, "source")
  BY <1>7, <1>8, <1>9
<1>12. \A x \in References(u, "scene") : x \in References(t, "scene")
  BY <1>7, <1>8, <1>9
<1>13. Sound(WithScene(d, s, u))
  BY <1>5, <1>6, <1>11, <1>12, SceneRearranged DEF t
<1> QED BY <1>10, <1>13 DEF Rearranged, u, left, index, item, t

LEMMA GroupItemsRearranges ==
    ASSUME NEW d, Sound(d), NEW s \in Scenes(d), NEW paths,
           \A p \in paths : p \in Path /\ p # <<>>,
           NEW group \in Identifiers
    PROVE  Rearranged(d, GroupItems(d, s, paths, group).doc)
<1> DEFINE owners == {Resolve(d, s, p) : p \in paths}
           one == CHOOSE o \in owners : TRUE
           parent == Front(one.path)
           t == d.scenes[one.scene]
           ids == {Last(o.path) : o \in owners}
           list == t[parent].kids
           refused == \/ Cardinality(paths) < 2
                      \/ \E o \in owners : ~o.ok
                      \/ \E o \in owners : <<o.scene, Front(o.path)>> # <<one.scene, parent>>
                      \/ Cardinality(ids) # Cardinality(paths)
                      \/ HasChild(t, parent, group)
                      \/ \E id \in ids : t[Append(parent, id)].locked
           roots == {Append(parent, id) : id \in ids}
           u == Attached(Detached(t, roots), parent, group, FirstIndex(list, ids),
                         GroupOf(t, parent, ids))
<1>1. CASE refused
  <2>1. GroupItems(d, s, paths, group) = Refused(d)
    BY <1>1, Zenon DEF GroupItems
  <2> QED BY <2>1, Answers, NothingRearranged
<1>2. CASE ~refused
  <2>1. GroupItems(d, s, paths, group) = InOwner(d, one, u)
    BY <1>2, Zenon DEF GroupItems
  <2>2. GroupItems(d, s, paths, group).doc = WithScene(d, one.scene, u)
    <3> HIDE DEF u, one
    <3> QED BY <2>1, Answers DEF InOwner
  <2>3. owners # {}
    <3>1. ~(Cardinality(paths) < 2)
      BY <1>2, Zenon
    <3>2. paths # {}
      BY <3>1, FS_EmptySet
    <3> QED BY <3>2
  <2>4. one \in owners
    <3> HIDE DEF owners
    <3> QED BY <2>3, Zenon
  <2>5. \A o \in owners : /\ o.ok
                          /\ o.scene = one.scene
                          /\ Front(o.path) = parent
    <3> HIDE DEF owners, one
    <3> QED BY <1>2
  <2>6. \A o \in owners : /\ o.scene \in Scenes(d)
                          /\ o.path \in DOMAIN d.scenes[o.scene]
                          /\ o.path # <<>>
    <3>1. ASSUME NEW p \in paths
          PROVE  LET o == Resolve(d, s, p)
                 IN  o.scene \in Scenes(d) /\ o.path \in DOMAIN d.scenes[o.scene] /\ o.path # <<>>
      <4>1. Resolve(d, s, p) \in owners
        OBVIOUS
      <4>2. Resolve(d, s, p).ok
        <5> HIDE DEF owners, one
        <5> QED BY <2>5, <4>1
      <4> QED BY <4>2, TargetFound
    <3> HIDE DEF one
    <3> QED BY <3>1
  <2>7. ~HasChild(t, parent, group)
    BY <1>2
  <2>8. /\ \A id : id \in ids <=> \E o \in owners : id = Last(o.path)
        /\ \A p : p \in roots <=> \E id \in ids : p = Child(parent, id)
    BY DEF Child
  <2> HIDE DEF owners, one, roots, ids
  <2>9. \A o \in owners : Last(o.path) \in Identifiers
    BY <2>6, PlaceOfItem
  <2>10. one.scene \in Scenes(d) /\ parent \in Groups(t) /\ Last(one.path) \in ToSet(list)
    BY <2>4, <2>6, PlaceOfItem
  <2>11. ids \in SUBSET Identifiers /\ Last(one.path) \in ids
    BY <2>4, <2>8, <2>9
  <2> HIDE DEF parent
  <2>12. Rearranged(d, WithScene(d, one.scene, u))
    BY <2>7, <2>8, <2>10, <2>11, ItemsGrouped
  <2> QED BY <2>2, <2>12
<1> QED BY <1>1, <1>2

LEMMA UngroupItemRearranges ==
    ASSUME NEW d, Sound(d), NEW s \in Scenes(d), NEW target \in Path, target # <<>>
    PROVE  Rearranged(d, UngroupItem(d, s, target).doc)
<1> DEFINE at == Resolve(d, s, target)
           t == d.scenes[at.scene]
           siblings == ToSet(t[Front(at.path)].kids) \ {Last(at.path)}
           refused == \/ ~at.ok
                      \/ t[at.path].kind # "group"
                      \/ t[at.path].locked
                      \/ ToSet(t[at.path].kids) \cap siblings # {}
<1>1. CASE refused
  <2>1. UngroupItem(d, s, target) = Refused(d)
    BY <1>1 DEF UngroupItem
  <2> QED BY <2>1, Answers, NothingRearranged
<1>2. CASE ~refused
  <2> DEFINE u == Dissolved(t, at.path)
  <2>1. UngroupItem(d, s, target).doc = WithScene(d, at.scene, u)
    BY <1>2, Answers DEF UngroupItem, InOwner
  <2>2. at.scene \in Scenes(d) /\ at.path \in DOMAIN t /\ at.path # <<>>
    BY <1>2, TargetFound
  <2>3. \A id \in ToSet(t[at.path].kids) :
           id \in ToSet(t[Front(at.path)].kids) => id = Last(at.path)
    BY <1>2
  <2> HIDE DEF at
  <2>4. Good(t) /\ <<>> \in Groups(t)
    BY <2>2, SceneFacts
  <2>5. Good(u)
    BY <2>2, <2>3, <2>4, DissolvedIsGood
  <2>6. <<>> \in Groups(u)
    BY <2>2, <2>4, DissolvedRoot
  <2>7. \A k : References(u, k) \subseteq References(t, k)
    BY <2>2, <2>4, DissolvedRefers
  <2>8. Uses(WithScene(d, at.scene, u)) = Uses(d)
    BY <1>2, <2>2, <2>3, DissolvedConserves
  <2> HIDE DEF u
  <2>9. Sound(WithScene(d, at.scene, u))
    BY <2>2, <2>5, <2>6, <2>7, SceneRearranged
  <2> QED BY <2>1, <2>8, <2>9 DEF Rearranged
<1> QED BY <1>1, <1>2

-----------------------------------------------------------------------------
(* Runs of a list *)

(* The part of a list from m to n. *)
Cut(list, m, n) == SubSeq(list, m, n)

LEMMA AppendedToJoin ==
    ASSUME NEW S, NEW p \in Seq(S), NEW r \in Seq(S), NEW e \in S
    PROVE  Child(Join(p, r), e) = Join(p, Child(r, e))
<1>1. <<e>> \in Seq(S)
  OBVIOUS
<1>2. Append(p \o r, e) = (p \o r) \o <<e>>
  BY <1>1, ExtensionFacts, AppendIsConcat
<1>3. Append(r, e) = r \o <<e>>
  BY <1>1, AppendIsConcat
<1> DEFINE one == <<e>>
<1> HIDE DEF one
<1>4. (p \o r) \o one = p \o (r \o one)
  BY <1>1, ConcatAssociative DEF one
<1>5. Append(p \o r, e) = p \o Append(r, e)
  BY <1>2, <1>3, <1>4 DEF one
<1> QED BY <1>5 DEF Child, Join

LEMMA CutFacts ==
    ASSUME NEW S, NEW list \in Seq(S)
    PROVE  /\ \A m \in 1..(Len(list) + 1), n \in 0..Len(list) :
                 /\ Cut(list, m, n) \in Seq(S)
                 /\ n < m => Cut(list, m, n) = <<>>
                 /\ Len(Cut(list, m, n)) = IF m <= n THEN n - m + 1 ELSE 0
                 /\ \A k \in 1..(n - m + 1) : Cut(list, m, n)[k] = list[m + k - 1]
           /\ \A m \in 1..Len(list) : \A n \in m..Len(list) :
                 Cut(list, m, n) = Child(Cut(list, m, n - 1), list[n])
           /\ Cut(list, 1, Len(list)) = list
<1>1. Len(list) \in Nat
  BY ListFacts
<1>2. ASSUME NEW m \in 1..(Len(list) + 1), NEW n \in 0..Len(list)
      PROVE  /\ Cut(list, m, n) \in Seq(S)
             /\ n < m => Cut(list, m, n) = <<>>
             /\ Len(Cut(list, m, n)) = IF m <= n THEN n - m + 1 ELSE 0
             /\ \A k \in 1..(n - m + 1) : Cut(list, m, n)[k] = list[m + k - 1]
  <2>1. m \in Int /\ n \in Int
    BY <1>1
  <2>2. n < m => Cut(list, m, n) = <<>>
    BY <2>1, SubSeqEmpty DEF Cut
  <2>3. /\ Cut(list, m, n) \in Seq(S)
        /\ Len(Cut(list, m, n)) = IF m <= n THEN n - m + 1 ELSE 0
        /\ \A k \in 1..(n - m + 1) : Cut(list, m, n)[k] = list[m + k - 1]
    BY <1>1, PartOfList DEF Cut
  <2> QED BY <2>2, <2>3
<1>3. ASSUME NEW m \in 1..Len(list), NEW n \in m..Len(list)
      PROVE  Cut(list, m, n) = Child(Cut(list, m, n - 1), list[n])
  <2>1. SubSeq(list, m, n) = SubSeq(list, m, n - 1) \o <<list[n]>>
    BY SubSeqRecursiveSecond
  <2>2. Cut(list, m, n - 1) \in Seq(S) /\ list[n] \in S
    <3>1. m \in 1..(Len(list) + 1) /\ n - 1 \in 0..Len(list) /\ n \in 1..Len(list)
      BY <1>1
    <3> QED BY <1>2, <3>1, ListFacts
  <2>3. Append(Cut(list, m, n - 1), list[n]) = Cut(list, m, n - 1) \o <<list[n]>>
    BY <2>2, AppendIsConcat
  <2> QED BY <2>1, <2>3 DEF Cut, Child
<1>4. Cut(list, 1, Len(list)) = list
  BY SubSeqFull DEF Cut
<1> QED BY <1>2, <1>3, <1>4

(* Whatever collects as the recursion does returns what it returns. *)
LEMMA AmongSolved ==
    ASSUME NEW S, NEW list \in Seq(S), NEW ids,
           NEW f \in [0..Len(list) -> Seq(S)], f[0] = <<>>,
           \A n \in 1..Len(list) :
              f[n] = IF list[n] \in ids THEN Child(f[n - 1], list[n]) ELSE f[n - 1]
    PROVE  Among(list, ids) = f[Len(list)]
<1>1. f \in Collected(S, list, ids)
  BY DEF Collected, Child
<1> QED BY <1>1, AmongIsCollected, CollectedIsUnique

LEMMA AmongAll ==
    ASSUME NEW S, NEW list \in Seq(S), NEW ids, \A n \in 1..Len(list) : list[n] \in ids
    PROVE  Among(list, ids) = list
<1> DEFINE f == [n \in 0..Len(list) |-> Cut(list, 1, n)]
<1>1. Len(list) \in Nat
  BY ListFacts
<1>2. f \in [0..Len(list) -> Seq(S)] /\ f[0] = <<>>
  <2>1. 1 \in 1..(Len(list) + 1) /\ 0 \in 0..Len(list) /\ 0 < 1
    BY <1>1
  <2>2. Cut(list, 1, 0) = <<>> /\ \A n \in 0..Len(list) : Cut(list, 1, n) \in Seq(S)
    BY <2>1, CutFacts
  <2> QED BY <2>1, <2>2
<1>3. ASSUME NEW n \in 1..Len(list)
      PROVE  f[n] = IF list[n] \in ids THEN Child(f[n - 1], list[n]) ELSE f[n - 1]
  <2>1. /\ n \in 0..Len(list) /\ n - 1 \in 0..Len(list)
        /\ 1 \in 1..Len(list) /\ n \in 1..Len(list)
    BY <1>1
  <2>2. f[n] = Cut(list, 1, n) /\ f[n - 1] = Cut(list, 1, n - 1)
    BY <2>1
  <2>3. Cut(list, 1, n) = Child(Cut(list, 1, n - 1), list[n])
    BY <2>1, CutFacts
  <2> HIDE DEF f
  <2> QED BY <2>2, <2>3
<1>4. f[Len(list)] = list
  BY <1>1, CutFacts
<1> HIDE DEF f
<1> QED BY <1>2, <1>3, <1>4, AmongSolved

(* Where ids is a run of the list. *)
LEMMA AmongRun ==
    ASSUME NEW S, NEW list \in Seq(S), NEW a \in 1..Len(list), NEW b \in a..Len(list),
           NEW ids, \A n \in 1..Len(list) : list[n] \in ids <=> a <= n /\ n <= b
    PROVE  Among(list, ids) = Cut(list, a, b)
<1> DEFINE f == [n \in 0..Len(list) |-> Cut(list, a, IF n <= b THEN n ELSE b)]
<1>1. Len(list) \in Nat /\ a \in 1..(Len(list) + 1) /\ b \in 1..Len(list)
  <2>1. Len(list) \in Nat
    BY ListFacts
  <2> QED BY <2>1
<1>2. /\ \A n \in 0..Len(list) : Cut(list, a, n) \in Seq(S)
      /\ \A n \in 0..Len(list) : n < a => Cut(list, a, n) = <<>>
  <2>1. \A m \in 1..(Len(list) + 1), n \in 0..Len(list) :
           Cut(list, m, n) \in Seq(S) /\ (n < m => Cut(list, m, n) = <<>>)
    BY CutFacts
  <2> QED BY <1>1, <2>1
<1>5. f \in [0..Len(list) -> Seq(S)] /\ f[0] = <<>>
  <2>1. \A n \in 0..Len(list) : (IF n <= b THEN n ELSE b) \in 0..Len(list)
    BY <1>1
  <2>2. 0 \in 0..Len(list) /\ 0 < a /\ 0 <= b
    BY <1>1
  <2> QED BY <1>2, <2>1, <2>2
<1>3. ASSUME NEW n \in 1..Len(list)
      PROVE  f[n] = IF list[n] \in ids THEN Child(f[n - 1], list[n]) ELSE f[n - 1]
  <2>1. n \in 0..Len(list) /\ n - 1 \in 0..Len(list)
    BY <1>1
  <2>2. /\ f[n] = Cut(list, a, IF n <= b THEN n ELSE b)
        /\ f[n - 1] = Cut(list, a, IF n - 1 <= b THEN n - 1 ELSE b)
    BY <2>1
  <2> HIDE DEF f
  <2>3. CASE n < a
    <3>1. f[n] = Cut(list, a, n) /\ f[n - 1] = Cut(list, a, n - 1)
      BY <1>1, <2>2, <2>3
    <3>2. Cut(list, a, n) = <<>> /\ Cut(list, a, n - 1) = <<>>
      BY <1>1, <1>2, <2>1, <2>3
    <3> QED BY <1>1, <2>3, <3>1, <3>2
  <2>4. CASE a <= n /\ n <= b
    <3>1. f[n] = Cut(list, a, n) /\ f[n - 1] = Cut(list, a, n - 1)
      BY <1>1, <2>2, <2>4
    <3>2. n \in a..Len(list)
      BY <1>1, <2>4
    <3>3. Cut(list, a, n) = Child(Cut(list, a, n - 1), list[n])
      BY <3>2, CutFacts
    <3> QED BY <2>4, <3>1, <3>3
  <2>5. CASE b < n
    <3>1. f[n] = Cut(list, a, b) /\ f[n - 1] = Cut(list, a, b)
      BY <1>1, <2>2, <2>5
    <3> QED BY <1>1, <2>5, <3>1
  <2> QED BY <1>1, <2>3, <2>4, <2>5
<1>4. f[Len(list)] = Cut(list, a, b)
  <2>1. Len(list) \in 0..Len(list) /\ (Len(list) <= b => Len(list) = b)
    BY <1>1
  <2> QED BY <2>1
<1> HIDE DEF f
<1> QED BY <1>5, <1>3, <1>4, AmongSolved

(* Where ids is what a run of the list leaves. *)
LEMMA AmongRest ==
    ASSUME NEW S, NEW list \in Seq(S), NEW a \in 1..Len(list), NEW b \in a..Len(list),
           NEW ids, \A n \in 1..Len(list) : list[n] \in ids <=> ~(a <= n /\ n <= b)
    PROVE  Among(list, ids) = Join(Cut(list, 1, a - 1), Cut(list, b + 1, Len(list)))
<1> DEFINE before == Cut(list, 1, a - 1)
           f == [n \in 0..Len(list) |-> IF n < a THEN Cut(list, 1, n)
                                        ELSE Join(before, Cut(list, b + 1, n))]
<1>1. Len(list) \in Nat /\ b \in 1..Len(list) /\ b + 1 \in 1..(Len(list) + 1)
  <2>1. Len(list) \in Nat
    BY ListFacts
  <2> QED BY <2>1
<1>2. /\ \A n \in 0..Len(list) : Cut(list, 1, n) \in Seq(S) /\ Cut(list, b + 1, n) \in Seq(S)
      /\ before \in Seq(S)
      /\ Cut(list, 1, 0) = <<>>
      /\ \A n \in 0..b : Cut(list, b + 1, n) = <<>>
  <2>1. /\ 1 \in 1..(Len(list) + 1) /\ 0 \in 0..Len(list) /\ 0 < 1
        /\ a - 1 \in 0..Len(list) /\ \A n \in 0..b : n < b + 1 /\ n \in 0..Len(list)
    BY <1>1
  <2>2. \A m \in 1..(Len(list) + 1), n \in 0..Len(list) :
           Cut(list, m, n) \in Seq(S) /\ (n < m => Cut(list, m, n) = <<>>)
    BY CutFacts
  <2> QED BY <1>1, <2>1, <2>2
<1> HIDE DEF before
<1>3. Join(before, <<>>) = before
  BY <1>2, ConcatEmptySeq DEF Join
<1>4. \A r \in Seq(S) : Join(before, r) \in Seq(S)
  BY <1>2, ConcatProperties DEF Join
<1>5. f \in [0..Len(list) -> Seq(S)] /\ f[0] = <<>>
  BY <1>1, <1>2, <1>4
<1>6. ASSUME NEW n \in 1..Len(list)
      PROVE  f[n] = IF list[n] \in ids THEN Child(f[n - 1], list[n]) ELSE f[n - 1]
  <2>1. n \in 0..Len(list) /\ n - 1 \in 0..Len(list) /\ 1 \in 1..Len(list)
    BY <1>1
  <2>2. /\ f[n] = IF n < a THEN Cut(list, 1, n) ELSE Join(before, Cut(list, b + 1, n))
        /\ f[n - 1] = IF n - 1 < a THEN Cut(list, 1, n - 1)
                      ELSE Join(before, Cut(list, b + 1, n - 1))
    BY <2>1
  <2> HIDE DEF f
  <2>3. CASE n < a
    <3>1. f[n] = Cut(list, 1, n) /\ f[n - 1] = Cut(list, 1, n - 1)
      BY <1>1, <2>2, <2>3
    <3>2. Cut(list, 1, n) = Child(Cut(list, 1, n - 1), list[n])
      BY <2>1, CutFacts
    <3> QED BY <1>1, <2>3, <3>1, <3>2
  <2>4. CASE n = a
    <3>1. f[n - 1] = before
      BY <1>1, <2>2, <2>4 DEF before
    <3>2. f[n] = Join(before, Cut(list, b + 1, n)) /\ n \in 0..b
      BY <1>1, <2>2, <2>4
    <3> QED BY <1>1, <1>2, <1>3, <2>4, <3>1, <3>2
  <2>5. CASE a < n /\ n <= b
    <3>1. /\ f[n] = Join(before, Cut(list, b + 1, n)) /\ n \in 0..b
          /\ f[n - 1] = Join(before, Cut(list, b + 1, n - 1)) /\ n - 1 \in 0..b
      BY <1>1, <2>2, <2>5
    <3> QED BY <1>1, <1>2, <2>5, <3>1
  <2>6. CASE b < n
    <3>1. /\ f[n] = Join(before, Cut(list, b + 1, n))
          /\ f[n - 1] = Join(before, Cut(list, b + 1, n - 1))
      BY <1>1, <2>2, <2>6
    <3>2. b + 1 \in 1..Len(list) /\ n \in (b + 1)..Len(list)
      BY <1>1, <2>6
    <3>3. Cut(list, b + 1, n) = Child(Cut(list, b + 1, n - 1), list[n])
      BY <3>2, CutFacts
    <3>4. Cut(list, b + 1, n - 1) \in Seq(S) /\ list[n] \in S
      BY <1>2, <2>1, ListFacts
    <3>5. Child(Join(before, Cut(list, b + 1, n - 1)), list[n])
             = Join(before, Child(Cut(list, b + 1, n - 1), list[n]))
      BY <1>2, <3>4, AppendedToJoin
    <3>6. list[n] \in ids
      BY <1>1, <2>6
    <3> QED BY <3>1, <3>3, <3>5, <3>6
  <2> QED BY <1>1, <2>3, <2>4, <2>5, <2>6
<1>7. f[Len(list)] = Join(before, Cut(list, b + 1, Len(list)))
  <2>1. Len(list) \in 0..Len(list) /\ ~(Len(list) < a)
    BY <1>1
  <2> QED BY <2>1
<1> HIDE DEF f
<1>8. Among(list, ids) = f[Len(list)]
  BY <1>5, <1>6, AmongSolved
<1> QED BY <1>7, <1>8 DEF before

LEMMA FirstOfRun ==
    ASSUME NEW S, NEW list \in Seq(S), NEW a \in 1..Len(list), NEW b \in a..Len(list),
           NEW ids, \A n \in 1..Len(list) : list[n] \in ids <=> a <= n /\ n <= b
    PROVE  FirstIndex(list, ids) + 1 = a
<1> DEFINE First(i) == list[i] \in ids /\ \A k \in 1..(i - 1) : list[k] \notin ids
           f == CHOOSE i \in DOMAIN list : First(i)
<1>1. Len(list) \in Nat /\ DOMAIN list = 1..Len(list)
  BY ListFacts
<1>2. a \in DOMAIN list /\ First(a)
  BY <1>1
<1>3. f \in DOMAIN list /\ First(f)
  <2> HIDE DEF First
  <2> QED BY <1>2, Zenon
<1>4. FirstIndex(list, ids) = f - 1
  BY DEF FirstIndex
<1> HIDE DEF f
<1>5. f = a
  <2>1. a <= f
    BY <1>1, <1>3
  <2>2. ~(a < f)
    <3>1. CASE a < f
      <4>1. a \in 1..(f - 1) /\ list[a] \in ids
        BY <1>1, <1>2, <1>3, <3>1
      <4> QED BY <1>3, <4>1
    <3> QED BY <3>1
  <2> QED BY <1>1, <1>3, <2>1, <2>2
<1> QED BY <1>1, <1>3, <1>4, <1>5

(* A part of a list, its front and its back. *)
LEMMA PartCut ==
    ASSUME NEW S, NEW list \in Seq(S), NEW m \in 1..(Len(list) + 1), NEW n \in 0..Len(list)
    PROVE  /\ Cut(list, m, n) \in Seq(S)
           /\ Len(Cut(list, m, n)) = IF m <= n THEN n - m + 1 ELSE 0
           /\ \A k \in 1..(n - m + 1) : Cut(list, m, n)[k] = list[m + k - 1]
<1>1. Len(list) \in Nat
  BY ListFacts
<1> QED BY <1>1, PartOfList DEF Cut

LEMMA FrontCut ==
    ASSUME NEW S, NEW list \in Seq(S), NEW a \in 1..(Len(list) + 1)
    PROVE  /\ Cut(list, 1, a - 1) \in Seq(S)
           /\ Len(Cut(list, 1, a - 1)) = a - 1
           /\ \A k \in 1..(a - 1) : Cut(list, 1, a - 1)[k] = list[k]
<1> DEFINE part == Cut(list, 1, a - 1)
<1>1. Len(list) \in Nat
  BY ListFacts
<1>2. 1 \in 1..(Len(list) + 1) /\ a - 1 \in 0..Len(list)
  BY <1>1
<1>3. /\ part \in Seq(S)
      /\ Len(part) = IF 1 <= a - 1 THEN (a - 1) - 1 + 1 ELSE 0
      /\ \A k \in 1..((a - 1) - 1 + 1) : part[k] = list[1 + k - 1]
  BY <1>2, PartCut
<1> HIDE DEF part
<1>4. part \in Seq(S) /\ Len(part) = a - 1 /\ \A k \in 1..(a - 1) : part[k] = list[k]
  BY <1>1, <1>3
<1> QED BY <1>4 DEF part

LEMMA BackCut ==
    ASSUME NEW S, NEW list \in Seq(S), NEW b \in 0..Len(list)
    PROVE  /\ Cut(list, b + 1, Len(list)) \in Seq(S)
           /\ Len(Cut(list, b + 1, Len(list))) = Len(list) - b
           /\ \A k \in 1..(Len(list) - b) : Cut(list, b + 1, Len(list))[k] = list[b + k]
<1> DEFINE part == Cut(list, b + 1, Len(list))
<1>1. Len(list) \in Nat
  BY ListFacts
<1>2. b + 1 \in 1..(Len(list) + 1) /\ Len(list) \in 0..Len(list)
  BY <1>1
<1>3. /\ part \in Seq(S)
      /\ Len(part) = IF b + 1 <= Len(list) THEN Len(list) - (b + 1) + 1 ELSE 0
      /\ \A k \in 1..(Len(list) - (b + 1) + 1) : part[k] = list[(b + 1) + k - 1]
  BY <1>2, PartCut
<1> HIDE DEF part
<1>4. Len(part) = Len(list) - b
  BY <1>1, <1>3
<1>5. ASSUME NEW k \in 1..(Len(list) - b) PROVE part[k] = list[b + k]
  <2>1. k \in 1..(Len(list) - (b + 1) + 1) /\ (b + 1) + k - 1 = b + k
    BY <1>1
  <2> QED BY <1>3, <2>1
<1> QED BY <1>3, <1>4, <1>5 DEF part

LEMMA RunCut ==
    ASSUME NEW S, NEW list \in Seq(S), NEW a \in 1..Len(list), NEW b \in a..Len(list)
    PROVE  /\ Cut(list, a, b) \in Seq(S)
           /\ Len(Cut(list, a, b)) = b - a + 1
           /\ \A k \in 1..(b - a + 1) : Cut(list, a, b)[k] = list[a + k - 1]
<1>1. Len(list) \in Nat
  BY ListFacts
<1>2. a \in 1..(Len(list) + 1) /\ b \in 0..Len(list) /\ a <= b
  BY <1>1
<1> QED BY <1>2, PartCut

(* Two lists after another. *)
LEMMA JoinFacts ==
    ASSUME NEW S, NEW u \in Seq(S), NEW w \in Seq(S)
    PROVE  /\ Join(u, w) \in Seq(S)
           /\ Len(Join(u, w)) = Len(u) + Len(w)
           /\ \A k \in 1..(Len(u) + Len(w)) :
                 Join(u, w)[k] = IF k <= Len(u) THEN u[k] ELSE w[k - Len(u)]
  BY ConcatProperties DEF Join

LEMMA Inserted ==
    ASSUME NEW S, NEW list \in Seq(S), NEW e \in S, NEW i \in 1..(Len(list) + 1)
    PROVE  /\ InsertAt(list, i, e) \in Seq(S)
           /\ Len(InsertAt(list, i, e)) = Len(list) + 1
           /\ \A k \in 1..(i - 1) : InsertAt(list, i, e)[k] = list[k]
           /\ InsertAt(list, i, e)[i] = e
           /\ \A k \in (i + 1)..(Len(list) + 1) : InsertAt(list, i, e)[k] = list[k - 1]
<1> DEFINE t == InsertAt(list, i, e)
<1>1. Len(list) \in Nat
  BY ListFacts
<1>2. /\ t \in Seq(S) /\ Len(t) = Len(list) + 1
      /\ \A k \in 1..(Len(list) + 1) : t[k] = IF k < i THEN list[k]
                                               ELSE IF k = i THEN e ELSE list[k - 1]
  <2>1. t \in Seq(S) /\ Len(t) = Len(list) + 1 /\ HasInserted(t, list, i, e)
    BY InsertFacts
  <2> HIDE DEF t
  <2> QED BY <2>1 DEF HasInserted
<1> HIDE DEF t
<1>3. \A k \in 1..(i - 1) : t[k] = list[k]
  BY <1>1, <1>2
<1>4. t[i] = e
  BY <1>1, <1>2
<1>5. \A k \in (i + 1)..(Len(list) + 1) : t[k] = list[k - 1]
  BY <1>1, <1>2
<1> QED BY <1>2, <1>3, <1>4, <1>5 DEF t

(* What a run of a list leaves. *)
LEMMA WithoutRun ==
    ASSUME NEW S, NEW list \in Seq(S), NEW a \in 1..Len(list), NEW b \in a..Len(list)
    PROVE  LET rest == Join(Cut(list, 1, a - 1), Cut(list, b + 1, Len(list)))
           IN  /\ rest \in Seq(S)
               /\ Len(rest) = (a - 1) + (Len(list) - b)
               /\ \A k \in 1..(a - 1) : rest[k] = list[k]
               /\ \A k \in a..Len(rest) : rest[k] = list[(k + 1) + (b - a)]
<1> DEFINE n == Len(list)
           before == Cut(list, 1, a - 1)
           after == Cut(list, b + 1, n)
           rest == Join(before, after)
<1>1. n \in Nat /\ a \in 1..n /\ b \in 1..n /\ a <= b
  <2>1. n \in Nat
    BY ListFacts
  <2> QED BY <2>1
<1>2. /\ before \in Seq(S) /\ Len(before) = a - 1
      /\ \A k \in 1..(a - 1) : before[k] = list[k]
  <2>1. a \in 1..(n + 1)
    BY <1>1
  <2> QED BY <2>1, FrontCut
<1>3. /\ after \in Seq(S) /\ Len(after) = n - b
      /\ \A k \in 1..(n - b) : after[k] = list[b + k]
  <2>1. b \in 0..n
    BY <1>1
  <2> QED BY <2>1, BackCut
<1> HIDE DEF before, after
<1>4. /\ rest \in Seq(S) /\ Len(rest) = Len(before) + Len(after)
      /\ \A k \in 1..(Len(before) + Len(after)) :
            rest[k] = IF k <= Len(before) THEN before[k] ELSE after[k - Len(before)]
  BY <1>2, <1>3, JoinFacts
<1> HIDE DEF rest
<1>5. Len(rest) = (a - 1) + (n - b) /\ Len(rest) = Len(before) + Len(after)
  BY <1>1, <1>2, <1>3, <1>4
<1>6. ASSUME NEW k \in 1..(a - 1) PROVE rest[k] = list[k]
  <2>1. k \in 1..(Len(before) + Len(after)) /\ k <= Len(before)
    BY <1>1, <1>2, <1>3
  <2>2. rest[k] = before[k]
    BY <1>4, <2>1
  <2> QED BY <1>2, <2>2
<1>7. ASSUME NEW k \in a..Len(rest) PROVE rest[k] = list[(k + 1) + (b - a)]
  <2>1. /\ k \in 1..(Len(before) + Len(after)) /\ ~(k <= Len(before))
        /\ k - Len(before) \in 1..(n - b)
        /\ b + (k - Len(before)) = (k + 1) + (b - a)
    BY <1>1, <1>2, <1>3, <1>5
  <2>2. rest[k] = after[k - Len(before)]
    BY <1>4, <2>1
  <2> QED BY <1>3, <2>1, <2>2
<1> QED BY <1>4, <1>5, <1>6, <1>7 DEF rest, before, after

(* more is a list with e in the place of the run from a to b. *)
StandsForRun(S, list, a, b, e, more) ==
    /\ more \in Seq(S)
    /\ Len(more) = Len(list) - (b - a)
    /\ \A k \in 1..(a - 1) : more[k] = list[k]
    /\ more[a] = e
    /\ \A k \in (a + 1)..(Len(list) - (b - a)) : more[k] = list[k + (b - a)]

(* What a run of a list leaves, with something else in its place. *)
LEMMA InsteadOfRun ==
    ASSUME NEW S, NEW list \in Seq(S), NEW a \in 1..Len(list), NEW b \in a..Len(list),
           NEW e \in S
    PROVE  StandsForRun(S, list, a, b, e,
                        InsertAt(Join(Cut(list, 1, a - 1), Cut(list, b + 1, Len(list))), a, e))
<1> DEFINE n == Len(list)
           rest == Join(Cut(list, 1, a - 1), Cut(list, b + 1, n))
           more == InsertAt(rest, a, e)
<1>1. n \in Nat /\ a \in 1..n /\ b \in 1..n /\ a <= b
  <2>1. n \in Nat
    BY ListFacts
  <2> QED BY <2>1
<1>2. /\ rest \in Seq(S)
      /\ Len(rest) = (a - 1) + (n - b)
      /\ \A k \in 1..(a - 1) : rest[k] = list[k]
      /\ \A k \in a..Len(rest) : rest[k] = list[(k + 1) + (b - a)]
  BY WithoutRun
<1> HIDE DEF rest
<1>3. rest \in Seq(S) /\ a \in 1..(Len(rest) + 1)
  BY <1>1, <1>2
<1>4. /\ more \in Seq(S) /\ Len(more) = Len(rest) + 1
      /\ \A k \in 1..(a - 1) : more[k] = rest[k]
      /\ more[a] = e
      /\ \A k \in (a + 1)..(Len(rest) + 1) : more[k] = rest[k - 1]
  BY <1>3, Inserted
<1> HIDE DEF more
<1>5. Len(more) = n - (b - a)
  BY <1>1, <1>2, <1>4
<1>6. ASSUME NEW k \in 1..(a - 1) PROVE more[k] = list[k]
  BY <1>2, <1>4
<1>7. ASSUME NEW k \in (a + 1)..(n - (b - a)) PROVE more[k] = list[k + (b - a)]
  <2>1. k \in (a + 1)..(Len(rest) + 1) /\ k - 1 \in a..Len(rest)
    BY <1>1, <1>2
  <2>2. more[k] = rest[k - 1]
    BY <1>4, <2>1
  <2>3. rest[k - 1] = list[((k - 1) + 1) + (b - a)]
    BY <1>2, <2>1
  <2>4. ((k - 1) + 1) + (b - a) = k + (b - a)
    BY <1>1
  <2> QED BY <2>2, <2>3, <2>4
<1>8. StandsForRun(S, list, a, b, e, more)
  BY <1>4, <1>5, <1>6, <1>7 DEF StandsForRun
<1> QED BY <1>8 DEF more, rest

(* A run that is taken out of a list and put back for its stand-in. *)
LEMMA RunReturns ==
    ASSUME NEW S, NEW list \in Seq(S), NEW a \in 1..Len(list), NEW b \in a..Len(list),
           NEW e \in S, e \notin ToSet(list), NEW more, StandsForRun(S, list, a, b, e, more)
    PROVE  /\ IndexOf(more, e) = a
           /\ Spliced(more, a, Cut(list, a, b)) = list
<1> DEFINE n == Len(list)
           m == n - (b - a)
           run == Cut(list, a, b)
           before == Cut(more, 1, a - 1)
           after == Cut(more, a + 1, m)
<1>0. /\ more \in Seq(S) /\ Len(more) = m
      /\ \A k \in 1..(a - 1) : more[k] = list[k]
      /\ more[a] = e
      /\ \A k \in (a + 1)..m : more[k] = list[k + (b - a)]
  BY DEF StandsForRun
<1>1. n \in Nat /\ a \in 1..n /\ b \in 1..n /\ a <= b /\ m \in 1..n /\ a <= m
  <2>1. n \in Nat
    BY ListFacts
  <2> QED BY <2>1
<1>2. IndexOf(more, e) = a
  <2>1. DOMAIN more = 1..m
    BY <1>0, ListFacts
  <2>2. \A k \in 1..n : list[k] # e
    BY ListFacts
  <2>3. ASSUME NEW k \in 1..m, k # a PROVE more[k] # e
    <3>1. CASE k < a
      <4>1. k \in 1..(a - 1) /\ k \in 1..n
        BY <1>1, <3>1
      <4> QED BY <1>0, <2>2, <4>1
    <3>2. CASE k > a
      <4>1. k \in (a + 1)..m /\ k + (b - a) \in 1..n
        BY <1>1, <3>2
      <4> QED BY <1>0, <2>2, <4>1
    <3> QED BY <1>1, <2>3, <3>1, <3>2
  <2>4. a \in DOMAIN more /\ more[a] = e
    BY <1>0, <1>1, <2>1
  <2>5. \A k \in DOMAIN more : more[k] = e => k = a
    BY <2>1, <2>3
  <2>6. IndexOf(more, e) \in DOMAIN more /\ more[IndexOf(more, e)] = e
    BY <2>4, Zenon DEF IndexOf
  <2> QED BY <2>5, <2>6
<1>3. /\ run \in Seq(S) /\ Len(run) = b - a + 1
      /\ \A k \in 1..(b - a + 1) : run[k] = list[a + k - 1]
  BY RunCut
<1>4. /\ before \in Seq(S) /\ Len(before) = a - 1
      /\ \A k \in 1..(a - 1) : before[k] = list[k]
  <2>1. more \in Seq(S) /\ a \in 1..(Len(more) + 1)
    BY <1>0, <1>1
  <2>2. /\ before \in Seq(S) /\ Len(before) = a - 1
        /\ \A k \in 1..(a - 1) : before[k] = more[k]
    BY <2>1, FrontCut
  <2> HIDE DEF before
  <2> QED BY <1>0, <2>2
<1>5. /\ after \in Seq(S) /\ Len(after) = m - a
      /\ \A k \in 1..(m - a) : after[k] = list[b + k]
  <2>1. more \in Seq(S) /\ a \in 0..Len(more) /\ Len(more) = m
    BY <1>0, <1>1
  <2>2. /\ after \in Seq(S) /\ Len(after) = m - a
        /\ \A k \in 1..(m - a) : after[k] = more[a + k]
    <3>1. /\ Cut(more, a + 1, Len(more)) \in Seq(S)
          /\ Len(Cut(more, a + 1, Len(more))) = Len(more) - a
          /\ \A k \in 1..(Len(more) - a) :
                Cut(more, a + 1, Len(more))[k] = more[a + k]
      BY <2>1, BackCut
    <3> QED BY <2>1, <3>1
  <2> HIDE DEF after
  <2>3. ASSUME NEW k \in 1..(m - a) PROVE after[k] = list[b + k]
    <3>1. a + k \in (a + 1)..m /\ (a + k) + (b - a) = b + k
      BY <1>1
    <3>2. after[k] = more[a + k] /\ more[a + k] = list[(a + k) + (b - a)]
      BY <1>0, <2>2, <3>1
    <3> QED BY <3>1, <3>2
  <2> QED BY <2>2, <2>3
<1>6. Spliced(more, a, run) = Join(Join(before, run), after)
  BY <1>0 DEF Spliced, Cut, Join
<1> HIDE DEF run, before, after
<1> DEFINE start == Join(before, run)
           all == Join(start, after)
<1>7. /\ start \in Seq(S) /\ Len(start) = Len(before) + Len(run)
      /\ \A k \in 1..(Len(before) + Len(run)) :
            start[k] = IF k <= Len(before) THEN before[k] ELSE run[k - Len(before)]
  BY <1>3, <1>4, JoinFacts
<1> HIDE DEF start
<1>8. Len(start) = b /\ \A k \in 1..b : start[k] = list[k]
  <2>1. Len(start) = b /\ Len(before) + Len(run) = b
    BY <1>1, <1>3, <1>4, <1>7
  <2>2. ASSUME NEW k \in 1..b PROVE start[k] = list[k]
    <3>1. start[k] = IF k <= a - 1 THEN before[k] ELSE run[k - (a - 1)]
      BY <1>4, <1>7, <2>1
    <3>2. CASE k <= a - 1
      <4>1. k \in 1..(a - 1)
        BY <1>1, <3>2
      <4> QED BY <1>4, <3>1, <3>2, <4>1
    <3>3. CASE ~(k <= a - 1)
      <4>1. k - (a - 1) \in 1..(b - a + 1) /\ a + (k - (a - 1)) - 1 = k
        BY <1>1, <3>3
      <4> QED BY <1>3, <3>1, <3>3, <4>1
    <3> QED BY <3>2, <3>3
  <2> QED BY <2>1, <2>2
<1>9. /\ all \in Seq(S) /\ Len(all) = Len(start) + Len(after)
      /\ \A k \in 1..(Len(start) + Len(after)) :
            all[k] = IF k <= Len(start) THEN start[k] ELSE after[k - Len(start)]
  <2>1. start \in Seq(S) /\ after \in Seq(S)
    BY <1>5, <1>7
  <2> QED BY <2>1, JoinFacts
<1> HIDE DEF all
<1>10. Len(all) = n /\ \A k \in 1..n : all[k] = list[k]
  <2>1. Len(all) = n /\ Len(start) + Len(after) = n
    BY <1>1, <1>5, <1>8, <1>9
  <2>2. ASSUME NEW k \in 1..n PROVE all[k] = list[k]
    <3>1. all[k] = IF k <= b THEN start[k] ELSE after[k - b]
      BY <1>8, <1>9, <2>1
    <3>2. CASE k <= b
      <4>1. k \in 1..b
        BY <1>1, <3>2
      <4> QED BY <1>8, <3>1, <3>2, <4>1
    <3>3. CASE ~(k <= b)
      <4>1. k - b \in 1..(m - a) /\ b + (k - b) = k
        BY <1>1, <3>3
      <4> QED BY <1>5, <3>1, <3>3, <4>1
    <3> QED BY <3>2, <3>3
  <2> QED BY <2>1, <2>2
<1>11. all = list
  BY <1>9, <1>10, SeqEqual
<1> QED BY <1>2, <1>6, <1>11 DEF run, start, all

(* A run of a group's list, and the paths of its items. *)
RunOf(t, parent, a, b, ids, roots) ==
    /\ parent \in Groups(t)
    /\ a \in 1..Len(t[parent].kids)
    /\ b \in a..Len(t[parent].kids)
    /\ \A x : x \in ids <=> \E i \in a..b : x = t[parent].kids[i]
    /\ \A p : p \in roots <=> \E id \in ids : p = Child(parent, id)

LEMMA RunFacts ==
    ASSUME NEW t, Good(t), NEW parent, NEW a, NEW b, NEW ids, NEW roots,
           RunOf(t, parent, a, b, ids, roots)
    PROVE  /\ Picks(t, parent, ids, roots)
           /\ parent \in DOMAIN t /\ t[parent].kind = "group"
           /\ parent \in Path
           /\ t[parent].kids \in Seq(Identifiers)
           /\ a \in 1..Len(t[parent].kids) /\ b \in a..Len(t[parent].kids)
           /\ ids \in SUBSET Identifiers
           /\ \A n \in 1..Len(t[parent].kids) : t[parent].kids[n] \in ids <=> a <= n /\ n <= b
           /\ \A p : p \in roots <=> \E id \in ids : p = Child(parent, id)
           /\ roots \in SUBSET (Path \ {<<>>})
           /\ \A id \in ids : id \in ToSet(t[parent].kids)
<1> DEFINE list == t[parent].kids
<1>1. parent \in DOMAIN t /\ t[parent].kind = "group"
  BY DEF RunOf, Groups
<1>2. parent \in Path /\ list \in Seq(Identifiers) /\ Distinct(list)
  BY <1>1, KidsFacts
<1>3. /\ a \in 1..Len(list) /\ b \in a..Len(list)
      /\ \A x : x \in ids <=> \E i \in a..b : x = list[i]
      /\ \A p : p \in roots <=> \E id \in ids : p = Child(parent, id)
      /\ parent \in Groups(t)
  BY DEF RunOf
<1> HIDE DEF list
<1>4. /\ Len(list) \in Nat /\ \A i \in 1..Len(list) : list[i] \in Identifiers
      /\ \A i \in 1..Len(list) : list[i] \in ToSet(list)
  BY <1>2, ListFacts
<1>5. \A n \in 1..Len(list) : list[n] \in ids <=> a <= n /\ n <= b
  <2>1. SUFFICES ASSUME NEW n \in 1..Len(list) PROVE list[n] \in ids <=> a <= n /\ n <= b
    OBVIOUS
  <2>2. ASSUME a <= n, n <= b PROVE list[n] \in ids
    <3>1. n \in a..b
      BY <1>3, <1>4, <2>2
    <3> QED BY <1>3, <3>1
  <2>3. ASSUME list[n] \in ids PROVE a <= n /\ n <= b
    <3>1. PICK i \in a..b : list[n] = list[i]
      BY <1>3, <2>3
    <3>2. i \in 1..Len(list) /\ a <= i /\ i <= b
      BY <1>3, <1>4
    <3>3. n = i
      BY <1>2, <3>1, <3>2 DEF Distinct
    <3> QED BY <3>2, <3>3
  <2> QED BY <2>2, <2>3
<1>6. \A id \in ids : id \in Identifiers /\ id \in ToSet(list)
  <2>1. SUFFICES ASSUME NEW id \in ids PROVE id \in Identifiers /\ id \in ToSet(list)
    OBVIOUS
  <2>2. PICK i \in a..b : id = list[i]
    BY <1>3
  <2>3. i \in 1..Len(list)
    BY <1>3, <1>4
  <2> QED BY <1>4, <2>2, <2>3
<1>7. list[a] \in ids /\ list[a] \in ToSet(list)
  BY <1>3, <1>4, <1>5
<1>8. Picks(t, parent, ids, roots)
  BY <1>3, <1>6, <1>7 DEF Picks, list
<1>9. roots \in SUBSET (Path \ {<<>>})
  <2>1. \A id \in ids : Child(parent, id) \in Path /\ Child(parent, id) # <<>>
    BY <1>2, <1>6, ChildOfPath
  <2> QED BY <1>3, <2>1
<1> QED BY <1>1, <1>2, <1>3, <1>5, <1>6, <1>8, <1>9 DEF list

(* A list that nothing is taken from stays as it is. *)
LEMMA DetachedList ==
    ASSUME NEW t, Good(t), NEW roots \in SUBSET (Path \ {<<>>}),
           NEW q \in DOMAIN Detached(t, roots)
    PROVE  /\ q \in DOMAIN t
           /\ \E kept : /\ Detached(t, roots)[q].kids = Among(t[q].kids, kept)
                       /\ \A x : x \in kept <=> /\ x \in ToSet(t[q].kids)
                                                /\ Child(q, x) \notin roots
<1> DEFINE cut == {id \in ToSet(t[q].kids) : Child(q, id) \in roots}
           kids == Except(t[q].kids, cut)
           node == Detached(t, roots)[q]
<1>1. q \in DOMAIN t /\ node = [t[q] EXCEPT !.kids = kids]
  BY DEF Detached, Child
<1>2. t[q] \in Nodes /\ t[q].kids \in Seq(Identifiers)
  BY <1>1, KidsFacts
<1>3. kids \in Seq(Identifiers)
  <2> HIDE DEF cut
  <2> QED BY <1>2, ExceptFacts
<1>4. kids = Among(t[q].kids, ToSet(t[q].kids) \ cut)
  BY DEF Except
<1> HIDE DEF kids, node
<1>5. node.kids = kids
  BY <1>1, <1>2, <1>3, WithKids
<1>6. \A x : x \in ToSet(t[q].kids) \ cut <=> x \in ToSet(t[q].kids) /\ Child(q, x) \notin roots
  OBVIOUS
<1> HIDE DEF cut
<1> QED BY <1>1, <1>4, <1>5, <1>6 DEF node

(* What a run leaves behind when it is taken out. *)
LEMMA RunTakenOut ==
    ASSUME NEW t, Good(t), NEW parent, NEW a, NEW b, NEW ids, NEW roots,
           RunOf(t, parent, a, b, ids, roots)
    PROVE  /\ \A q : q \in DOMAIN Detached(t, roots) <=>
                 q \in DOMAIN t /\ \A id \in ids : ~IsPrefix(Child(parent, id), q)
           /\ \A q \in DOMAIN Detached(t, roots) : q # parent => Detached(t, roots)[q] = t[q]
           /\ Detached(t, roots)[parent].kids
                 = Join(Cut(t[parent].kids, 1, a - 1),
                        Cut(t[parent].kids, b + 1, Len(t[parent].kids)))
<1> DEFINE left == Detached(t, roots)
           list == t[parent].kids
<1>1. /\ parent \in DOMAIN t /\ parent \in Path /\ list \in Seq(Identifiers)
      /\ a \in 1..Len(list) /\ b \in a..Len(list)
      /\ ids \in SUBSET Identifiers
      /\ \A n \in 1..Len(list) : list[n] \in ids <=> a <= n /\ n <= b
      /\ \A p : p \in roots <=> \E id \in ids : p = Child(parent, id)
      /\ roots \in SUBSET (Path \ {<<>>})
  BY RunFacts
<1>2. DOMAIN left = {q \in DOMAIN t : \A p \in roots : ~IsPrefix(p, q)}
  BY <1>1, DetachedFacts
<1>3. \A q : q \in DOMAIN left <=>
             q \in DOMAIN t /\ \A id \in ids : ~IsPrefix(Child(parent, id), q)
  <2> HIDE DEF left
  <2> QED BY <1>1, <1>2
<1>4. parent \in DOMAIN left
  <2>1. \A id \in ids : ~IsPrefix(Child(parent, id), parent)
    BY <1>1, ChildIsBelow
  <2> QED BY <1>1, <1>3, <2>1
<1>5. ASSUME NEW q \in DOMAIN left, q # parent PROVE left[q] = t[q]
  <2> DEFINE own == t[q].kids
  <2>0. q \in DOMAIN t
    BY <1>3
  <2>1. PICK kept : /\ left[q].kids = Among(own, kept)
                    /\ \A x : x \in kept <=> x \in ToSet(own) /\ Child(q, x) \notin roots
    BY <1>1, <1>5, DetachedList
  <2>2. /\ q \in Path /\ t[q] \in Nodes /\ own \in Seq(Identifiers)
        /\ ToSet(own) \subseteq Identifiers
    BY <2>0, KidsFacts
  <2>3. ASSUME NEW id \in ToSet(own) PROVE Child(q, id) \notin roots
    <3>1. \A e \in ids : Child(q, id) = Child(parent, e) => q = parent
      BY <1>1, <2>2, ChildCancels
    <3> QED BY <1>1, <1>5, <3>1
  <2>4. \A n \in 1..Len(own) : own[n] \in kept
    <3>1. \A n \in 1..Len(own) : own[n] \in ToSet(own)
      BY <2>2, ListFacts
    <3> QED BY <2>1, <2>3, <3>1
  <2> HIDE DEF own
  <2>5. left[q].kids = own
    BY <2>1, <2>2, <2>4, AmongAll
  <2>6. /\ left[q] \in Nodes /\ left[q].kind = t[q].kind
        /\ left[q].ref = t[q].ref /\ left[q].locked = t[q].locked
    BY <1>1, <1>5, DetachedNodes
  <2> HIDE DEF left
  <2> QED BY <2>2, <2>5, <2>6, NodesAgree DEF own
<1>6. left[parent].kids = Join(Cut(list, 1, a - 1), Cut(list, b + 1, Len(list)))
  <2>1. PICK kept : /\ left[parent].kids = Among(list, kept)
                    /\ \A x : x \in kept <=> x \in ToSet(list) /\ Child(parent, x) \notin roots
    BY <1>1, <1>4, DetachedList
  <2>2. /\ ToSet(list) \subseteq Identifiers
        /\ \A n \in 1..Len(list) : list[n] \in ToSet(list)
    BY <1>1, ListFacts
  <2>3. \A id \in Identifiers : Child(parent, id) \in roots <=> id \in ids
    <3>1. \A id \in Identifiers, e \in Identifiers :
             Child(parent, id) = Child(parent, e) => id = e
      BY <1>1, ChildCancels
    <3> QED BY <1>1, <3>1
  <2>4. \A n \in 1..Len(list) : list[n] \in kept <=> ~(a <= n /\ n <= b)
    <3>1. \A x : x \in kept <=> x \in ToSet(list) /\ x \notin ids
      BY <2>1, <2>2, <2>3
    <3> HIDE DEF list
    <3> QED BY <1>1, <2>2, <3>1
  <2> HIDE DEF list
  <2>5. Among(list, kept) = Join(Cut(list, 1, a - 1), Cut(list, b + 1, Len(list)))
    BY <1>1, <2>4, AmongRest
  <2> QED BY <2>1, <2>5
<1> QED BY <1>3, <1>5, <1>6

(* The run in a group of its own. *)
Grouped(t, parent, g, ids, roots) ==
    Attached(Detached(t, roots), parent, g, FirstIndex(t[parent].kids, ids),
             GroupOf(t, parent, ids))

(* u is t with the run of parent from a to b in a group at Child(parent, g). *)
Inside(parent, ids, q) == \E id \in ids : IsPrefix(Child(parent, id), q)
HoldsRun(t, u, parent, at, g, a, b, ids) ==
    /\ Good(u) /\ <<>> \in Groups(u)
    /\ at \in DOMAIN u /\ u[at] = Node("group", <<>>, Cut(t[parent].kids, a, b))
    /\ \A q : q \in DOMAIN u /\ ~IsPrefix(at, q) <=> q \in DOMAIN t /\ ~Inside(parent, ids, q)
    /\ \A v \in Path : v # <<>> =>
          (Join(at, v) \in DOMAIN u <=>
              Join(parent, v) \in DOMAIN t /\ Inside(parent, ids, Join(parent, v)))
    /\ \A v \in Path : v # <<>> /\ Join(at, v) \in DOMAIN u => u[Join(at, v)] = t[Join(parent, v)]
    /\ \A q \in DOMAIN u : q # parent /\ ~IsPrefix(at, q) => u[q] = t[q]
    /\ u[parent].kind = t[parent].kind
    /\ u[parent].ref = t[parent].ref
    /\ u[parent].locked = t[parent].locked
    /\ StandsForRun(Identifiers, t[parent].kids, a, b, g, u[parent].kids)

LEMMA RunGrouped ==
    ASSUME NEW t, Good(t), <<>> \in Groups(t),
           NEW parent, NEW a, NEW b, NEW ids, NEW roots, RunOf(t, parent, a, b, ids, roots),
           NEW g \in Identifiers, ~HasChild(t, parent, g)
    PROVE  HoldsRun(t, Grouped(t, parent, g, ids, roots), parent, Child(parent, g), g, a, b, ids)
<1> DEFINE u == Grouped(t, parent, g, ids, roots)
           at == Child(parent, g)
           list == t[parent].kids
           left == Detached(t, roots)
           item == GroupOf(t, parent, ids)
           index == FirstIndex(list, ids)
           rest == Join(Cut(list, 1, a - 1), Cut(list, b + 1, Len(list)))
<1>1. /\ Picks(t, parent, ids, roots)
      /\ parent \in DOMAIN t /\ parent \in Path /\ list \in Seq(Identifiers)
      /\ a \in 1..Len(list) /\ b \in a..Len(list)
      /\ ids \in SUBSET Identifiers
      /\ \A n \in 1..Len(list) : list[n] \in ids <=> a <= n /\ n <= b
      /\ roots \in SUBSET (Path \ {<<>>})
  BY RunFacts
<1>2. /\ \A q : q \in DOMAIN left <=>
              q \in DOMAIN t /\ \A id \in ids : ~IsPrefix(Child(parent, id), q)
      /\ \A q \in DOMAIN left : q # parent => left[q] = t[q]
      /\ left[parent].kids = rest
  BY RunTakenOut
<1>3. /\ Good(left) /\ <<>> \in Groups(left) /\ Good(item)
      /\ parent \in Groups(left) /\ parent \in DOMAIN left
      /\ g \notin ToSet(left[parent].kids)
      /\ index \in 0..Len(left[parent].kids)
  BY <1>1, GroupFits
<1>4. index + 1 = a
  BY <1>1, FirstOfRun
<1>5. /\ left[parent].kind = t[parent].kind
      /\ left[parent].ref = t[parent].ref
      /\ left[parent].locked = t[parent].locked
  BY <1>1, <1>3, DetachedNodes
<1>6. /\ \A q : q \in DOMAIN item <=>
              \/ q = <<>>
              \/ /\ q \in Path
                 /\ Join(parent, q) \in DOMAIN t
                 /\ \E id \in ids : IsPrefix(Child(parent, id), Join(parent, q))
      /\ \A q \in DOMAIN item : q # <<>> => item[q] = t[Join(parent, q)]
      /\ item[<<>>] = Node("group", <<>>, Among(list, ids))
  BY <1>1, GroupOfFacts
<1>7. Among(list, ids) = Cut(list, a, b)
  BY <1>1, AmongRun
<1>8. u = Attached(left, parent, g, index, item)
  BY DEF Grouped
<1> HIDE DEF u, left, item, index, rest, list
<1>9. Good(u)
  BY <1>3, <1>8, AttachedIsGood
<1>10. <<>> \in Groups(u)
  BY <1>3, <1>8, AttachedRoot
<1>11. /\ \A q \in DOMAIN left : ~IsPrefix(at, q)
       /\ \A q : q \in DOMAIN u <=> q \in DOMAIN left \/ \E r \in DOMAIN item : q = Join(at, r)
       /\ \A r \in DOMAIN item : u[Join(at, r)] = item[r]
       /\ \A q \in DOMAIN left : q # parent => u[q] = left[q]
       /\ u[parent].kind = left[parent].kind
       /\ u[parent].ref = left[parent].ref
       /\ u[parent].locked = left[parent].locked
       /\ u[parent].kids = InsertAt(left[parent].kids, index + 1, g)
  BY <1>3, <1>8, AttachedFacts
<1>12. at \in Path /\ Join(at, <<>>) = at
  BY <1>1, ChildOfPath, JoinEmpty
<1> HIDE DEF at
<1>13. \A r \in DOMAIN item : r \in Path /\ IsPrefix(at, Join(at, r))
  BY <1>6, <1>12, EmptyIsPath, JoinOfPaths
<1>14. at \in DOMAIN u /\ u[at] = Node("group", <<>>, Cut(list, a, b))
  BY <1>6, <1>7, <1>11, <1>12
<1>15. \A q : q \in DOMAIN u /\ ~IsPrefix(at, q) <=> q \in DOMAIN left
  BY <1>11, <1>13
<1>16. \A v \in Path : Join(at, v) \in DOMAIN u <=> v \in DOMAIN item
  <2>1. SUFFICES ASSUME NEW v \in Path PROVE Join(at, v) \in DOMAIN u <=> v \in DOMAIN item
    OBVIOUS
  <2>2. IsPrefix(at, Join(at, v))
    BY <1>12, JoinOfPaths
  <2>3. \A r \in DOMAIN item : Join(at, v) = Join(at, r) => v = r
    BY <1>12, <1>13, JoinCancels
  <2> QED BY <1>11, <2>2, <2>3
<1>17. \A v \in Path : v # <<>> /\ Join(at, v) \in DOMAIN u =>
          u[Join(at, v)] = t[Join(parent, v)]
  BY <1>6, <1>11, <1>16
<1>18. \A q \in DOMAIN u : q # parent /\ ~IsPrefix(at, q) => u[q] = t[q]
  BY <1>2, <1>11, <1>15
<1>19. /\ u[parent].kind = t[parent].kind
       /\ u[parent].ref = t[parent].ref
       /\ u[parent].locked = t[parent].locked
       /\ u[parent].kids = InsertAt(rest, a, g)
  BY <1>2, <1>4, <1>5, <1>11
<1>20. \A q : q \in DOMAIN u /\ ~IsPrefix(at, q) <=>
          q \in DOMAIN t /\ \A id \in ids : ~IsPrefix(Child(parent, id), q)
  BY <1>2, <1>15
<1>21. \A v \in Path : v # <<>> =>
          (Join(at, v) \in DOMAIN u <=>
              /\ Join(parent, v) \in DOMAIN t
              /\ \E id \in ids : IsPrefix(Child(parent, id), Join(parent, v)))
  BY <1>6, <1>16
<1>22. StandsForRun(Identifiers, list, a, b, g, u[parent].kids)
  <2>1. StandsForRun(Identifiers, list, a, b, g, InsertAt(rest, a, g))
    BY <1>1, InsteadOfRun DEF rest
  <2> QED BY <1>19, <2>1
<1>23. HoldsRun(t, u, parent, at, g, a, b, ids)
  BY <1>9, <1>10, <1>14, <1>17, <1>18, <1>19, <1>20, <1>21, <1>22 DEF HoldsRun, Inside, list
<1> QED BY <1>23 DEF u, at
(* Two lists of children with none in common. *)
Apart(t, p, q) == \A id \in ToSet(t[p].kids) : id \notin ToSet(t[q].kids)

(* Dissolving the group of a run gives back the tree it was made from. *)
LEMMA RunDissolved ==
    ASSUME NEW t, Good(t), <<>> \in Groups(t),
           NEW parent, NEW a, NEW b, NEW ids, NEW roots, RunOf(t, parent, a, b, ids, roots),
           NEW g \in Identifiers, ~HasChild(t, parent, g)
    PROVE  /\ Apart(Grouped(t, parent, g, ids, roots), Child(parent, g), parent)
           /\ Dissolved(Grouped(t, parent, g, ids, roots), Child(parent, g)) = t
<1> DEFINE u == Grouped(t, parent, g, ids, roots)
           at == Child(parent, g)
           list == t[parent].kids
           more == u[parent].kids
           run == Cut(list, a, b)
           flat == Dissolved(u, at)
<1>1. /\ parent \in DOMAIN t /\ parent \in Path
      /\ list \in Seq(Identifiers)
      /\ a \in 1..Len(list) /\ b \in a..Len(list)
      /\ ids \in SUBSET Identifiers
      /\ \A n \in 1..Len(list) : list[n] \in ids <=> a <= n /\ n <= b
  BY RunFacts
<1>2. /\ Good(u) /\ <<>> \in Groups(u)
      /\ at \in DOMAIN u /\ u[at] = Node("group", <<>>, run)
      /\ \A q : q \in DOMAIN u /\ ~IsPrefix(at, q) <=> q \in DOMAIN t /\ ~Inside(parent, ids, q)
      /\ \A v \in Path : v # <<>> =>
            (Join(at, v) \in DOMAIN u <=>
                Join(parent, v) \in DOMAIN t /\ Inside(parent, ids, Join(parent, v)))
      /\ \A v \in Path : v # <<>> /\ Join(at, v) \in DOMAIN u =>
            u[Join(at, v)] = t[Join(parent, v)]
      /\ \A q \in DOMAIN u : q # parent /\ ~IsPrefix(at, q) => u[q] = t[q]
      /\ u[parent].kind = t[parent].kind
      /\ u[parent].ref = t[parent].ref
      /\ u[parent].locked = t[parent].locked
      /\ StandsForRun(Identifiers, list, a, b, g, more)
  <2>1. HoldsRun(t, u, parent, at, g, a, b, ids)
    BY RunGrouped
  <2> HIDE DEF u, at
  <2> QED BY <2>1 DEF HoldsRun
<1>3. g \notin ToSet(list)
  BY <1>1, ListFacts DEF HasChild
<1>5. IndexOf(more, g) = a /\ Spliced(more, a, run) = list
  <2> HIDE DEF u, list
  <2> QED BY <1>1, <1>2, <1>3, RunReturns
<1>6. run \in Seq(Identifiers)
  BY <1>1, RunCut
<1>7. /\ at \in Path /\ at # <<>> /\ Front(at) = parent /\ Last(at) = g
      /\ ~IsPrefix(at, parent)
  BY <1>1, ChildOfPath, ChildIsBelow
<1> HIDE DEF u, at, list, run
<1>8. u[at].kids = run
  BY <1>2, <1>6, GroupNode
<1>9. parent \in DOMAIN u /\ u[parent] \in Nodes
  <2>1. ~Inside(parent, ids, parent)
    BY <1>1, ChildIsBelow DEF Inside
  <2>2. parent \in DOMAIN u
    BY <1>1, <1>2, <2>1
  <2> QED BY <1>2, <2>2, KidsFacts
<1>10. ASSUME NEW id \in ToSet(run) PROVE id \notin ToSet(more)
  <2>1. id \in ids /\ id \in Identifiers
    <3>1. Among(list, ids) = run
      BY <1>1, AmongRun DEF run
    <3>2. ToSet(Among(list, ids)) = ToSet(list) \cap ids
      BY <1>1, AmongFacts
    <3> QED BY <1>1, <3>1, <3>2
  <2>2. Child(parent, id) \in Path /\ Child(parent, id) # parent
    BY <1>1, <2>1, ChildOfPath
  <2>3. IsPrefix(Child(parent, id), Child(parent, id))
    BY <2>2, OwnPrefix
  <2>4. Inside(parent, ids, Child(parent, id))
    BY <2>1, <2>3 DEF Inside
  <2>5. ~(Child(parent, id) \in DOMAIN u /\ ~IsPrefix(at, Child(parent, id)))
    BY <1>2, <2>4
  <2>6. id # g
    BY <1>1, <1>3, <2>1, AmongFacts, AmongRun DEF run
  <2>7. ~IsPrefix(at, Child(parent, id))
    <3>1. at # Child(parent, id)
      BY <1>1, <2>1, <2>6, ChildCancels DEF at
    <3> QED BY <1>1, <1>7, <2>1, <3>1, PathPrefixOfChild
  <2>8. Child(parent, id) \notin DOMAIN u
    BY <2>5, <2>7
  <2>9. \A e \in Identifiers : e \in ToSet(u[parent].kids) <=> Child(parent, e) \in DOMAIN u
    BY <1>2, <1>9, KidsFacts
  <2> QED BY <1>2, <2>1, <2>8, <2>9
<1>11. /\ \A q : q \in DOMAIN flat <=>
              \/ q \in DOMAIN u /\ ~IsPrefix(at, q)
              \/ \E v \in Path : v # <<>> /\ Join(at, v) \in DOMAIN u /\ q = Join(parent, v)
       /\ \A v \in Path : v # <<>> /\ Join(at, v) \in DOMAIN u =>
              flat[Join(parent, v)] = u[Join(at, v)]
       /\ \A q \in DOMAIN flat :
              /\ q # parent
              /\ ~ \E v \in Path : v # <<>> /\ Join(at, v) \in DOMAIN u /\ q = Join(parent, v)
              => flat[q] = u[q]
       /\ flat[parent] = Listing(u[parent], Spliced(u[parent].kids, IndexOf(u[parent].kids, g),
                                                    u[at].kids))
  BY <1>2, <1>7, DissolvedFacts
<1>12. Good(flat)
  <2>1. \A id \in ToSet(u[at].kids) : id \in ToSet(u[parent].kids) => id = g
    BY <1>2, <1>8, <1>10
  <2> QED BY <1>2, <1>7, <2>1, DissolvedIsGood
<1> HIDE DEF flat
<1>13. ASSUME NEW q \in DOMAIN t, Inside(parent, ids, q)
       PROVE  \E v \in Path : v # <<>> /\ q = Join(parent, v)
  <2>1. PICK id \in ids : IsPrefix(Child(parent, id), q)
    BY <1>13 DEF Inside
  <2>2. /\ id \in Identifiers /\ q \in Path
        /\ Child(parent, id) \in Path /\ Child(parent, id) # parent
    <3>1. q \in Path
      BY TreeFacts DEF Good
    <3> QED BY <1>1, <3>1, ChildOfPath
  <2>3. IsPrefix(parent, Child(parent, id))
    BY <1>1, <2>2, OwnPrefix, PathPrefixOfChild
  <2>4. IsPrefix(parent, q)
    BY <1>1, <2>1, <2>2, <2>3, PrefixIsTransitive DEF Path
  <2>5. PICK v \in Path : q = Join(parent, v)
    BY <1>1, <2>2, <2>4, PathPrefix
  <2>6. v # <<>>
    BY <1>1, <2>1, <2>2, <2>5, JoinEmpty, ChildIsBelow
  <2> QED BY <2>5, <2>6
<1>14. DOMAIN flat = DOMAIN t
  <2>1. ASSUME NEW q PROVE q \in DOMAIN flat <=> q \in DOMAIN t
    BY <1>2, <1>11, <1>13
  <2> QED BY <2>1
<1>15. flat[parent] = t[parent]
  <2>1. flat[parent] = Listing(u[parent], list)
    BY <1>2, <1>5, <1>8, <1>11
  <2>2. /\ flat[parent] \in Nodes /\ flat[parent].kids = list
        /\ flat[parent].kind = u[parent].kind
        /\ flat[parent].ref = u[parent].ref
        /\ flat[parent].locked = u[parent].locked
    BY <1>1, <1>9, <2>1, WithKids DEF Listing
  <2>3. t[parent] \in Nodes
    BY <1>1, KidsFacts
  <2> QED BY <1>2, <2>2, <2>3, NodesAgree DEF list
<1>16. ASSUME NEW q \in DOMAIN t, q # parent PROVE flat[q] = t[q]
  <2>1. CASE \E v \in Path : v # <<>> /\ Join(at, v) \in DOMAIN u /\ q = Join(parent, v)
    <3>1. PICK v \in Path : v # <<>> /\ Join(at, v) \in DOMAIN u /\ q = Join(parent, v)
      BY <2>1
    <3> QED BY <1>2, <1>11, <3>1
  <2>2. CASE ~ \E v \in Path : v # <<>> /\ Join(at, v) \in DOMAIN u /\ q = Join(parent, v)
    <3>1. q \in DOMAIN flat
      BY <1>14
    <3>2. q \in DOMAIN u /\ ~IsPrefix(at, q)
      BY <1>11, <2>2, <3>1
    <3>3. flat[q] = u[q]
      BY <1>11, <1>16, <2>2, <3>1
    <3> QED BY <1>2, <1>16, <3>2, <3>3
  <2> QED BY <2>1, <2>2
<1>17. flat = t
  <2>1. flat = [q \in DOMAIN flat |-> flat[q]] /\ t = [q \in DOMAIN t |-> t[q]]
    BY <1>12 DEF Good, IsTree
  <2>2. \A q \in DOMAIN t : flat[q] = t[q]
    BY <1>15, <1>16
  <2> QED BY <1>14, <2>1, <2>2
<1>18. Apart(u, at, parent)
  BY <1>2, <1>8, <1>10 DEF Apart
<1> QED BY <1>17, <1>18 DEF flat, u, at

-----------------------------------------------------------------------------
(* Local targets *)

(* What leads to an item is there, and is all groups. *)
LEMMA PrefixesAreGroups ==
    ASSUME NEW t, Good(t), NEW q \in Groups(t)
    PROVE  /\ q \in Path /\ Len(q) \in Nat
           /\ \A n \in 0..Len(q) : Cut(q, 1, n) \in Groups(t) /\ Cut(q, 1, n) \in Path
           /\ \A n \in 1..Len(q) : /\ q[n] \in Identifiers
                                   /\ Cut(q, 1, n) = Child(Cut(q, 1, n - 1), q[n])
           /\ Cut(q, 1, 0) = <<>> /\ Cut(q, 1, Len(q)) = q
<1>1. q \in DOMAIN t /\ q \in Path /\ q \in Seq(Identifiers)
  BY KidsFacts DEF Groups, Path
<1>2. Len(q) \in Nat /\ \A n \in 1..Len(q) : q[n] \in Identifiers
  BY <1>1, ListFacts
<1>3. /\ \A n \in 0..Len(q) : Cut(q, 1, n) \in Path
      /\ Cut(q, 1, 0) = <<>> /\ Cut(q, 1, Len(q)) = q
  <2>1. 1 \in 1..(Len(q) + 1) /\ 0 < 1 /\ 0 \in 0..Len(q)
    BY <1>2
  <2>2. \A n \in 0..Len(q) : Cut(q, 1, n) \in Seq(Identifiers)
    BY <1>1, <2>1, PartCut
  <2>3. Cut(q, 1, Len(q)) = q
    BY <1>1, CutFacts
  <2>4. Cut(q, 1, 0) = <<>>
    BY <1>1, <2>1, CutFacts
  <2> QED BY <2>2, <2>3, <2>4 DEF Path
<1>4. ASSUME NEW n \in 1..Len(q) PROVE Cut(q, 1, n) = Child(Cut(q, 1, n - 1), q[n])
  <2>1. 1 \in 1..Len(q) /\ n \in 1..Len(q)
    BY <1>2
  <2> QED BY <1>1, <2>1, CutFacts
<1>5. ASSUME NEW n \in 0..Len(q) PROVE Cut(q, 1, n) \in DOMAIN t
  <2> DEFINE front == Cut(q, 1, n)
             back == Cut(q, n + 1, Len(q))
  <2>1. /\ front \in Seq(Identifiers) /\ Len(front) = n
        /\ \A k \in 1..n : front[k] = q[k]
    <3>1. n + 1 \in 1..(Len(q) + 1) /\ (n + 1) - 1 = n
      BY <1>2
    <3>2. /\ Cut(q, 1, (n + 1) - 1) \in Seq(Identifiers)
          /\ Len(Cut(q, 1, (n + 1) - 1)) = (n + 1) - 1
          /\ \A k \in 1..((n + 1) - 1) : Cut(q, 1, (n + 1) - 1)[k] = q[k]
      BY <1>1, <3>1, FrontCut
    <3> QED BY <3>1, <3>2
  <2>2. /\ back \in Seq(Identifiers) /\ Len(back) = Len(q) - n
        /\ \A k \in 1..(Len(q) - n) : back[k] = q[n + k]
    BY <1>1, BackCut
  <2> HIDE DEF front, back
  <2> DEFINE both == Join(front, back)
  <2>3. /\ both \in Seq(Identifiers) /\ Len(both) = Len(front) + Len(back)
        /\ \A k \in 1..(Len(front) + Len(back)) :
              both[k] = IF k <= Len(front) THEN front[k] ELSE back[k - Len(front)]
    BY <2>1, <2>2, JoinFacts
  <2> HIDE DEF both
  <2>4. Len(both) = Len(q)
    BY <1>2, <2>1, <2>2, <2>3
  <2>5. ASSUME NEW k \in 1..Len(both) PROVE both[k] = q[k]
    <3>1. k \in 1..Len(q) /\ both[k] = IF k <= n THEN front[k] ELSE back[k - n]
      BY <1>2, <2>1, <2>2, <2>3, <2>4
    <3>2. CASE k <= n
      <4>1. k \in 1..n
        BY <1>2, <3>1, <3>2
      <4> QED BY <2>1, <3>1, <3>2, <4>1
    <3>3. CASE ~(k <= n)
      <4>1. k - n \in 1..(Len(q) - n) /\ n + (k - n) = k
        BY <1>2, <3>1, <3>3
      <4> QED BY <2>2, <3>1, <3>3, <4>1
    <3> QED BY <3>2, <3>3
  <2>6. both = q
    BY <1>1, <2>3, <2>4, <2>5, SeqEqual
  <2>7. Join(front, back) \in DOMAIN t /\ front \in Path /\ back \in Path
    BY <1>1, <2>1, <2>2, <2>6 DEF both, Path
  <2>8. front \in DOMAIN t
    BY <2>7, TreeIsClosed
  <2> QED BY <2>8 DEF front
<1>6. ASSUME NEW n \in 0..Len(q) PROVE Cut(q, 1, n) \in Groups(t)
  <2>1. CASE n = Len(q)
    BY <1>3, <2>1
  <2>2. CASE n # Len(q)
    <3>1. n + 1 \in 1..Len(q) /\ n + 1 \in 0..Len(q) /\ (n + 1) - 1 = n
      BY <1>2, <2>2
    <3>2. Cut(q, 1, n + 1) = Child(Cut(q, 1, n), q[n + 1]) /\ q[n + 1] \in Identifiers
      BY <1>2, <1>4, <3>1
    <3>3. /\ Child(Cut(q, 1, n), q[n + 1]) # <<>>
          /\ Front(Child(Cut(q, 1, n), q[n + 1])) = Cut(q, 1, n)
      BY <1>3, <3>2, ChildOfPath
    <3>4. Child(Cut(q, 1, n), q[n + 1]) \in DOMAIN t
      BY <1>5, <3>1, <3>2
    <3> QED BY <3>3, <3>4, FrontIsGroup DEF Groups
  <2> QED BY <2>1, <2>2
<1> QED BY <1>1, <1>2, <1>3, <1>4, <1>6

(* A place that was found, in s and at p. *)
Stands(at, s, p) == at.ok = TRUE /\ at.scene = s /\ at.path = p

LEMMA StepIntoGroup ==
    ASSUME NEW d, NEW at, NEW s, NEW p, NEW id, Stands(at, s, p),
           Child(p, id) \in Groups(d.scenes[s])
    PROVE  Stands(StepInto(d, at, id), s, Child(p, id))
<1> DEFINE t == d.scenes[at.scene]
           next == Child(at.path, id)
           e == StepInto(d, at, id)
           locked == at.locked \/ t[next].locked
<1>0. at.ok = TRUE /\ at.scene = s /\ at.path = p
  BY DEF Stands
<1>1. next \in DOMAIN t /\ t[next].kind = "group" /\ at.ok
  BY <1>0 DEF Groups
<1>2. e = IF ~at.ok \/ next \notin DOMAIN t THEN [at EXCEPT !.ok = FALSE]
          ELSE CASE t[next].kind = "group" ->
                       [ok |-> TRUE, scene |-> at.scene, path |-> next, locked |-> locked]
                 [] t[next].kind = "scene" ->
                       [ok |-> TRUE, scene |-> t[next].ref, path |-> <<>>, locked |-> locked]
                 [] OTHER ->
                       [ok |-> FALSE, scene |-> at.scene, path |-> at.path, locked |-> locked]
  BY Zenon DEF StepInto, Child
<1> HIDE DEF e, locked
<1>3. e = [ok |-> TRUE, scene |-> at.scene, path |-> next, locked |-> locked]
  BY <1>1, <1>2
<1> HIDE DEF next
<1>4. e.ok = TRUE /\ e.scene = at.scene /\ e.path = next
  BY <1>3
<1> QED BY <1>0, <1>4 DEF e, next, Stands

(* A path through groups of a scene leads to where it says. *)
LEMMA LocalParent ==
    ASSUME NEW d, Sound(d), NEW s \in Scenes(d), NEW q \in Groups(d.scenes[s])
    PROVE  Stands(ResolveParent(d, s, q), s, q)
<1> DEFINE t == d.scenes[s]
           m == Len(q)
<1>1. Good(t)
  BY SceneFacts
<1>2. /\ q \in Path /\ m \in Nat
      /\ \A n \in 0..m : Cut(q, 1, n) \in Groups(t) /\ Cut(q, 1, n) \in Path
      /\ \A n \in 1..m : q[n] \in Identifiers /\ Cut(q, 1, n) = Child(Cut(q, 1, n - 1), q[n])
      /\ Cut(q, 1, 0) = <<>> /\ Cut(q, 1, m) = q
  BY <1>1, PrefixesAreGroups
<1>3. PICK g \in [0..m -> Positions(d)] :
              /\ g[0] = AtRoot(s)
              /\ \A n \in 1..m : g[n] = StepInto(d, g[n - 1], q[n])
              /\ ResolveParent(d, s, q) = g[m]
  BY <1>2, ParentByWalk
<1> DEFINE N == {n \in 0..m : Stands(g[n], s, Cut(q, 1, n))}
<1>4. 0 \in N
  <2>1. Stands(g[0], s, <<>>)
    BY <1>3 DEF AtRoot, Stands
  <2> QED BY <1>2, <2>1
<1>5. ASSUME NEW n \in 0..(m - 1), n \in N PROVE n + 1 \in N
  <2>1. n + 1 \in 1..m /\ n + 1 \in 0..m /\ (n + 1) - 1 = n
    BY <1>2
  <2>2. Stands(g[n], s, Cut(q, 1, n))
    BY <1>5
  <2>3. g[n + 1] = StepInto(d, g[n], q[n + 1])
    BY <1>3, <2>1
  <2>4. Child(Cut(q, 1, n), q[n + 1]) = Cut(q, 1, n + 1) /\ Cut(q, 1, n + 1) \in Groups(t)
    BY <1>2, <2>1
  <2>5. Stands(g[n + 1], s, Cut(q, 1, n + 1))
    BY <2>2, <2>3, <2>4, StepIntoGroup
  <2> QED BY <2>1, <2>5
<1>6. \A n \in 0..m : n \in N
  <2> HIDE DEF N
  <2> QED BY <1>2, <1>4, <1>5, InductionUpTo
<1>7. Stands(g[m], s, Cut(q, 1, m))
  BY <1>2, <1>6
<1> QED BY <1>2, <1>3, <1>7

LEMMA LocalTarget ==
    ASSUME NEW d, Sound(d), NEW s \in Scenes(d), NEW parent \in Groups(d.scenes[s]),
           NEW id \in Identifiers
    PROVE  LET o == Resolve(d, s, Child(parent, id))
           IN  /\ o.scene = s
               /\ o.path = Child(parent, id)
               /\ o.ok <=> /\ Len(Child(parent, id)) <= MaxDepth + 1
                           /\ Child(parent, id) \in DOMAIN d.scenes[s]
<1> DEFINE at == ResolveParent(d, s, parent)
           o == Resolve(d, s, Child(parent, id))
<1>1. parent \in Path
  BY SceneFacts, KidsFacts DEF Groups
<1>2. Front(Child(parent, id)) = parent /\ Last(Child(parent, id)) = id
  BY <1>1, ChildOfPath
<1>3. at.ok = TRUE /\ at.scene = s /\ at.path = parent
  BY LocalParent DEF Stands
<1>4. o = [ok |-> /\ at.ok
                  /\ Len(Child(parent, id)) <= MaxDepth + 1
                  /\ Child(at.path, id) \in DOMAIN d.scenes[at.scene],
           scene |-> at.scene, path |-> Child(at.path, id), locked |-> at.locked]
  BY <1>2 DEF Resolve, Child
<1> HIDE DEF at, o
<1>5. /\ o.scene = at.scene /\ o.path = Child(at.path, id)
      /\ o.ok <=> /\ at.ok
                  /\ Len(Child(parent, id)) <= MaxDepth + 1
                  /\ Child(at.path, id) \in DOMAIN d.scenes[at.scene]
  BY <1>4
<1>6. /\ o.scene = s /\ o.path = Child(parent, id)
      /\ o.ok <=> /\ Len(Child(parent, id)) <= MaxDepth + 1
                  /\ Child(parent, id) \in DOMAIN d.scenes[s]
  BY <1>3, <1>5
<1> QED BY <1>6 DEF o

(* The children of parent from the a-th to the b-th. *)
Neighbours(t, parent, a, b) == {Child(parent, t[parent].kids[i]) : i \in a..b}

LEMMA RunsAreNeighbours ==
    ASSUME NEW t, NEW parent, NEW ps \in Runs(t, parent)
    PROVE  \E a \in 1..Len(t[parent].kids), b \in 1..Len(t[parent].kids) :
              ps = Neighbours(t, parent, a, b)
  BY DEF Runs, Child, Neighbours

(* Neighbours that may be grouped are a run, and are put in a group of their own. *)
LEMMA RunMayBeGrouped ==
    ASSUME NEW d, Sound(d), NEW s \in Scenes(d), NEW parent \in Groups(d.scenes[s]),
           NEW ps \in Runs(d.scenes[s], parent), NEW g \in Identifiers,
           GroupItems(d, s, ps, g).ok = TRUE
    PROVE  /\ \A p \in ps : p \in Path /\ p # <<>>
           /\ ~HasChild(d.scenes[s], parent, g)
           /\ Len(Child(parent, g)) <= MaxDepth + 1
           /\ \E a, b, ids, roots :
                 /\ RunOf(d.scenes[s], parent, a, b, ids, roots)
                 /\ GroupItems(d, s, ps, g).doc
                       = WithScene(d, s, Grouped(d.scenes[s], parent, g, ids, roots))
<1> DEFINE owners == {Resolve(d, s, p) : p \in ps}
           one == CHOOSE o \in owners : TRUE
           home == Front(one.path)
           t == d.scenes[one.scene]
           ids == {Last(o.path) : o \in owners}
           refused == \/ Cardinality(ps) < 2
                      \/ \E o \in owners : ~o.ok
                      \/ \E o \in owners : <<o.scene, Front(o.path)>> # <<one.scene, home>>
                      \/ Cardinality(ids) # Cardinality(ps)
                      \/ HasChild(t, home, g)
                      \/ \E id \in ids : t[Append(home, id)].locked
           roots == {Append(home, id) : id \in ids}
           u == Attached(Detached(t, roots), home, g, FirstIndex(t[home].kids, ids),
                         GroupOf(t, home, ids))
           list == d.scenes[s][parent].kids
<1>1. ~refused
  <2>1. SUFFICES ASSUME refused PROVE FALSE
    OBVIOUS
  <2>2. GroupItems(d, s, ps, g) = Refused(d)
    BY <2>1, Zenon DEF GroupItems
  <2> HIDE DEF refused
  <2> QED BY <2>2, Answers
<1>2. GroupItems(d, s, ps, g) = InOwner(d, one, u)
  BY <1>1, Zenon DEF GroupItems
<1>3. GroupItems(d, s, ps, g).doc = WithScene(d, one.scene, u)
  <2> HIDE DEF u, one
  <2> QED BY <1>2, Answers DEF InOwner
<1>4. ps # {} /\ \A o \in owners : o.ok
  <2>1. ~(Cardinality(ps) < 2) /\ ~ \E o \in owners : ~o.ok
    <3> HIDE DEF owners, one, ids
    <3> QED BY <1>1
  <2>2. ps # {}
    BY <2>1, FS_EmptySet
  <2> HIDE DEF owners
  <2> QED BY <2>1, <2>2
<1>5. ~HasChild(t, home, g)
  <2> HIDE DEF owners, one, home, ids
  <2> QED BY <1>1
<1>6. /\ parent \in DOMAIN d.scenes[s] /\ parent \in Path
      /\ list \in Seq(Identifiers) /\ Len(list) \in Nat
      /\ \A i \in 1..Len(list) : list[i] \in Identifiers
  <2>1. Good(d.scenes[s]) /\ parent \in DOMAIN d.scenes[s]
    BY SceneFacts DEF Groups
  <2>2. parent \in Path /\ list \in Seq(Identifiers)
    BY <2>1, KidsFacts
  <2> HIDE DEF list
  <2> QED BY <2>1, <2>2, ListFacts
<1>7. PICK a \in 1..Len(list), b \in 1..Len(list) :
          ps = Neighbours(d.scenes[s], parent, a, b)
  BY RunsAreNeighbours
<1>8. \A i \in a..b : i \in 1..Len(list)
  BY <1>6, <1>7
<1>9. /\ \A p : p \in ps <=> \E i \in a..b : p = Child(parent, list[i])
      /\ a \in a..b
  <2>1. \A p : p \in ps <=> \E i \in a..b : p = Child(parent, list[i])
    BY <1>7 DEF Neighbours
  <2>2. a..b # {}
    BY <1>4, <2>1
  <2> HIDE DEF list
  <2>3. a <= b
    BY <1>6, <1>7, <2>2
  <2> QED BY <1>6, <1>7, <2>1, <2>3
<1>10. \A i \in a..b : list[i] \in Identifiers
  BY <1>6, <1>8
<1> HIDE DEF list
<1>11. \A i \in a..b : LET o == Resolve(d, s, Child(parent, list[i]))
                       IN  /\ o.scene = s
                           /\ Front(o.path) = parent /\ Last(o.path) = list[i]
                           /\ o.ok => Len(Child(parent, list[i])) <= MaxDepth + 1
  <2>1. SUFFICES ASSUME NEW i \in a..b
                 PROVE  LET o == Resolve(d, s, Child(parent, list[i]))
                        IN  /\ o.scene = s
                            /\ Front(o.path) = parent /\ Last(o.path) = list[i]
                            /\ o.ok => Len(Child(parent, list[i])) <= MaxDepth + 1
    OBVIOUS
  <2> DEFINE o == Resolve(d, s, Child(parent, list[i]))
  <2>2. /\ o.scene = s /\ o.path = Child(parent, list[i])
        /\ o.ok <=> /\ Len(Child(parent, list[i])) <= MaxDepth + 1
                    /\ Child(parent, list[i]) \in DOMAIN d.scenes[s]
    BY <1>10, LocalTarget
  <2>3. Front(Child(parent, list[i])) = parent /\ Last(Child(parent, list[i])) = list[i]
    BY <1>6, <1>10, ChildOfPath
  <2> HIDE DEF o
  <2> QED BY <2>2, <2>3 DEF o
<1>12. \A o : o \in owners <=> \E i \in a..b : o = Resolve(d, s, Child(parent, list[i]))
  BY <1>9
<1> DEFINE Found(i) == Resolve(d, s, Child(parent, list[i]))
<1>13. one \in owners
  <2>1. owners # {}
    BY <1>4
  <2> HIDE DEF owners
  <2> QED BY <2>1, Zenon
<1>14. \A x : x \in ids <=> \E o \in owners : x = Last(o.path)
  BY Zenon
<1> HIDE DEF owners, one
<1>15. one.scene = s /\ home = parent
  BY <1>11, <1>12, <1>13
<1>16. \A x : x \in ids <=> \E i \in a..b : x = list[i]
  <2> HIDE DEF ids
  <2> QED BY <1>11, <1>12, <1>14
<1>17. Len(Child(parent, g)) <= MaxDepth + 1
  <2>1. Resolve(d, s, Child(parent, list[a])) \in owners
    BY <1>9, <1>12
  <2>2. Len(Child(parent, list[a])) <= MaxDepth + 1
    BY <1>4, <1>9, <1>11, <2>1
  <2>3. /\ Len(Child(parent, g)) = Len(parent) + 1
        /\ Len(Child(parent, list[a])) = Len(parent) + 1
    BY <1>6, <1>9, <1>10, ChildOfPath
  <2> QED BY <2>2, <2>3
<1>18. ASSUME NEW p \in ps PROVE p \in Path /\ p # <<>>
  <2>1. PICK i \in a..b : p = Child(parent, list[i])
    BY <1>9
  <2>2. list[i] \in Identifiers
    BY <1>10
  <2> QED BY <1>6, <2>1, <2>2, ChildOfPath
<1>19. RunOf(d.scenes[s], parent, a, b, ids, roots)
  <2>1. \A p : p \in roots <=> \E id \in ids : p = Child(parent, id)
    <3> HIDE DEF home, ids
    <3> QED BY <1>15 DEF Child
  <2>2. b \in a..Len(list)
    BY <1>6, <1>7, <1>9
  <2> HIDE DEF ids, roots
  <2> QED BY <1>7, <1>16, <2>1, <2>2 DEF RunOf, list
<1>20. u = Grouped(d.scenes[s], parent, g, ids, roots)
  <2> HIDE DEF home, ids, roots
  <2> QED BY <1>15 DEF Grouped
<1>21. ~HasChild(d.scenes[s], parent, g)
  <2> HIDE DEF home
  <2> QED BY <1>5, <1>15
<1>22. GroupItems(d, s, ps, g).doc = WithScene(d, s, Grouped(d.scenes[s], parent, g, ids, roots))
  <2> HIDE DEF u, ids, roots
  <2> QED BY <1>3, <1>15, <1>20
<1> HIDE DEF ids, roots
<1> QED BY <1>17, <1>18, <1>19, <1>21, <1>22

(* A group whose children are apart from its siblings may be dissolved. *)
LEMMA GroupMayBeDissolved ==
    ASSUME NEW e, Sound(e), NEW s \in Scenes(e), NEW parent \in Groups(e.scenes[s]),
           NEW g \in Identifiers, Child(parent, g) \in DOMAIN e.scenes[s],
           e.scenes[s][Child(parent, g)].kind = "group",
           e.scenes[s][Child(parent, g)].locked = FALSE,
           Apart(e.scenes[s], Child(parent, g), parent),
           Len(Child(parent, g)) <= MaxDepth + 1
    PROVE  UngroupItem(e, s, Child(parent, g))
              = Accepted(WithScene(e, s, Dissolved(e.scenes[s], Child(parent, g))))
<1> DEFINE place == Child(parent, g)
           at == Resolve(e, s, place)
           t == e.scenes[at.scene]
           siblings == ToSet(t[Front(at.path)].kids) \ {Last(at.path)}
           refused == \/ ~at.ok
                      \/ t[at.path].kind # "group"
                      \/ t[at.path].locked
                      \/ ToSet(t[at.path].kids) \cap siblings # {}
<1>1. at.scene = s /\ at.path = place /\ at.ok
  BY LocalTarget
<1>2. Front(place) = parent
  BY SceneFacts, KidsFacts, ChildOfPath DEF Groups
<1>3. ~refused
  <2>1. ToSet(t[at.path].kids) \cap siblings = {}
    <3> HIDE DEF at, place
    <3> QED BY <1>1, <1>2 DEF place, Apart
  <2> HIDE DEF at, siblings
  <2> QED BY <1>1, <2>1
<1>4. UngroupItem(e, s, place) = InOwner(e, at, Dissolved(t, at.path))
  BY <1>3, Zenon DEF UngroupItem
<1> HIDE DEF at
<1> QED BY <1>1, <1>4 DEF InOwner

(* A scene that is changed and changed back. *)
LEMMA SceneReturns ==
    ASSUME NEW d, IsProfile(d), NEW s \in Scenes(d), NEW u
    PROVE  WithScene(WithScene(d, s, u), s, d.scenes[s]) = d
<1> DEFINE new == [r \in Scenes(d) \cup {s} |-> IF r = s THEN u ELSE d.scenes[r]]
           e == WithScene(d, s, u)
           back == [r \in Scenes(e) \cup {s} |-> IF r = s THEN d.scenes[s] ELSE e.scenes[r]]
<1>1. /\ d = [sources |-> d.sources, scenes |-> d.scenes, order |-> d.order]
      /\ d.scenes = [r \in Scenes(d) |-> d.scenes[r]]
  BY DEF IsProfile
<1>2. e = [d EXCEPT !.scenes = new]
  BY DEF WithScene
<1>3. /\ DOMAIN new = Scenes(d) \cup {s}
      /\ \A r \in Scenes(d) : r # s => new[r] = d.scenes[r]
  OBVIOUS
<1> HIDE DEF new, e
<1>4. e = [sources |-> d.sources, scenes |-> new, order |-> d.order]
  BY <1>1, <1>2
<1>5. e.sources = d.sources /\ e.scenes = new /\ e.order = d.order
  BY <1>4
<1>6. WithScene(e, s, d.scenes[s]) = [e EXCEPT !.scenes = back]
  BY DEF WithScene
<1>7. back = d.scenes
  <2>1. Scenes(e) \cup {s} = Scenes(d)
    BY <1>3, <1>5 DEF Scenes
  <2>2. back = [r \in Scenes(d) |-> IF r = s THEN d.scenes[s] ELSE e.scenes[r]]
    BY <2>1
  <2>3. \A r \in Scenes(d) : (IF r = s THEN d.scenes[s] ELSE e.scenes[r]) = d.scenes[r]
    BY <1>3, <1>5
  <2> QED BY <1>1, <2>2, <2>3
<1> HIDE DEF back
<1>8. [e EXCEPT !.scenes = back] = [sources |-> d.sources, scenes |-> back, order |-> d.order]
  BY <1>4
<1> QED BY <1>1, <1>6, <1>7, <1>8 DEF e

(* Neighbours that are grouped and ungrouped again leave the profile as it was. *)
LEMMA RunIsUndone ==
    ASSUME NEW d, Sound(d), NEW s \in Scenes(d), NEW parent \in Groups(d.scenes[s]),
           NEW ps \in Runs(d.scenes[s], parent), NEW g \in Identifiers,
           GroupItems(d, s, ps, g).ok = TRUE
    PROVE  UngroupItem(GroupItems(d, s, ps, g).doc, s, Append(parent, g)) = Accepted(d)
<1> DEFINE t == d.scenes[s]
           e == GroupItems(d, s, ps, g).doc
           at == Child(parent, g)
<1>1. /\ \A p \in ps : p \in Path /\ p # <<>>
      /\ ~HasChild(t, parent, g)
      /\ Len(at) <= MaxDepth + 1
  BY RunMayBeGrouped
<1>2. PICK a, b, ids, roots :
          /\ RunOf(t, parent, a, b, ids, roots)
          /\ e = WithScene(d, s, Grouped(t, parent, g, ids, roots))
  BY RunMayBeGrouped
<1> DEFINE u == Grouped(t, parent, g, ids, roots)
<1>3. Good(t) /\ <<>> \in Groups(t) /\ s \in Identifiers
  BY SceneFacts
<1>4. Sound(e)
  BY <1>1, GroupItemsRearranges DEF Rearranged
<1>5. HoldsRun(t, u, parent, at, g, a, b, ids)
  BY <1>1, <1>2, <1>3, RunGrouped
<1>6. Apart(u, at, parent) /\ Dissolved(u, at) = t
  BY <1>1, <1>2, <1>3, RunDissolved
<1>7. e = WithScene(d, s, u)
  BY <1>2
<1> HIDE DEF u, e
<1>8. /\ Good(u) /\ <<>> \in Groups(u)
      /\ at \in DOMAIN u /\ u[at] = Node("group", <<>>, Cut(t[parent].kids, a, b))
      /\ u[parent].kind = t[parent].kind
  BY <1>5 DEF HoldsRun
<1>9. s \in Scenes(e) /\ e.scenes[s] = u
  BY <1>3, <1>7, <1>8, WithSceneFacts DEF Sound, Good
<1>10. parent \in Path
  BY <1>3, KidsFacts DEF Groups
<1>11. parent \in Groups(u)
  <2>1. Front(at) = parent /\ at # <<>>
    BY <1>10, ChildOfPath
  <2> QED BY <1>8, <2>1, FrontIsGroup DEF Groups
<1>12. u[at].kind = "group" /\ u[at].locked = FALSE
  BY <1>8 DEF Node
<1>13. UngroupItem(e, s, at) = Accepted(WithScene(e, s, Dissolved(u, at)))
  BY <1>1, <1>4, <1>6, <1>8, <1>9, <1>11, <1>12, GroupMayBeDissolved
<1>14. WithScene(e, s, t) = d
  BY <1>7, SceneReturns DEF Sound
<1> QED BY <1>6, <1>13, <1>14 DEF e, Child

-----------------------------------------------------------------------------
(* Items that move to another parent *)

(* What a scene without an item leaves of it, and of the scene. *)
LEMMA SceneWithout ==
    ASSUME NEW d, Sound(d), NEW s \in Scenes(d), NEW p \in DOMAIN d.scenes[s], p # <<>>
    PROVE  /\ Sound(WithScene(d, s, Detached(d.scenes[s], {p})))
           /\ Scenes(WithScene(d, s, Detached(d.scenes[s], {p}))) = Scenes(d)
           /\ WithScene(d, s, Detached(d.scenes[s], {p})).sources = d.sources
           /\ WithScene(d, s, Detached(d.scenes[s], {p})).scenes[s]
                 = Detached(d.scenes[s], {p})
           /\ \A r \in Scenes(d) : r # s =>
                 WithScene(d, s, Detached(d.scenes[s], {p})).scenes[r] = d.scenes[r]
           /\ \A r \in Scenes(d) :
                 SceneRefers(WithScene(d, s, Detached(d.scenes[s], {p})), r)
                    \subseteq SceneRefers(d, r)
<1> DEFINE t == d.scenes[s]
           roots == {p}
           u == Detached(t, roots)
           e == WithScene(d, s, u)
<1>1. roots \in SUBSET (Path \ {<<>>})
  BY ItemFacts
<1> HIDE DEF roots
<1>2. Sound(e)
  BY <1>1, ItemsDetached
<1>3. Good(t) /\ <<>> \in Groups(t) /\ IsProfile(d) /\ s \in Identifiers
  BY SceneFacts DEF Sound
<1>4. Good(u) /\ <<>> \in Groups(u) /\ IsTree(u)
  BY <1>1, <1>3, DetachedIsGood, DetachedRoot DEF Good
<1>5. References(u, "scene") \subseteq References(t, "scene")
  BY <1>1, <1>3, DetachedRefers
<1> HIDE DEF u
<1>6. /\ e.sources = d.sources
      /\ \A r : r \in Scenes(e) <=> r \in Scenes(d) \/ r = s
      /\ e.scenes[s] = u
      /\ \A r \in Scenes(d) : r # s => e.scenes[r] = d.scenes[r]
  BY <1>3, <1>4, WithSceneFacts
<1> HIDE DEF e
<1>7. Scenes(e) = Scenes(d)
  BY <1>6
<1>8. \A r \in Scenes(d) : SceneRefers(e, r) \subseteq SceneRefers(d, r)
  BY <1>5, <1>6 DEF SceneRefers
<1> QED BY <1>2, <1>6, <1>7, <1>8 DEF e, u, roots

(* Where another parent's items are as they were. *)
LEMMA ParentStays ==
    ASSUME NEW t, Good(t), NEW p \in DOMAIN t, p # <<>>, NEW parent \in Groups(t),
           ~IsPrefix(p, parent), Front(p) # parent
    PROVE  /\ parent \in Groups(Detached(t, {p}))
           /\ \A x : x \in ToSet(Detached(t, {p})[parent].kids) <=> x \in ToSet(t[parent].kids)
           /\ Len(Detached(t, {p})[parent].kids) = Len(t[parent].kids)
<1> DEFINE roots == {p}
           u == Detached(t, roots)
<1>1. p \in Path /\ parent \in DOMAIN t /\ t[parent].kind = "group" /\ parent \in Path
  BY KidsFacts DEF Groups
<1>2. roots \in SUBSET (Path \ {<<>>}) /\ \A q : q \in roots <=> q = p
  BY <1>1
<1> HIDE DEF roots
<1>3. parent \in DOMAIN u
  <2>1. DOMAIN u = {q \in DOMAIN t : \A r \in roots : ~IsPrefix(r, q)}
    BY <1>2, DetachedFacts
  <2> HIDE DEF u
  <2> QED BY <1>1, <1>2, <2>1
<1>4. /\ u[parent].kind = "group"
      /\ \A x : x \in ToSet(u[parent].kids)
                   <=> x \in ToSet(t[parent].kids) /\ Child(parent, x) \notin roots
      /\ Distinct(u[parent].kids)
  BY <1>1, <1>2, <1>3, DetachedNodes
<1>5. Good(u)
  BY <1>2, DetachedIsGood
<1> HIDE DEF u
<1>6. t[parent].kids \in Seq(Identifiers) /\ Distinct(t[parent].kids)
  BY <1>1, KidsFacts
<1>7. u[parent].kids \in Seq(Identifiers)
  BY <1>3, <1>5, KidsFacts
<1>8. \A x \in ToSet(t[parent].kids) : Child(parent, x) \notin roots
  <2>1. \A x \in ToSet(t[parent].kids) : x \in Identifiers
    BY <1>6, ListFacts
  <2>2. \A x \in Identifiers : Front(Child(parent, x)) = parent
    BY <1>1, ChildOfPath
  <2> QED BY <1>2, <2>1, <2>2
<1>9. \A x : x \in ToSet(u[parent].kids) <=> x \in ToSet(t[parent].kids)
  BY <1>4, <1>8
<1>10. ToSet(u[parent].kids) = ToSet(t[parent].kids)
  BY <1>9
<1>11. Len(u[parent].kids) = Len(t[parent].kids)
  BY <1>4, <1>6, <1>7, <1>10, DistinctLength
<1>12. parent \in Groups(u)
  BY <1>3, <1>4 DEF Groups
<1> QED BY <1>9, <1>11, <1>12 DEF u, roots

(* w is u with an item's tree put at a path, and u has nothing there. *)
Landed(u, w, at, item) ==
    /\ \A q : IsLeaf(w, q) <=>
           \/ IsLeaf(u, q)
           \/ \E v \in DOMAIN item : q = Join(at, v) /\ item[v].kind # "group"
    /\ \A q : IsLeaf(u, q) => w[q] = u[q] /\ ~IsPrefix(at, q)
    /\ \A v \in DOMAIN item : w[Join(at, v)] = item[v]

(* The items that are carried are where they arrive, the others where they were. *)
LEMMA CarriedSlots ==
    ASSUME NEW d, NEW e, NEW between, NEW s \in Scenes(d), NEW r \in Scenes(d),
           Good(d.scenes[s]), NEW p \in DOMAIN d.scenes[s], p # <<>>, NEW at \in Path,
           NEW item,
           DOMAIN item = {v \in Path : Join(p, v) \in DOMAIN d.scenes[s]},
           \A v \in DOMAIN item : item[v] = d.scenes[s][Join(p, v)],
           Scenes(e) = Scenes(d),
           \A x \in Scenes(d) : x # r => e.scenes[x] = between[x],
           \A x \in Scenes(d) : x # s => between[x] = d.scenes[x],
           between[s] = Detached(d.scenes[s], {p}),
           Landed(between[r], e.scenes[r], at, item)
    PROVE  Shifted(d, e, s, r, p, at, DOMAIN item)
<1> DEFINE V == DOMAIN item
<1>0. /\ \A q : IsLeaf(e.scenes[r], q) <=>
            \/ IsLeaf(between[r], q)
            \/ \E v \in V : q = Join(at, v) /\ item[v].kind # "group"
      /\ \A q : IsLeaf(between[r], q) =>
            e.scenes[r][q] = between[r][q] /\ ~IsPrefix(at, q)
      /\ \A v \in V : e.scenes[r][Join(at, v)] = item[v]
  BY DEF Landed
<1>1. p \in Path
  BY KidsFacts
<1>2. /\ \A v \in V : v \in Path /\ Join(p, v) \in DOMAIN d.scenes[s]
      /\ \A q \in DOMAIN d.scenes[s] : IsPrefix(p, q) => \E v \in V : q = Join(p, v)
  <2>1. \A v : v \in V <=> v \in Path /\ Join(p, v) \in DOMAIN d.scenes[s]
    OBVIOUS
  <2>2. ASSUME NEW q \in DOMAIN d.scenes[s], IsPrefix(p, q) PROVE \E v \in V : q = Join(p, v)
    <3>1. q \in Path
      BY KidsFacts
    <3>2. PICK v \in Path : q = Join(p, v)
      BY <1>1, <2>2, <3>1, PathPrefix
    <3> QED BY <2>1, <3>2
  <2> QED BY <2>1, <2>2
<1>3. \A v \in V : /\ IsPrefix(p, Join(p, v)) /\ IsPrefix(at, Join(at, v))
                   /\ Join(p, v) # <<>>
  BY <1>1, <1>2, JoinOfPaths, OnlyTheRootIsEmpty
<1>4. /\ \A q : IsLeaf(between[s], q) <=> IsLeaf(d.scenes[s], q) /\ ~IsPrefix(p, q)
      /\ \A q : IsLeaf(between[s], q) => between[s][q] = d.scenes[s][q]
  <2> DEFINE roots == {p}
  <2>1. roots \in SUBSET (Path \ {<<>>}) /\ \A q : q \in roots <=> q = p
    BY <1>1
  <2>2. between[s] = Detached(d.scenes[s], roots)
    OBVIOUS
  <2> HIDE DEF roots
  <2> QED BY <2>1, <2>2, DetachedLeaves
<1> HIDE DEF V
<1>5. \A x, q : x \in Scenes(d) =>
         /\ IsLeaf(between[x], q)
               <=> IsLeaf(d.scenes[x], q) /\ ~(x = s /\ \E v \in V : q = Join(p, v))
         /\ IsLeaf(between[x], q) => between[x][q] = d.scenes[x][q]
  <2>1. \A q : IsLeaf(d.scenes[s], q) => (IsPrefix(p, q) <=> \E v \in V : q = Join(p, v))
    BY <1>2, <1>3 DEF IsLeaf, ItemPaths
  <2> QED BY <1>4, <2>1
<1>6. \A v \in V : IsLeaf(d.scenes[s], Join(p, v)) <=> item[v].kind # "group"
  BY <1>2, <1>3 DEF IsLeaf, ItemPaths, V
<1>7. \A x, q : IsSlot(e, x, q) <=>
         \/ x \in Scenes(d) /\ IsLeaf(between[x], q)
         \/ x = r /\ \E v \in V : q = Join(at, v) /\ IsSlot(d, s, Join(p, v))
  <2>1. \A x : x \in Scenes(d) /\ x # r => e.scenes[x] = between[x]
    OBVIOUS
  <2>2. \A q : IsSlot(e, r, q) <=>
           \/ IsLeaf(between[r], q)
           \/ \E v \in V : q = Join(at, v) /\ IsSlot(d, s, Join(p, v))
    BY <1>0, <1>6 DEF IsSlot
  <2> QED BY <2>1, <2>2 DEF IsSlot
<1>8. \A x, q : x \in Scenes(d) /\ IsLeaf(between[x], q) =>
         /\ e.scenes[x][q] = between[x][q]
         /\ ~(x = r /\ \E v \in V : q = Join(at, v))
  BY <1>0, <1>3
<1>9. \A v \in V : IsSlot(d, s, Join(p, v)) =>
         /\ IsSlot(e, r, Join(at, v))
         /\ e.scenes[r][Join(at, v)] = d.scenes[s][Join(p, v)]
  <2>1. \A v \in V : e.scenes[r][Join(at, v)] = d.scenes[s][Join(p, v)]
    BY <1>0 DEF V
  <2> QED BY <1>7, <2>1
<1>10. \A x, q : IsSlot(d, x, q) /\ ~(x = s /\ \E v \in V : q = Join(p, v)) =>
          x \in Scenes(d) /\ IsLeaf(between[x], q)
  BY <1>5 DEF IsSlot
<1>11. \A x, q : IsSlot(d, x, q) /\ ~(x = s /\ \E v \in V : q = Join(p, v)) =>
          /\ IsSlot(e, x, q)
          /\ e.scenes[x][q] = d.scenes[x][q]
          /\ ~(x = r /\ \E v \in V : q = Join(at, v))
  BY <1>5, <1>7, <1>8, <1>10
<1>12. \A x, q : IsSlot(e, x, q) =>
          \/ x = r /\ \E v \in V : q = Join(at, v) /\ IsSlot(d, s, Join(p, v))
          \/ IsSlot(d, x, q) /\ ~(x = s /\ \E v \in V : q = Join(p, v))
  BY <1>5, <1>7 DEF IsSlot
<1>13. Shifted(d, e, s, r, p, at, V)
  BY <1>9, <1>11, <1>12, Zenon DEF Shifted
<1> QED BY <1>13 DEF V

(* An item that leaves one scene and enters another, or the same. *)
LEMMA ItemCarried ==
    ASSUME NEW d, Sound(d), NEW from, NEW to, NEW id \in Identifiers, NEW index \in Nat,
           from.scene \in Scenes(d), from.path \in DOMAIN d.scenes[from.scene],
           from.path # <<>>,
           to.scene \in Scenes(d), to.path \in Groups(d.scenes[to.scene]),
           ~(from.scene = to.scene /\ Front(from.path) = to.path),
           ~Contains(d.scenes[to.scene][to.path].kids, id),
           ~(index > Len(d.scenes[to.scene][to.path].kids)),
           ~(from.scene = to.scene /\ IsPrefix(from.path, to.path)),
           from.scene = to.scene
              \/ ItemIsValid(d, to.scene, ItemAt(d.scenes[from.scene], from.path), Len(to.path))
    PROVE  Rearranged(d, Carried(d, from, to, id, index))
<1> DEFINE s == from.scene
           p == from.path
           r == to.scene
           parent == to.path
           item == ItemAt(d.scenes[s], p)
           less == Detached(d.scenes[s], {p})
           left == WithScene(d, s, less)
           room == d.scenes[r][parent].kids
<1>1. Carried(d, from, to, id, index)
         = WithScene(left, r, Attached(left.scenes[r], parent, id, index, item))
  BY DEF Carried
<1>2. /\ s \in Scenes(d) /\ p \in DOMAIN d.scenes[s] /\ p # <<>>
      /\ r \in Scenes(d) /\ parent \in Groups(d.scenes[r])
      /\ s = r => Front(p) # parent /\ ~IsPrefix(p, parent)
      /\ ~Contains(room, id) /\ ~(index > Len(room))
      /\ s = r \/ ItemIsValid(d, r, item, Len(parent))
  OBVIOUS
<1> HIDE DEF s, p, r, parent
<1>3. /\ Sound(left) /\ Scenes(left) = Scenes(d) /\ left.sources = d.sources
      /\ left.scenes[s] = less
      /\ \A x \in Scenes(d) : x # s => left.scenes[x] = d.scenes[x]
      /\ \A x \in Scenes(d) : SceneRefers(left, x) \subseteq SceneRefers(d, x)
  BY <1>2, SceneWithout
<1>4. /\ Good(item)
      /\ \A x \in References(item, "source") : x \in References(d.scenes[s], "source")
      /\ \A x \in References(item, "scene") : x \in References(d.scenes[s], "scene")
  BY <1>2, ItemFacts
<1>5. room \in Seq(Identifiers)
  BY <1>2, SceneFacts, KidsFacts DEF Groups
<1>6. id \notin ToSet(room) /\ index \in 0..Len(room)
  BY <1>2, <1>5, ListFacts
<1> DEFINE list == left.scenes[r][parent].kids
<1> HIDE DEF item, left
<1>7. /\ parent \in Groups(left.scenes[r])
      /\ id \notin ToSet(list)
      /\ index \in 0..Len(list)
  <2>1. CASE s = r
    <3>1. Good(d.scenes[s])
      BY <1>2, SceneFacts
    <3>2. /\ parent \in Groups(less)
          /\ \A x : x \in ToSet(less[parent].kids) <=> x \in ToSet(room)
          /\ Len(less[parent].kids) = Len(room)
      BY <1>2, <2>1, <3>1, ParentStays
    <3> HIDE DEF less, room
    <3> QED BY <1>3, <1>6, <2>1, <3>2
  <2>2. CASE s # r
    <3>1. left.scenes[r] = d.scenes[r]
      BY <1>2, <1>3, <2>2
    <3> QED BY <1>2, <1>6, <3>1
  <2> QED BY <2>1, <2>2
<1> HIDE DEF less, room
<1>8. \A x \in References(item, "source") : x \in DOMAIN left.sources
  <2>1. References(d.scenes[s], "source") \subseteq DOMAIN d.sources
    BY <1>2, SceneFacts
  <2> QED BY <1>3, <1>4, <2>1
<1>9. \A x \in References(item, "scene") : TargetIsValid(d, r, x)
  <2>1. CASE s = r
    <3>1. \A x \in References(item, "scene") : x \in SceneRefers(d, s)
      BY <1>2, <1>4, SceneFacts
    <3> QED BY <1>2, <2>1, <3>1, OwnTargetsAreValid
  <2>2. CASE ItemIsValid(d, r, item, Len(parent))
    BY <2>2 DEF ItemIsValid
  <2> QED BY <1>2, <2>1, <2>2
<1>10. \A x \in References(item, "scene") : TargetIsValid(left, r, x)
  BY <1>2, <1>3, <1>9, TargetStaysValid
<1>11. r \in Scenes(left)
  BY <1>2, <1>3
<1>12. Sound(WithScene(left, r, Attached(left.scenes[r], parent, id, index, item)))
  BY <1>3, <1>4, <1>7, <1>8, <1>10, <1>11, ItemAdded
<1>13. Uses(WithScene(left, r, Attached(left.scenes[r], parent, id, index, item))) = Uses(d)
  <2> DEFINE u == Attached(left.scenes[r], parent, id, index, item)
             e == WithScene(left, r, u)
             at == Child(parent, id)
             between == left.scenes
  <2>1. Good(left.scenes[r]) /\ <<>> \in Groups(left.scenes[r])
    BY <1>3, <1>11, SceneFacts
  <2>2. IsProfile(left) /\ r \in Identifiers
    BY <1>3, <1>11, SceneFacts DEF Sound
  <2>3. Good(u)
    BY <1>4, <1>7, <2>1, AttachedIsGood DEF list
  <2>4. <<>> \in Groups(u)
    <3>1. parent \in DOMAIN left.scenes[r]
      BY <1>7 DEF Groups
    <3> QED BY <1>4, <1>7, <2>1, <3>1, AttachedRoot DEF list
  <2>5. /\ \A q : IsLeaf(u, q) <=>
             \/ IsLeaf(left.scenes[r], q)
             \/ \E v \in DOMAIN item : q = Join(at, v) /\ item[v].kind # "group"
        /\ \A q : IsLeaf(left.scenes[r], q) => u[q] = left.scenes[r][q]
        /\ \A q : IsLeaf(left.scenes[r], q) => ~IsPrefix(at, q)
        /\ \A v \in DOMAIN item : u[Join(at, v)] = item[v]
    BY <1>4, <1>7, <2>1, AttachedLeaves DEF list
  <2>6. at \in Path
    <3>1. parent \in DOMAIN left.scenes[r]
      BY <1>7 DEF Groups
    <3>2. parent \in Path
      BY <2>1, <3>1, KidsFacts
    <3> QED BY <3>2, ChildOfPath
  <2> HIDE DEF u, at
  <2>7. /\ \A x : x \in Scenes(e) <=> x \in Scenes(left) \/ x = r
        /\ e.scenes[r] = u
        /\ \A x \in Scenes(left) : x # r => e.scenes[x] = left.scenes[x]
    BY <2>2, <2>3, <2>4, WithSceneFacts DEF Good
  <2> HIDE DEF e
  <2>8. Scenes(e) = Scenes(d)
    BY <1>3, <1>11, <2>7
  <2>9. Good(d.scenes[s]) /\ p \in Path
    BY <1>2, SceneFacts, KidsFacts
  <2>10. /\ DOMAIN item = {v \in Path : Join(p, v) \in DOMAIN d.scenes[s]}
         /\ \A v \in DOMAIN item : item[v] = d.scenes[s][Join(p, v)]
    BY <1>2, <2>9, ItemIsGood DEF item
  <2>11. DOMAIN item \in SUBSET Path
    BY <2>10
  <2>12. /\ \A x \in Scenes(d) : x # r => e.scenes[x] = between[x]
         /\ \A x \in Scenes(d) : x # s => between[x] = d.scenes[x]
         /\ between[s] = Detached(d.scenes[s], {p})
    BY <1>3, <2>7 DEF less
  <2>13. Landed(between[r], e.scenes[r], at, item)
    BY <2>5, <2>7 DEF Landed
  <2> HIDE DEF between
  <2>14. Shifted(d, e, s, r, p, at, DOMAIN item)
    <3>1. /\ s \in Scenes(d) /\ r \in Scenes(d)
          /\ p \in DOMAIN d.scenes[s] /\ p # <<>>
      BY <1>2
    <3> QED BY <2>6, <2>8, <2>9, <2>10, <2>12, <2>13, <3>1, CarriedSlots
  <2>15. Uses(e) = Uses(d)
    BY <2>6, <2>9, <2>11, <2>14, UsesByShift
  <2> USE DEF e, u
  <2> QED BY <2>15, Zenon
<1> QED BY <1>1, <1>12, <1>13 DEF Rearranged

LEMMA CarryItemRearranges ==
    ASSUME NEW d, Sound(d), NEW from, NEW to, NEW id \in Identifiers, NEW index \in Nat,
           from.scene \in Scenes(d), from.path \in DOMAIN d.scenes[from.scene],
           from.path # <<>>,
           to.scene \in Scenes(d), to.path \in Groups(d.scenes[to.scene])
    PROVE  Rearranged(d, CarryItem(d, from, to, id, index).doc)
<1> DEFINE r == CarryItem(d, from, to, id, index)
           item == ItemAt(d.scenes[from.scene], from.path)
           room == d.scenes[to.scene][to.path].kids
           home == from.scene = to.scene
           refused == \/ Contains(room, id)
                      \/ index > Len(room)
                      \/ home /\ IsPrefix(from.path, to.path)
                      \/ ~home /\ ~ItemIsValid(d, to.scene, item, Len(to.path))
<1>1. CASE home /\ Front(from.path) = to.path
  <2>1. CASE index >= Len(room)
    <3>1. r = Refused(d)
      BY <1>1, <2>1 DEF CarryItem
    <3> QED BY <3>1, Answers, NothingRearranged
  <2>2. CASE ~(index >= Len(room))
    <3> DEFINE u == MovedWithin(d.scenes[from.scene], from.path, index)
    <3>1. r = Accepted(WithScene(d, from.scene, u))
      BY <1>1, <2>2 DEF CarryItem, InOwner
    <3>2. ~(index >= Len(d.scenes[from.scene][Front(from.path)].kids))
      BY <1>1, <2>2
    <3>3. Rearranged(d, WithScene(d, from.scene, u))
      BY <3>2, ItemMovedWithin
    <3> HIDE DEF u
    <3> QED BY <3>1, <3>3, Answers
  <2> QED BY <2>1, <2>2
<1>2. CASE ~(home /\ Front(from.path) = to.path) /\ refused
  <2>1. r = Refused(d)
    BY <1>2 DEF CarryItem
  <2> QED BY <2>1, Answers, NothingRearranged
<1>3. CASE ~(home /\ Front(from.path) = to.path) /\ ~refused
  <2>1. r = Accepted(Carried(d, from, to, id, index))
    BY <1>3, Zenon DEF CarryItem
  <2>2. Rearranged(d, Carried(d, from, to, id, index))
    BY <1>3, ItemCarried
  <2> QED BY <2>1, <2>2, Answers
<1> QED BY <1>1, <1>2, <1>3

LEMMA MoveItemToParentRearranges ==
    ASSUME NEW d, Sound(d), NEW s \in Scenes(d), NEW target \in Path, target # <<>>,
           NEW destination \in Path, NEW index \in Nat
    PROVE  Rearranged(d, MoveItemToParent(d, s, target, destination, index).doc)
<1> DEFINE from == Resolve(d, s, target)
           to == ResolveParent(d, s, destination)
           refused == \/ Len(destination) > MaxDepth
                      \/ ~from.ok \/ from.locked
                      \/ ~to.ok \/ to.locked
                      \/ IsPrefix(target, destination)
                      \/ d.scenes[from.scene][from.path].locked
           r == MoveItemToParent(d, s, target, destination, index)
<1>1. CASE refused
  <2>1. r = Refused(d)
    BY <1>1, Zenon DEF MoveItemToParent
  <2> QED BY <2>1, Answers, NothingRearranged
<1>2. CASE ~refused
  <2>1. r = CarryItem(d, from, to, Last(target), index)
    BY <1>2, Zenon DEF MoveItemToParent
  <2>2. /\ from.scene \in Scenes(d) /\ from.path \in DOMAIN d.scenes[from.scene]
        /\ from.path # <<>>
    BY <1>2, TargetFound
  <2>3. to.scene \in Scenes(d) /\ to.path \in Groups(d.scenes[to.scene])
    BY ParentFound
  <2>4. Last(target) \in Identifiers
    BY PathSplits
  <2> HIDE DEF from, to
  <2> QED BY <2>1, <2>2, <2>3, <2>4, CarryItemRearranges
<1> QED BY <1>1, <1>2

-----------------------------------------------------------------------------
(* Refusals *)

Unheard(d, r) == ~r.ok => r.doc = d

(* A refused command leaves the profile as it was; the two that copy sources
   before they may still refuse are PasteItem and DuplicateScene, above. *)
LEMMA RefusalsAlone ==
    ASSUME NEW d
    PROVE  /\ \A s, t : Unheard(d, AddScene(d, s, t))
           /\ \A s : Unheard(d, RemoveScene(d, s))
           /\ \A s, i : Unheard(d, MoveScene(d, s, i))
           /\ \A s, c : Unheard(d, AddSource(d, s, c))
           /\ \A s, id, item : Unheard(d, AddSceneItem(d, s, id, item))
           /\ \A c : Unheard(d, DuplicateSource(d, c))
           /\ \A c : Unheard(d, RemoveSource(d, c))
           /\ \A c, f : Unheard(d, AddSourceFilter(d, c, f))
           /\ \A c, f : Unheard(d, RemoveSourceFilter(d, c, f))
           /\ \A c, f, i : Unheard(d, MoveSourceFilter(d, c, f, i))
<1>1. \A e : Accepted(e).ok = TRUE /\ Refused(d).doc = d
  BY Answers
<1>2. \A r, e : r = Accepted(e) \/ r = Refused(d) => Unheard(d, r)
  BY <1>1 DEF Unheard
<1>3. \A s, t : Unheard(d, AddScene(d, s, t))
  BY <1>2 DEF AddScene
<1>4. \A s : Unheard(d, RemoveScene(d, s))
  BY <1>2 DEF RemoveScene
<1>5. \A s, i : Unheard(d, MoveScene(d, s, i))
  BY <1>2 DEF MoveScene
<1>6. \A s, c : Unheard(d, AddSource(d, s, c))
  BY <1>2 DEF AddSource
<1>7. \A s, id, item : Unheard(d, AddSceneItem(d, s, id, item))
  BY <1>2 DEF AddSceneItem
<1>8. \A c : Unheard(d, DuplicateSource(d, c))
  BY <1>2 DEF DuplicateSource
<1>9. \A c : Unheard(d, RemoveSource(d, c))
  BY <1>2 DEF RemoveSource
<1>10. \A c, f : Unheard(d, AddSourceFilter(d, c, f))
  BY <1>2 DEF AddSourceFilter
<1>11. \A c, f : Unheard(d, RemoveSourceFilter(d, c, f))
  BY <1>2 DEF RemoveSourceFilter
<1>12. \A c, f, i : Unheard(d, MoveSourceFilter(d, c, f, i))
  BY <1>2 DEF MoveSourceFilter
<1> QED BY <1>3, <1>4, <1>5, <1>6, <1>7, <1>8, <1>9, <1>10, <1>11, <1>12

LEMMA ItemRefusalsAlone ==
    ASSUME NEW d
    PROVE  /\ \A s, target : Unheard(d, RemoveItem(d, s, target))
           /\ \A s, paths : Unheard(d, RemoveItems(d, s, paths))
           /\ \A s, target, b : Unheard(d, SetItemLocked(d, s, target, b))
           /\ \A s, target, i : Unheard(d, MoveItem(d, s, target, i))
           /\ \A s, paths, g : Unheard(d, GroupItems(d, s, paths, g))
           /\ \A s, target : Unheard(d, UngroupItem(d, s, target))
           /\ \A s, target, to, i : Unheard(d, MoveItemToParent(d, s, target, to, i))
<1>1. \A e : Accepted(e).ok = TRUE /\ Refused(d).doc = d
  BY Answers
<1>2. \A r, e : r = Accepted(e) \/ r = Refused(d) => Unheard(d, r)
  BY <1>1 DEF Unheard
<1>3. \A s, target : Unheard(d, RemoveItem(d, s, target))
  BY <1>2 DEF RemoveItem, InOwner
<1>4. \A s, paths : Unheard(d, RemoveItems(d, s, paths))
  BY <1>2 DEF RemoveItems
<1>5. \A s, target, b : Unheard(d, SetItemLocked(d, s, target, b))
  BY <1>2 DEF SetItemLocked, InOwner
<1>6. \A s, target, i : Unheard(d, MoveItem(d, s, target, i))
  BY <1>2 DEF MoveItem, InOwner
<1>7. \A s, paths, g : Unheard(d, GroupItems(d, s, paths, g))
  BY <1>2 DEF GroupItems, InOwner
<1>8. \A s, target : Unheard(d, UngroupItem(d, s, target))
  BY <1>2 DEF UngroupItem, InOwner
<1>9. \A from, to, id, i : Unheard(d, CarryItem(d, from, to, id, i))
  BY <1>2 DEF CarryItem, InOwner
<1>10. \A s, target, to, i : Unheard(d, MoveItemToParent(d, s, target, to, i))
  BY <1>2, <1>9 DEF MoveItemToParent
<1> QED BY <1>3, <1>4, <1>5, <1>6, <1>7, <1>8, <1>10

-----------------------------------------------------------------------------
(* The document under every command *)

(* One command, accepted or refused. *)
LEMMA CommandDone ==
    ASSUME NEW kind \in {"edited", "rearranged"}, NEW r, Do(kind, r),
           Sound(r.doc), Unheard(doc, r)
    PROVE  Sound(doc') /\ (outcome' = "refused" => doc' = doc)
  BY DEF Do, Unheard

LEMMA RearrangingDone ==
    ASSUME NEW r, Do("rearranged", r), Rearranged(doc, r.doc), Unheard(doc, r)
    PROVE  Rearranged(doc, doc') /\ (outcome' = "refused" => doc' = doc)
  BY DEF Do, Unheard

(* The order of the scenes is not part of what is counted. *)
LEMMA MoveSceneRearranges ==
    ASSUME NEW d, Sound(d), NEW s \in Scenes(d), NEW index \in Nat
    PROVE  Rearranged(d, MoveScene(d, s, index).doc)
<1> DEFINE e == MoveScene(d, s, index).doc
<1>1. Sound(e)
  BY MoveSceneIsSound
<1>2. e.scenes = d.scenes
  <2> DEFINE order == Moved(d.order, s, index)
  <2>1. [d EXCEPT !.order = order].scenes = d.scenes
    <3> HIDE DEF order
    <3> QED BY DEF Sound, IsProfile
  <2>2. \/ MoveScene(d, s, index) = Refused(d)
        \/ MoveScene(d, s, index) = Accepted([d EXCEPT !.order = order])
    BY DEF MoveScene
  <2> HIDE DEF order
  <2>3. e = d \/ e = [d EXCEPT !.order = order]
    BY <2>2, Answers
  <2> QED BY <2>1, <2>3
<1> HIDE DEF e
<1>3. \A x, p : IsSlot(e, x, p) <=> IsSlot(d, x, p)
  BY <1>2 DEF IsSlot, Scenes
<1> DEFINE V == {}
<1>4. V \in SUBSET Path /\ <<>> \in Path
  BY EmptyIsPath
<1>5. Shifted(d, e, s, s, <<>>, <<>>, V)
  BY <1>2, <1>3 DEF Shifted
<1> HIDE DEF V
<1>6. Uses(e) = Uses(d)
  BY <1>4, <1>5, UsesByShift
<1> QED BY <1>1, <1>6 DEF Rearranged, e

LEMMA SceneCommandDone ==
    ASSUME Sound(doc), AddsScene \/ RemovesScene \/ DuplicatesScene
    PROVE  Sound(doc') /\ (outcome' = "refused" => doc' = doc)
<1>1. CASE AddsScene
  <2>1. PICK s \in NewScenes : Do("edited", AddScene(doc, s, EmptyScene))
    BY <1>1 DEF AddsScene
  <2>2. s \in Identifiers
    BY IdentifiersAssumption
  <2>3. Sound(AddScene(doc, s, EmptyScene).doc) /\ Unheard(doc, AddScene(doc, s, EmptyScene))
    BY <2>2, AddSceneIsSound, RefusalsAlone
  <2> QED BY <2>1, <2>3, CommandDone
<1>2. CASE RemovesScene
  <2>1. PICK s \in Scenes(doc) : Do("edited", RemoveScene(doc, s))
    BY <1>2 DEF RemovesScene
  <2>2. Sound(RemoveScene(doc, s).doc) /\ Unheard(doc, RemoveScene(doc, s))
    BY RemoveSceneIsSound, RefusalsAlone
  <2> QED BY <2>1, <2>2, CommandDone
<1>3. CASE DuplicatesScene
  <2>1. PICK s \in Scenes(doc), mode \in Modes : Do("edited", DuplicateScene(doc, s, mode))
    BY <1>3 DEF DuplicatesScene
  <2>2. Sound(DuplicateScene(doc, s, mode).doc) /\ Unheard(doc, DuplicateScene(doc, s, mode))
    BY DuplicateSceneIsSound DEF Unheard
  <2> QED BY <2>1, <2>2, CommandDone
<1> QED BY <1>1, <1>2, <1>3

LEMMA SourceCommandDone ==
    ASSUME Sound(doc),
           AddsSource \/ AddsSourceItem \/ AddsSceneItem \/ DuplicatesSource
              \/ RemovesSource \/ EditsFilters
    PROVE  Sound(doc') /\ (outcome' = "refused" => doc' = doc)
<1>1. CASE AddsSource
  <2>1. PICK s \in Scenes(doc), c \in NewSources : Do("edited", AddSource(doc, s, c))
    BY <1>1 DEF AddsSource
  <2>2. c \in Identifiers
    BY IdentifiersAssumption
  <2>3. Sound(AddSource(doc, s, c).doc) /\ Unheard(doc, AddSource(doc, s, c))
    BY <2>2, AddSourceIsSound, RefusalsAlone
  <2> QED BY <2>1, <2>3, CommandDone
<1>2. CASE AddsSourceItem
  <2>1. PICK s \in Scenes(doc), c \in NewSources :
             Do("edited", AddSceneItem(doc, s, c, SourceItem(c)))
    BY <1>2 DEF AddsSourceItem
  <2>2. c \in Identifiers /\ "source" \in Kinds
    BY IdentifiersAssumption DEF Kinds
  <2>3. Good(SourceItem(c))
    BY <2>2, LeafFacts DEF SourceItem
  <2>4. /\ Sound(AddSceneItem(doc, s, c, SourceItem(c)).doc)
        /\ Unheard(doc, AddSceneItem(doc, s, c, SourceItem(c)))
    BY <2>2, <2>3, AddSceneItemIsSound, RefusalsAlone
  <2> QED BY <2>1, <2>4, CommandDone
<1>3. CASE AddsSceneItem
  <2>1. PICK s \in Scenes(doc), c \in Scenes(doc) :
             Do("edited", AddSceneItem(doc, s, c, SceneItem(c)))
    BY <1>3 DEF AddsSceneItem
  <2>2. c \in Identifiers /\ "scene" \in Kinds
    BY SceneFacts DEF Kinds
  <2>3. Good(SceneItem(c))
    BY <2>2, LeafFacts DEF SceneItem
  <2>4. /\ Sound(AddSceneItem(doc, s, c, SceneItem(c)).doc)
        /\ Unheard(doc, AddSceneItem(doc, s, c, SceneItem(c)))
    BY <2>2, <2>3, AddSceneItemIsSound, RefusalsAlone
  <2> QED BY <2>1, <2>4, CommandDone
<1>4. CASE DuplicatesSource
  <2>1. PICK c \in DOMAIN doc.sources : Do("edited", DuplicateSource(doc, c))
    BY <1>4 DEF DuplicatesSource
  <2>2. Sound(DuplicateSource(doc, c).doc) /\ Unheard(doc, DuplicateSource(doc, c))
    BY DuplicateSourceIsSound, RefusalsAlone
  <2> QED BY <2>1, <2>2, CommandDone
<1>5. CASE RemovesSource
  <2>1. PICK c \in DOMAIN doc.sources : Do("edited", RemoveSource(doc, c))
    BY <1>5 DEF RemovesSource
  <2>2. Sound(RemoveSource(doc, c).doc) /\ Unheard(doc, RemoveSource(doc, c))
    BY RemoveSourceIsSound, RefusalsAlone
  <2> QED BY <2>1, <2>2, CommandDone
<1>6. CASE EditsFilters
  <2>1. PICK c \in DOMAIN doc.sources, f \in Filters :
             \/ Do("edited", AddSourceFilter(doc, c, f))
             \/ Do("edited", RemoveSourceFilter(doc, c, f))
             \/ \E i \in 0..MaxIndex : Do("edited", MoveSourceFilter(doc, c, f, i))
    BY <1>6 DEF EditsFilters
  <2>2. CASE Do("edited", AddSourceFilter(doc, c, f))
    <3>1. Sound(AddSourceFilter(doc, c, f).doc) /\ Unheard(doc, AddSourceFilter(doc, c, f))
      BY AddFilterIsSound, RefusalsAlone
    <3> QED BY <2>2, <3>1, CommandDone
  <2>3. CASE Do("edited", RemoveSourceFilter(doc, c, f))
    <3>1. /\ Sound(RemoveSourceFilter(doc, c, f).doc)
          /\ Unheard(doc, RemoveSourceFilter(doc, c, f))
      BY RemoveFilterIsSound, RefusalsAlone
    <3> QED BY <2>3, <3>1, CommandDone
  <2>4. CASE \E i \in 0..MaxIndex : Do("edited", MoveSourceFilter(doc, c, f, i))
    <3>1. PICK i \in 0..MaxIndex : Do("edited", MoveSourceFilter(doc, c, f, i))
      BY <2>4
    <3>2. i \in Nat
      OBVIOUS
    <3>3. /\ Sound(MoveSourceFilter(doc, c, f, i).doc)
          /\ Unheard(doc, MoveSourceFilter(doc, c, f, i))
      BY <3>2, MoveFilterIsSound, RefusalsAlone
    <3> QED BY <3>1, <3>3, CommandDone
  <2> QED BY <2>1, <2>2, <2>3, <2>4
<1> QED BY <1>1, <1>2, <1>3, <1>4, <1>5, <1>6

LEMMA ItemCommandDone ==
    ASSUME Sound(doc),
           PastesItem \/ RemovesItem \/ RemovesItems \/ DuplicatesItem \/ LocksItem
    PROVE  Sound(doc') /\ (outcome' = "refused" => doc' = doc)
<1>1. CASE PastesItem
  <2>1. PICK d \in Clipped, to \in Scenes(doc), mode \in Modes :
           \E from \in Scenes(d) :
             \E p \in ItemPaths(d.scenes[from]), parent \in Groups(doc.scenes[to]) :
               Do("edited", PasteItem(doc, to, parent, Last(p), Copied(d, from, p), mode))
    BY <1>1, Zenon DEF PastesItem
  <2>2. PICK from \in Scenes(d) :
           \E p \in ItemPaths(d.scenes[from]), parent \in Groups(doc.scenes[to]) :
             Do("edited", PasteItem(doc, to, parent, Last(p), Copied(d, from, p), mode))
    BY <2>1, Zenon
  <2>3. PICK p \in ItemPaths(d.scenes[from]), parent \in Groups(doc.scenes[to]) :
             Do("edited", PasteItem(doc, to, parent, Last(p), Copied(d, from, p), mode))
    BY <2>2, Zenon
  <2>4. Sound(d)
    <3>1. CASE d = doc
      BY <3>1
    <3>2. CASE d \in Documents
      <4>1. IsProfile(d) /\ Parses(d)
        BY <3>2, DocumentsAssumption
      <4> QED BY <4>1, SoundParses
    <3> QED BY <3>1, <3>2 DEF Clipped
  <2>5. p \in DOMAIN d.scenes[from] /\ p # <<>>
    BY DEF ItemPaths
  <2> DEFINE item == Copied(d, from, p)
             id == Last(p)
  <2>6. Good(item) /\ id \in Identifiers
    BY <2>5, <2>4, ItemFacts, PlaceOfItem DEF Copied
  <2> HIDE DEF item, id
  <2> DEFINE r == PasteItem(doc, to, parent, id, item, mode)
  <2>7. Sound(r.doc) /\ Unheard(doc, r)
    BY <2>6, PasteItemIsSound DEF Unheard
  <2>8. Do("edited", r)
    BY <2>3 DEF item, id
  <2> HIDE DEF r
  <2> QED BY <2>7, <2>8, CommandDone
<1>2. CASE RemovesItem
  <2>1. PICK s \in Scenes(doc) : \E p \in Targets(doc, s) : Do("edited", RemoveItem(doc, s, p))
    BY <1>2 DEF RemovesItem
  <2>2. PICK p \in Targets(doc, s) : Do("edited", RemoveItem(doc, s, p))
    BY <2>1
  <2>3. Sound(RemoveItem(doc, s, p).doc) /\ Unheard(doc, RemoveItem(doc, s, p))
    BY TargetsArePaths, RemoveItemIsSound, ItemRefusalsAlone
  <2> QED BY <2>2, <2>3, CommandDone
<1>3. CASE RemovesItems
  <2>1. PICK s \in Scenes(doc) :
           \E ps \in Selections(ItemPaths(doc.scenes[s])) : Do("edited", RemoveItems(doc, s, ps))
    BY <1>3 DEF RemovesItems
  <2>2. PICK ps \in Selections(ItemPaths(doc.scenes[s])) : Do("edited", RemoveItems(doc, s, ps))
    BY <2>1
  <2>3. Sound(RemoveItems(doc, s, ps).doc) /\ Unheard(doc, RemoveItems(doc, s, ps))
    BY RemoveItemsIsSound, ItemRefusalsAlone
  <2> QED BY <2>2, <2>3, CommandDone
<1>4. CASE DuplicatesItem
  <2>1. PICK s \in Scenes(doc), mode \in Modes :
           \E p \in Targets(doc, s) : Do("edited", DuplicateItem(doc, s, p, mode))
    BY <1>4 DEF DuplicatesItem
  <2>2. PICK p \in Targets(doc, s) : Do("edited", DuplicateItem(doc, s, p, mode))
    BY <2>1
  <2>3. Sound(DuplicateItem(doc, s, p, mode).doc) /\ Unheard(doc, DuplicateItem(doc, s, p, mode))
    BY TargetsArePaths, DuplicateItemIsSound DEF Unheard
  <2> QED BY <2>2, <2>3, CommandDone
<1>5. CASE LocksItem
  <2>1. PICK s \in Scenes(doc), locked \in BOOLEAN :
           \E p \in Targets(doc, s) : Do("edited", SetItemLocked(doc, s, p, locked))
    BY <1>5 DEF LocksItem
  <2>2. PICK p \in Targets(doc, s) : Do("edited", SetItemLocked(doc, s, p, locked))
    BY <2>1
  <2>3. /\ Sound(SetItemLocked(doc, s, p, locked).doc)
        /\ Unheard(doc, SetItemLocked(doc, s, p, locked))
    BY TargetsArePaths, SetItemLockedIsSound, ItemRefusalsAlone
  <2> QED BY <2>2, <2>3, CommandDone
<1> QED BY <1>1, <1>2, <1>3, <1>4, <1>5

LEMMA SelectedAreTargets ==
    ASSUME NEW S, NEW ps \in Selections(S)
    PROVE  ps \subseteq S
  BY DEF Selections, kSubset

LEMMA ArrangingCommandDone ==
    ASSUME Sound(doc),
           MovesScene \/ GroupsItems \/ UngroupsItem \/ MovesItem \/ MovesItemToParent
    PROVE  Rearranged(doc, doc') /\ (outcome' = "refused" => doc' = doc)
<1>1. CASE GroupsItems
  <2>1. PICK s \in Scenes(doc), g \in NewGroups :
           \E ps \in Selections(Targets(doc, s)) : Do("rearranged", GroupItems(doc, s, ps, g))
    BY <1>1 DEF GroupsItems
  <2>2. PICK ps \in Selections(Targets(doc, s)) : Do("rearranged", GroupItems(doc, s, ps, g))
    BY <2>1
  <2>3. \A p \in ps : p \in Path /\ p # <<>>
    BY SelectedAreTargets, TargetsArePaths
  <2>4. g \in Identifiers
    BY IdentifiersAssumption
  <2>5. Rearranged(doc, GroupItems(doc, s, ps, g).doc) /\ Unheard(doc, GroupItems(doc, s, ps, g))
    BY <2>3, <2>4, GroupItemsRearranges, ItemRefusalsAlone
  <2> QED BY <2>2, <2>5, RearrangingDone
<1>2. CASE UngroupsItem
  <2>1. PICK s \in Scenes(doc) : \E p \in Targets(doc, s) : Do("rearranged", UngroupItem(doc, s, p))
    BY <1>2 DEF UngroupsItem
  <2>2. PICK p \in Targets(doc, s) : Do("rearranged", UngroupItem(doc, s, p))
    BY <2>1
  <2>3. Rearranged(doc, UngroupItem(doc, s, p).doc) /\ Unheard(doc, UngroupItem(doc, s, p))
    BY TargetsArePaths, UngroupItemRearranges, ItemRefusalsAlone
  <2> QED BY <2>2, <2>3, RearrangingDone
<1>3. CASE MovesItem
  <2>1. PICK s \in Scenes(doc), i \in 0..MaxIndex :
           \E p \in Targets(doc, s) : Do("rearranged", MoveItem(doc, s, p, i))
    BY <1>3 DEF MovesItem
  <2>2. PICK p \in Targets(doc, s) : Do("rearranged", MoveItem(doc, s, p, i))
    BY <2>1
  <2>3. i \in Nat
    OBVIOUS
  <2>4. Rearranged(doc, MoveItem(doc, s, p, i).doc) /\ Unheard(doc, MoveItem(doc, s, p, i))
    BY <2>3, TargetsArePaths, MoveItemRearranges, ItemRefusalsAlone
  <2> QED BY <2>2, <2>4, RearrangingDone
<1>4. CASE MovesItemToParent
  <2>1. PICK s \in Scenes(doc), i \in 0..MaxIndex :
           \E p \in Targets(doc, s), to \in Places(doc, s) :
              Do("rearranged", MoveItemToParent(doc, s, p, to, i))
    BY <1>4 DEF MovesItemToParent
  <2>2. PICK p \in Targets(doc, s), to \in Places(doc, s) :
              Do("rearranged", MoveItemToParent(doc, s, p, to, i))
    BY <2>1
  <2>3. i \in Nat
    OBVIOUS
  <2>4. to \in Path
    <3>1. to \in Targets(doc, s) \/ to = <<>>
      BY DEF Places
    <3> QED BY <3>1, TargetsArePaths, EmptyIsPath
  <2>5. /\ Rearranged(doc, MoveItemToParent(doc, s, p, to, i).doc)
        /\ Unheard(doc, MoveItemToParent(doc, s, p, to, i))
    BY <2>3, <2>4, TargetsArePaths, MoveItemToParentRearranges, ItemRefusalsAlone
  <2> QED BY <2>2, <2>5, RearrangingDone
<1>5. CASE MovesScene
  <2>1. PICK s \in Scenes(doc), i \in 0..MaxIndex : Do("rearranged", MoveScene(doc, s, i))
    BY <1>5 DEF MovesScene
  <2>2. i \in Nat
    OBVIOUS
  <2>3. Rearranged(doc, MoveScene(doc, s, i).doc) /\ Unheard(doc, MoveScene(doc, s, i))
    BY <2>2, MoveSceneRearranges, RefusalsAlone
  <2> QED BY <2>1, <2>3, RearrangingDone
<1> QED BY <1>1, <1>2, <1>3, <1>4, <1>5

ChangesItems ==
    \/ AddsScene \/ RemovesScene \/ DuplicatesScene
    \/ AddsSource \/ AddsSourceItem \/ AddsSceneItem \/ DuplicatesSource
    \/ RemovesSource \/ EditsFilters
    \/ PastesItem \/ RemovesItem \/ RemovesItems \/ DuplicatesItem \/ LocksItem

RearrangesItems ==
    MovesScene \/ GroupsItems \/ UngroupsItem \/ MovesItem \/ MovesItemToParent

LEMMA EveryCommand == EditNext <=> ChangesItems \/ RearrangesItems
  BY DEF EditNext, ChangesItems, RearrangesItems

(* The other commands do not say of themselves that they rearrange. *)
LEMMA EditedIsNotRearranged ==
    ASSUME ChangesItems
    PROVE  outcome' # "rearranged"
<1>1. \A r : Do("edited", r) => outcome' # "rearranged"
  BY DEF Do
<1> HIDE DEF Do
<1>2. AddsScene \/ RemovesScene \/ DuplicatesScene => outcome' # "rearranged"
  BY <1>1 DEF AddsScene, RemovesScene, DuplicatesScene
<1>3. AddsSource \/ AddsSourceItem \/ AddsSceneItem => outcome' # "rearranged"
  BY <1>1 DEF AddsSource, AddsSourceItem, AddsSceneItem
<1>4. DuplicatesSource \/ RemovesSource \/ EditsFilters => outcome' # "rearranged"
  BY <1>1 DEF DuplicatesSource, RemovesSource, EditsFilters
<1>5. PastesItem => outcome' # "rearranged"
  BY <1>1, Zenon DEF PastesItem
<1>6. RemovesItem \/ RemovesItems \/ DuplicatesItem \/ LocksItem => outcome' # "rearranged"
  BY <1>1 DEF RemovesItem, RemovesItems, DuplicatesItem, LocksItem
<1> QED BY <1>2, <1>3, <1>4, <1>5, <1>6 DEF ChangesItems

LEMMA EditDone ==
    ASSUME Sound(doc), EditNext
    PROVE  /\ Sound(doc')
           /\ outcome' = "refused" => doc' = doc
           /\ outcome' = "rearranged" => Uses(doc') = Uses(doc)
<1>1. CASE ChangesItems
  <2>1. Sound(doc') /\ (outcome' = "refused" => doc' = doc)
    BY <1>1, SceneCommandDone, SourceCommandDone, ItemCommandDone DEF ChangesItems
  <2> QED BY <1>1, <2>1, EditedIsNotRearranged
<1>2. CASE RearrangesItems
  BY <1>2, ArrangingCommandDone DEF RearrangesItems, Rearranged
<1> QED BY <1>1, <1>2, EveryCommand

(* The inductive invariant is the property itself with the types of a profile:
   every command keeps every part of it. *)
DocumentInv == IsProfile(doc) /\ Parses(doc)

LEMMA DocumentHolds == EditSpec => []DocumentInv
<1>1. EditInit => DocumentInv
  BY DocumentsAssumption DEF EditInit, DocumentInv
<1>2. DocumentInv /\ [EditNext]_editVars => DocumentInv'
  <2>1. SUFFICES ASSUME DocumentInv, [EditNext]_editVars PROVE DocumentInv'
    OBVIOUS
  <2>2. Sound(doc)
    BY <2>1, SoundParses DEF DocumentInv
  <2>3. CASE EditNext
    <3>1. Sound(doc')
      BY <2>2, <2>3, EditDone
    <3>2. IsProfile(doc') /\ Parses(doc')
      BY <3>1, SoundParses
    <3> QED BY <3>2 DEF DocumentInv
  <2>4. CASE UNCHANGED editVars
    <3>1. doc' = doc
      BY <2>4 DEF editVars
    <3> QED BY <2>1, <3>1 DEF DocumentInv
  <2> QED BY <2>1, <2>3, <2>4
<1> QED BY <1>1, <1>2, PTL DEF EditSpec

(* After any commands, accepted or refused and in any order, the document can be
   read back: no identifier is twice in a list, in a filter chain or in the
   order, every reference is to something there, and no scene shows itself
   (Project::apply and Project::parse). *)
THEOREM DocumentAlwaysParses == EditSpec => []DocumentParses
<1>1. DocumentInv => DocumentParses
  BY DEF DocumentInv, DocumentParses
<1> QED BY <1>1, DocumentHolds, PTL

(* A command that is refused has changed nothing, the sources it copies before
   it may still refuse included (Project::apply). *)
THEOREM RefusalsChangeNothing == EditSpec => RefusedChangesNothing
<1>1. ASSUME DocumentInv, [EditNext]_editVars
      PROVE  [outcome' = "refused" => UNCHANGED doc]_editVars
  <2>1. CASE EditNext
    <3>1. Sound(doc)
      BY <1>1, SoundParses DEF DocumentInv
    <3> QED BY <2>1, <3>1, EditDone
  <2>2. CASE UNCHANGED editVars
    BY <2>2
  <2> QED BY <1>1, <2>1, <2>2
<1> QED BY <1>1, DocumentHolds, PTL DEF EditSpec, RefusedChangesNothing

(* Moving, ordering, grouping and ungrouping, across groups and scenes, neither
   lose an item that is no group nor make one: each is in the document as often
   as before, as it was (Project::move_item_to_parent, group_items,
   ungroup_item and their like). *)
THEOREM RearrangingLosesNothing == EditSpec => RearrangingConserves
<1>1. ASSUME DocumentInv, [EditNext]_editVars
      PROVE  [outcome' = "rearranged" => Uses(doc') = Uses(doc)]_editVars
  <2>1. CASE EditNext
    <3>1. Sound(doc)
      BY <1>1, SoundParses DEF DocumentInv
    <3> QED BY <2>1, <3>1, EditDone
  <2>2. CASE UNCHANGED editVars
    BY <2>2
  <2> QED BY <1>1, <2>1, <2>2
<1> QED BY <1>1, DocumentHolds, PTL DEF EditSpec, RearrangingConserves
LEMMA SoundIsUndone ==
    ASSUME Sound(doc)
    PROVE  GroupingIsUndone
<1>1. ASSUME NEW s \in Scenes(doc), NEW g \in NewGroups,
             NEW parent \in Groups(doc.scenes[s]),
             NEW ps \in Runs(doc.scenes[s], parent),
             GroupItems(doc, s, ps, g).ok
      PROVE  UngroupItem(GroupItems(doc, s, ps, g).doc, s, Append(parent, g)) = Accepted(doc)
  <2>1. g \in Identifiers
    BY IdentifiersAssumption
  <2>2. GroupItems(doc, s, ps, g).ok = TRUE
    <3>1. \E e : \/ GroupItems(doc, s, ps, g) = Accepted(e)
                 \/ GroupItems(doc, s, ps, g) = Refused(doc)
      BY Zenon DEF GroupItems, InOwner
    <3> QED BY <1>1, <3>1, Answers
  <2> QED BY <2>1, <2>2, RunIsUndone
<1> QED BY <1>1, Zenon DEF GroupingIsUndone

(* Ungrouping is the inverse of grouping, whatever was done before: neighbours
   that may be put in a group and are taken out again are where they were, in
   the same order and with what was below them (Project::group_scene_items and
   Project::ungroup_scene_item). *)
THEOREM GroupingIsAlwaysUndone == EditSpec => []GroupingIsUndone
<1>1. DocumentInv => GroupingIsUndone
  BY SoundParses, SoundIsUndone DEF DocumentInv
<1> QED BY <1>1, DocumentHolds, PTL
=============================================================================
