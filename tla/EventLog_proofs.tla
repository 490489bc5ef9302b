--------------------------- MODULE EventLog_proofs ---------------------------
(***************************************************************************)
(* Proofs about the event log, for any number of engines, rows and         *)
(* failures.                                                               *)
(***************************************************************************)
EXTENDS EventLog, FiniteSetTheorems, TLAPS

\* The place of a row grows with the row and never exceeds the size of the selection.
LEMMA PlaceFacts ==
    ASSUME NEW n \in Nat, NEW S \in SUBSET (1..n)
    PROVE  /\ IsFiniteSet(S) /\ Cardinality(S) \in Nat
           /\ \A i \in S : Place(i, S) \in 1..Cardinality(S)
           /\ \A i, j \in S : i < j => Place(i, S) < Place(j, S)
<1>1. IsFiniteSet(S)
  BY FS_Interval, FS_Subset, 1 \in Int, n \in Int
<1>2. ASSUME NEW i PROVE /\ IsFiniteSet({j \in S : j <= i})
                         /\ Place(i, S) \in Nat /\ Place(i, S) <= Cardinality(S)
  <2>1. {j \in S : j <= i} \subseteq S
    OBVIOUS
  <2> QED BY <1>1, <2>1, FS_Subset, FS_CardinalityType DEF Place
<1>3. ASSUME NEW i \in S PROVE Place(i, S) > 0
  <2> DEFINE A == {j \in S : j <= i}
  <2>1. i \in A
    BY i \in Int
  <2>2. IsFiniteSet(A) /\ Cardinality(A) \in Nat
    BY <1>2, FS_CardinalityType
  <2>3. Cardinality(A) # 0
    BY <2>1, <2>2, FS_EmptySet
  <2> QED BY <2>2, <2>3 DEF Place
<1>4. ASSUME NEW i \in S, NEW j \in S, i < j PROVE Place(i, S) < Place(j, S)
  <2> DEFINE A == {k \in S : k <= i}
             B == {k \in S : k <= j}
  <2>0. i \in Int /\ j \in Int /\ \A k \in S : k \in Int
    OBVIOUS
  <2>1. A \subseteq B /\ j \in B /\ j \notin A
    <3>1. \A k \in S : k <= i => k <= j
      BY <1>4, <2>0
    <3>2. j <= j /\ ~(j <= i)
      BY <1>4, <2>0
    <3> QED BY <3>1, <3>2, Zenon
  <2>2. IsFiniteSet(B)
    BY <1>2
  <2>3. Cardinality(A) <= Cardinality(B) /\ (Cardinality(A) = Cardinality(B) => A = B)
    BY <2>1, <2>2, FS_Subset
  <2>4. Cardinality(A) \in Nat /\ Cardinality(B) \in Nat
    BY <1>2, FS_CardinalityType
  <2> HIDE DEF A, B
  <2>5. Cardinality(A) < Cardinality(B)
    BY <2>1, <2>3, <2>4
  <2> QED BY <2>5 DEF Place, A, B
<1>5. Cardinality(S) \in Nat
  BY <1>1, FS_CardinalityType
<1>6. ASSUME NEW i \in S PROVE Place(i, S) \in 1..Cardinality(S)
  <2>1. Place(i, S) \in Nat /\ Place(i, S) <= Cardinality(S)
    BY <1>2
  <2>2. Place(i, S) > 0
    BY <1>3
  <2> QED BY <1>5, <2>1, <2>2
<1> QED BY <1>1, <1>4, <1>5, <1>6

\* What one engine selects: pending rows, and with a row every older pending one.
LEMMA FirstPendingFacts ==
    ASSUME rows \in Nat, pending \subseteq 1..rows
    PROVE  /\ FirstPending \subseteq pending
           /\ \A i \in FirstPending, j \in pending : j < i => j \in FirstPending
<1>1. /\ Cardinality(pending) \in Nat
      /\ \A i \in pending : Place(i, pending) \in 1..Cardinality(pending)
      /\ \A i, j \in pending : i < j => Place(i, pending) < Place(j, pending)
  BY PlaceFacts
<1>2. ASSUME NEW i \in FirstPending, NEW j \in pending, j < i PROVE j \in FirstPending
  <2>1. i \in pending /\ Place(i, pending) <= Limit
    BY DEF FirstPending
  <2>2. Place(j, pending) < Place(i, pending)
    BY <1>1, <1>2, <2>1
  <2> QED BY <1>1, <2>1, <2>2, LimitAssumption DEF FirstPending
<1> QED BY <1>2 DEF FirstPending

\* Every step keeps the tables within their types.
LEMMA TypeStep == TypeOK /\ [Next]_vars => TypeOK'
<1> SUFFICES ASSUME TypeOK, [Next]_vars PROVE TypeOK'
  OBVIOUS
<1>1. CASE InsertOutbox
  BY <1>1 DEF TypeOK, InsertOutbox
<1>2. ASSUME NEW d \in Engines, Select(d) PROVE TypeOK'
  BY <1>2, FirstPendingFacts DEF TypeOK, Select, Picks
<1>3. ASSUME NEW d \in Engines, Commit(d) PROVE TypeOK'
  <2> DEFINE S == picked[d]
  <2>1. S \in SUBSET (1..rows)
    BY DEF TypeOK
  <2>0. Cardinality(S) \in Nat /\ \A i \in S : Place(i, S) \in 1..Cardinality(S)
    BY <2>1, PlaceFacts DEF TypeOK
  <2>2. Cardinality(S) \in Nat /\ \A i \in S : Place(i, S) \in Nat
    BY <2>0
  <2>3. events' \subseteq Event
    <3>1. \A i \in Inserted(S) : [sequence |-> sequence + Place(i, S), row |-> i] \in Event
      BY <2>1, <2>2 DEF Inserted, Event, TypeOK
    <3> QED BY <1>3, <3>1 DEF Commit, TypeOK
  <2>4. sequence' \in Nat
    BY <1>3, <2>2 DEF Commit, TypeOK
  <2>5. pending' \subseteq 1..rows' /\ rows' \in Nat /\ failures' \in Nat
        /\ flushing' \subseteq Engines
    BY <1>3 DEF Commit, TypeOK, StillPending
  <2>6. picked' \in [Engines -> SUBSET (1..rows')]
    BY <1>3 DEF Commit, TypeOK
  <2> QED BY <2>3, <2>4, <2>5, <2>6 DEF TypeOK
<1>4. ASSUME NEW d \in Engines, Fail(d) PROVE TypeOK'
  BY <1>4 DEF TypeOK, Fail
<1>5. ASSUME NEW d \in Engines, FlushOutbox(d) PROVE TypeOK'
  BY <1>5 DEF TypeOK, FlushOutbox
<1>6. CASE UNCHANGED vars
  BY <1>6 DEF TypeOK, vars
<1> QED BY <1>1, <1>2, <1>3, <1>4, <1>5, <1>6 DEF Next

(***************************************************************************)
(* The tables stay within their types.                                     *)
(***************************************************************************)
THEOREM TypeCorrect == Spec => []TypeOK
<1>1. Init => TypeOK
  BY OldRowsAssumption DEF Init, TypeOK, Old, Event
<1> QED BY <1>1, TypeStep, PTL DEF Spec

-----------------------------------------------------------------------------

\* What a commit adds to the log: all of the engine's selection that was not there,
\* each event at a number of its own above every number in use.
LEMMA CommitFacts ==
    ASSUME TypeOK, LogInv, NEW d \in Engines, Commit(d)
    PROVE  /\ events \subseteq events'
           /\ \A f \in events' \ events :
                /\ f.row \in picked[d] /\ (f.row \in Old \/ f.row \notin Logged)
                /\ f.sequence = sequence + Place(f.row, picked[d])
                /\ f.sequence \in (sequence + 1)..sequence'
           /\ \A f, g \in events' \ events : f.row < g.row => f.sequence < g.sequence
           /\ \A f, g \in events' \ events : f.row = g.row => f = g
           /\ \A e \in events, f \in events' \ events : e.sequence < f.sequence
           /\ Logged' = Logged \cup picked[d]
<1> DEFINE S == picked[d]
           New == {[sequence |-> sequence + Place(i, S), row |-> i] : i \in Inserted(S)}
<1>1. S \in SUBSET (1..rows) /\ rows \in Nat /\ sequence \in Nat
  BY DEF TypeOK
<1>2. /\ Cardinality(S) \in Nat /\ \A i \in S : Place(i, S) \in 1..Cardinality(S)
      /\ \A i, j \in S : i < j => Place(i, S) < Place(j, S)
  BY <1>1, PlaceFacts
<1>3. events' = events \cup New /\ sequence' = sequence + Cardinality(S)
  BY DEF Commit
<1>4. Inserted(S) \subseteq S /\ \A i \in Inserted(S) : i \in Old \/ i \notin Logged
  BY DEF Inserted
<1>5. \A f \in New : /\ f.row \in Inserted(S)
                     /\ f = [sequence |-> sequence + Place(f.row, S), row |-> f.row]
  OBVIOUS
<1>6. \A f \in New : /\ f.row \in S /\ (f.row \in Old \/ f.row \notin Logged)
                     /\ f.sequence = sequence + Place(f.row, S)
                     /\ f.sequence \in (sequence + 1)..sequence'
  BY <1>1, <1>2, <1>3, <1>4, <1>5
<1>7. \A f, g \in New : (f.row < g.row => f.sequence < g.sequence) /\ (f.row = g.row => f = g)
  BY <1>1, <1>2, <1>5, <1>6
<1>8. \A e \in events, f \in New : e.sequence < f.sequence
  BY <1>1, <1>2, <1>3, <1>6 DEF LogInv
<1>9. Logged' = Logged \cup S
  <2>1. ASSUME NEW i \in S PROVE i \in Logged'
    <3>1. CASE i \in Inserted(S)
      <4>1. [sequence |-> sequence + Place(i, S), row |-> i] \in events'
        BY <1>3, <3>1
      <4> QED BY <4>1 DEF Logged
    <3>2. CASE i \notin Inserted(S)
      BY <1>3, <2>1, <3>2 DEF Logged, Inserted
    <3> QED BY <3>1, <3>2
  <2>2. Logged \subseteq Logged' /\ \A i \in Logged' : i \in Logged \cup S
    BY <1>3, <1>6 DEF Logged
  <2> QED BY <2>1, <2>2
<1> QED BY <1>3, <1>6, <1>7, <1>8, <1>9

\* Every step keeps the log a copy of the oldest rows.
LEMMA LogStep == TypeOK /\ LogInv /\ [Next]_vars => LogInv'
<1> SUFFICES ASSUME TypeOK, LogInv, [Next]_vars PROVE LogInv'
  OBVIOUS
<1> USE OldRowsAssumption
<1>1. CASE InsertOutbox
  <2>1. Logged' = Logged /\ rows \in Nat /\ (1..rows') \ pending' = (1..rows) \ pending
    BY <1>1 DEF InsertOutbox, Logged, TypeOK
  <2>2. OnceInOrder'
    BY <1>1, <2>1 DEF InsertOutbox, LogInv, OnceInOrder
  <2>3. \A i \in pending' : \A j \in i..rows' : j \in pending'
    BY <1>1, <2>1 DEF InsertOutbox, LogInv, TypeOK
  <2> QED BY <1>1, <2>1, <2>2, <2>3 DEF InsertOutbox, LogInv
<1>2. ASSUME NEW d \in Engines, Select(d) PROVE LogInv'
  <2>1. Logged' = Logged /\ OnceInOrder'
    BY <1>2 DEF Select, Picks, Logged, LogInv, OnceInOrder
  <2>2. ASSUME NEW i \in FirstPending, NEW j \in 1..i PROVE j \in FirstPending \cup Logged
    <3>0. i \in 1..rows /\ rows \in Nat
      BY FirstPendingFacts DEF TypeOK
    <3>1. i \in 1..rows /\ j \in 1..rows
      BY <3>0
    <3>2. j \in pending \/ j \in Logged
      BY <3>1 DEF LogInv, OnceInOrder
    <3> QED BY <3>1, <3>2, FirstPendingFacts DEF TypeOK
  <2>3. \A c \in Engines : \A i \in picked'[c] : \A j \in 1..i : j \in picked'[c] \cup Logged'
    BY <1>2, <2>1, <2>2 DEF Select, Picks, LogInv, TypeOK
  <2> QED BY <1>2, <2>1, <2>3 DEF Select, Picks, LogInv
<1>3. ASSUME NEW d \in Engines, Commit(d) PROVE LogInv'
  <2> DEFINE S == picked[d]
  <2>1. S \subseteq 1..rows /\ pending' = pending \ S /\ rows' = rows /\ rows \in Nat
    BY <1>3 DEF Commit, StillPending, TypeOK
  <2>2. Logged' = Logged \cup S
    BY <1>3, CommitFacts
  <2>3. Logged' = (1..rows') \ pending'
    BY <2>1, <2>2 DEF LogInv, OnceInOrder
  <2>4. \A i \in pending' : \A j \in i..rows' : j \in pending'
    <3> SUFFICES ASSUME NEW i \in pending', NEW j \in i..rows', j \in S PROVE FALSE
      BY <2>1 DEF LogInv
    <3>1. i \in pending /\ i \notin S /\ i \in 1..j /\ i \in 1..rows
      BY <2>1 DEF TypeOK
    <3>2. i \in S \cup Logged
      BY <3>1 DEF LogInv
    <3> QED BY <3>1, <3>2 DEF LogInv, OnceInOrder
  <2>5. \A c \in Engines : \A i \in picked'[c] : \A j \in 1..i : j \in picked'[c] \cup Logged'
    BY <1>3, <2>2 DEF Commit, LogInv, TypeOK
  <2>6. /\ sequence \in Nat /\ sequence' \in Nat /\ sequence <= sequence'
        /\ \A e \in events : e.sequence \in Nat /\ e.row \in Nat
    BY <1>3, PlaceFacts DEF Commit, TypeOK, Event
  <2>7. \A e \in events' : e.sequence \in 1..sequence'
    BY <1>3, <2>6, CommitFacts DEF LogInv
  <2>8. \A e, f \in events' : e.sequence = f.sequence => e = f
    <3>1. ASSUME NEW e \in events' \ events, NEW f \in events' \ events, e.sequence = f.sequence
          PROVE  e = f
      <4>1. e.row \in Int /\ f.row \in Int
        BY <1>3, <2>1, CommitFacts
      <4>2. e.sequence \in Int /\ f.sequence \in Int
        BY <1>3, <2>6, CommitFacts
      <4> QED BY <1>3, <3>1, <4>1, <4>2, CommitFacts
    <3>2. ASSUME NEW e \in events, NEW f \in events' \ events PROVE e.sequence # f.sequence
      <4>1. e.sequence < f.sequence /\ e.sequence \in Int /\ f.sequence \in Int
        BY <1>3, <2>6, CommitFacts
      <4> QED BY <4>1
    <3> QED BY <3>1, <3>2 DEF LogInv, OnceInOrder
  <2>9. ASSUME NEW e \in events, NEW f \in events' \ events, f.row \notin Old
        PROVE  e.row # f.row /\ ~(f.row < e.row) /\ e.sequence < f.sequence
    <3>1. f.row \in S /\ f.row \notin Logged /\ e.sequence < f.sequence
      BY <1>3, <2>9, CommitFacts
    <3>2. e.row \in Logged
      BY DEF Logged
    <3>3. f.row \in pending /\ e.row \in 1..rows /\ e.row \notin pending /\ f.row \in 1..rows
      BY <2>1, <3>1, <3>2 DEF LogInv, OnceInOrder
    <3>4. ~(f.row < e.row)
      BY <2>1, <3>3 DEF LogInv
    <3> QED BY <3>1, <3>2, <3>4
  <2>10. \A e, f \in events' : e.row \notin Old /\ f.row \notin Old =>
           (e.row = f.row => e = f) /\ (e.row < f.row => e.sequence < f.sequence)
    <3>1. \A e, f \in events' \ events :
             (e.row = f.row => e = f) /\ (e.row < f.row => e.sequence < f.sequence)
      BY <1>3, CommitFacts
    <3>2. \A e, f \in events : e.row \notin Old /\ f.row \notin Old =>
             (e.row = f.row => e = f) /\ (e.row < f.row => e.sequence < f.sequence)
      BY DEF LogInv, OnceInOrder
    <3> QED BY <2>9, <3>1, <3>2
  <2>11. OnceInOrder'
    BY <2>3, <2>8, <2>10 DEF OnceInOrder, Old
  <2> QED BY <2>1, <2>4, <2>5, <2>7, <2>11 DEF LogInv
<1>4. ASSUME NEW d \in Engines, Fail(d) PROVE LogInv'
  BY <1>4 DEF Fail, LogInv, OnceInOrder, Logged, TypeOK
<1>5. ASSUME NEW d \in Engines, FlushOutbox(d) PROVE LogInv'
  BY <1>5 DEF FlushOutbox, LogInv, OnceInOrder, Logged
<1>6. CASE UNCHANGED vars
  BY <1>6 DEF vars, LogInv, OnceInOrder, Logged
<1> QED BY <1>1, <1>2, <1>3, <1>4, <1>5, <1>6 DEF Next

\* The invariant of the log holds throughout.
LEMMA LogInvariant == Spec => [](TypeOK /\ LogInv)
<1>1. Init => TypeOK /\ LogInv
  <2> SUFFICES ASSUME Init PROVE TypeOK /\ LogInv
    OBVIOUS
  <2>1. Logged = {} /\ (1..rows) \ pending = {}
    BY DEF Init, Old, Logged
  <2> QED BY <2>1, OldRowsAssumption DEF Init, TypeOK, LogInv, OnceInOrder, Old
<1>2. TypeOK /\ LogInv /\ [Next]_vars => (TypeOK /\ LogInv)'
  BY TypeStep, LogStep
<1> QED BY <1>1, <1>2, PTL DEF Spec

(***************************************************************************)
(* Each row is logged once and in order, for any number of engines that    *)
(* flush the same outbox and any limit.                                    *)
(***************************************************************************)
THEOREM OrderCorrect == Spec => []OnceInOrder
<1>1. LogInv => OnceInOrder
  BY DEF LogInv
<1> QED BY <1>1, LogInvariant, PTL

(***************************************************************************)
(* A consumer that acknowledged a sequence number has missed no event at   *)
(* or before it: later events come later in the log.                       *)
(***************************************************************************)
THEOREM AppendCorrect == Spec => AppendOnly
<1> DEFINE Appended == /\ events \subseteq events'
                       /\ \A e \in events, f \in events' \ events : e.sequence < f.sequence
<1>1. TypeOK /\ LogInv /\ [Next]_vars => [Appended]_vars
  <2> SUFFICES ASSUME TypeOK, LogInv, Next PROVE Appended
    BY DEF vars
  <2>1. ASSUME NEW d \in Engines, Commit(d) PROVE Appended
    BY <2>1, CommitFacts
  <2>2. ASSUME events' = events PROVE Appended
    BY <2>2
  <2> QED BY <2>1, <2>2 DEF Next, InsertOutbox, FlushOutbox, Select, Picks, Fail
<1> QED BY <1>1, LogInvariant, PTL DEF Spec, AppendOnly
=============================================================================
