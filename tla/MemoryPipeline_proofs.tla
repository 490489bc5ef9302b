------------------------ MODULE MemoryPipeline_proofs ------------------------
(***************************************************************************)
(* Proofs about the memory consumer, for any number of pipelines, events   *)
(* and failures.                                                           *)
(***************************************************************************)
EXTENDS MemoryPipeline, FiniteSetTheorems, SequenceTheorems, WellFoundedInduction, TLAPS

\* A batch is a run of consecutive numbers.
BatchesOK ==
    /\ batch \in [Pipelines -> Seq(Nat)]
    /\ \A p \in Pipelines : \A n \in 1..Len(batch[p]) : batch[p][n] = batch[p][1] + n - 1

\* What a pipeline has read is not ahead of what has been handled: every event up to the
\* cursor it read, every event before the one it is at, and that one too once it is to be
\* acknowledged.
NotAhead ==
    \A p \in Pipelines :
        /\ \A i \in 1..since[p] : receipt[i] # -1
        /\ batch[p] # <<>> => \A i \in 1..(batch[p][1] - 1) : receipt[i] # -1
        /\ at[p] \in {"ack", "acked"} => receipt[batch[p][1]] # -1

\* A record comes after the one it supersedes, and its revision is at most its number.
RecordsOK ==
    \A m \in 1..Len(records) :
        /\ records[m].source \in 1..Len(log)
        /\ records[m].revision \in 1..m
        /\ records[m].supersedes \in 0..(m - 1)

\* The inductive invariant behind NoneSkipped.
OrderInv == TypeOK /\ BatchesOK /\ RecordsOK /\ NotAhead /\ NoneSkipped

-----------------------------------------------------------------------------

\* The receipts are a sequence as long as the log.
LEMMA ReceiptSeq == TypeOK => receipt \in Seq(Int) /\ Len(receipt) = Len(log)
<1> SUFFICES ASSUME TypeOK PROVE receipt \in Seq(Int) /\ Len(receipt) = Len(log)
  OBVIOUS
<1>1. Len(log) \in Nat /\ receipt \in [1..Len(log) -> Int]
  BY DEF TypeOK
<1>2. receipt \in Seq(Int)
  BY <1>1, SeqDef
<1> QED BY <1>1, <1>2, LenProperties

\* The event a pipeline is at.
LEMMA AtHead ==
    ASSUME TypeOK, BatchesOK, NEW p \in Pipelines, batch[p] # <<>>
    PROVE  /\ batch[p] \in Seq(Nat) /\ Len(batch[p]) \in Nat \ {0}
           /\ Head(batch[p]) = batch[p][1]
           /\ batch[p][1] \in 1..Len(log)
<1>1. batch[p] \in Seq(Nat)
  BY DEF BatchesOK
<1>2. Len(batch[p]) \in Nat \ {0}
  BY <1>1, EmptySeq
<1>3. 1 \in 1..Len(batch[p])
  BY <1>2
<1> QED BY <1>1, <1>2, <1>3 DEF TypeOK

\* Every nonempty set of naturals has a least element.
LEMMA Least == ASSUME NEW T \in SUBSET Nat, T # {} PROVE \E x \in T : \A y \in T : x <= y
<1> DEFINE R == OpToRel(<, Nat)
<1>1. IsWellFoundedOn(R, Nat)
  BY NatLessThanWellFounded
<1>2. \A x, y \in Nat : y < x => <<y, x>> \in R
  BY DEF OpToRel
<1> HIDE DEF R
<1>3. PICK x \in T : \A y \in T : ~(<<y, x>> \in R)
  BY <1>1, WFMin
<1>4. ASSUME NEW y \in T PROVE x <= y
  <2>1. x \in Nat /\ y \in Nat
    OBVIOUS
  <2>2. ~(y < x)
    BY <1>2, <1>3, <2>1, Zenon
  <2> QED BY <2>1, <2>2
<1> QED BY <1>4

\* The newest record of a key, if it has any, is one of its records with the highest revision.
LEMMA NewestFacts ==
    ASSUME TypeOK, RecordsOK, NEW k
    PROVE  /\ Newest(k) \in 0..Len(records)
           /\ Of(k) = {} => Newest(k) = 0
           /\ Of(k) # {} => /\ Newest(k) \in Of(k)
                            /\ \A n \in Of(k) : records[n].revision <= records[Newest(k)].revision
<1> DEFINE L == Len(records)
           T == {L - records[m].revision : m \in Of(k)}
<1>1. L \in Nat /\ Of(k) \subseteq 1..L
  BY DEF TypeOK, Of
<1>2. \A m \in 1..L : records[m].revision \in Nat /\ records[m].revision <= L
  BY <1>1 DEF RecordsOK
<1>3. CASE Of(k) = {}
  BY <1>1, <1>3 DEF Newest
<1>4. CASE Of(k) # {}
  <2> HIDE DEF L
  <2>1. T \in SUBSET Nat
    BY <1>1, <1>2
  <2>2. T # {}
    BY <1>4
  <2>3. PICK x \in T : \A y \in T : x <= y
    <3> HIDE DEF T
    <3> QED BY <2>1, <2>2, Least
  <2>4. PICK m \in Of(k) : x = L - records[m].revision
    BY <2>3
  <2>5. ASSUME NEW n \in Of(k) PROVE records[n].revision <= records[m].revision
    <3>1. L - records[m].revision <= L - records[n].revision
      BY <2>3, <2>4
    <3>2. records[n].revision \in Nat /\ records[m].revision \in Nat
      BY <1>1, <1>2
    <3> QED BY <1>1, <3>1, <3>2
  <2>6. /\ Newest(k) \in Of(k)
        /\ \A n \in Of(k) : records[n].revision <= records[Newest(k)].revision
    BY <1>4, <2>5 DEF Newest
  <2>7. Newest(k) \in 0..L
    BY <1>1, <2>6
  <2> QED BY <1>4, <2>6, <2>7 DEF L
<1> QED BY <1>3, <1>4

\* from_persistence finds the record that ORDER BY revision DESC finds.
LEMMA LoadedIsNewest == \A k : Loaded(k) = Newest(k)
BY DEF Loaded, Newest

-----------------------------------------------------------------------------

\* A new event: the log and the receipts grow by one, the rest is as before.
LEMMA DispatchOrder ==
    ASSUME OrderInv, NEW c \in Keys \cup {NoCandidate}, Dispatch(c)
    PROVE  OrderInv'
<1> DEFINE L == Len(log)
<1>0. L \in Nat
  BY DEF OrderInv, TypeOK
<1>1. L \in Nat /\ receipt \in Seq(Int) /\ Len(receipt) = L
  BY <1>0, ReceiptSeq DEF OrderInv
<1>2. log' \in Seq(Keys \cup {NoCandidate}) /\ Len(log') = L + 1
  BY AppendProperties DEF OrderInv, TypeOK, Dispatch
<1>3. /\ receipt' \in Seq(Int) /\ Len(receipt') = L + 1
      /\ \A i \in 1..L : receipt'[i] = receipt[i]
      /\ receipt'[L + 1] = -1
  BY <1>1, AppendProperties, -1 \in Int DEF Dispatch
<1>4. receipt' \in [1..(L + 1) -> Int]
  BY <1>3, LenProperties
<1> HIDE DEF L
<1>5. TypeOK'
  <2>1. \A i \in 1..(L + 1) : receipt'[i] \in -1..Len(records)
    <3>1. \A i \in 1..(L + 1) : i \in 1..L \/ i = L + 1
      BY <1>1
    <3>2. Len(records) \in Nat /\ \A i \in 1..L : receipt[i] \in -1..Len(records)
      BY DEF OrderInv, TypeOK, L
    <3> QED BY <1>3, <3>1, <3>2
  <2>2. 0..L \subseteq 0..(L + 1) /\ 1..L \subseteq 1..(L + 1)
    BY <1>1
  <2>3. cursor' \in 0..Len(log')
    BY <1>2, <2>2 DEF OrderInv, TypeOK, Dispatch, L
  <2>4. since' \in [Pipelines -> 0..Len(log')]
    BY <1>2, <2>2 DEF OrderInv, TypeOK, Dispatch, L
  <2>5. \A p \in Pipelines : \A n \in 1..Len(batch'[p]) : batch'[p][n] \in 1..Len(log')
    BY <1>2, <2>2 DEF OrderInv, TypeOK, Dispatch, L
  <2> QED BY <1>2, <1>4, <2>1, <2>3, <2>4, <2>5 DEF OrderInv, TypeOK, Dispatch
<1>6. BatchesOK'
  BY DEF OrderInv, BatchesOK, Dispatch
<1>7. RecordsOK'
  BY <1>1, <1>2 DEF OrderInv, RecordsOK, Dispatch, L
<1>8. NotAhead'
  <2> SUFFICES ASSUME NEW p \in Pipelines
               PROVE  /\ \A i \in 1..since[p] : receipt'[i] # -1
                      /\ batch[p] # <<>> => \A i \in 1..(batch[p][1] - 1) : receipt'[i] # -1
                      /\ at[p] \in {"ack", "acked"} => receipt'[batch[p][1]] # -1
    BY DEF NotAhead, Dispatch
  <2>1. since[p] \in 0..L /\ (at[p] \in {"ack", "acked"} => batch[p] # <<>>)
    BY DEF OrderInv, TypeOK, L
  <2>2. batch[p] # <<>> => batch[p][1] \in 1..L
    BY AtHead DEF OrderInv, L
  <2>3. /\ \A i \in 1..since[p] : i \in 1..L
        /\ batch[p] # <<>> => \A i \in 1..(batch[p][1] - 1) : i \in 1..L
    BY <1>1, <2>1, <2>2
  <2> QED BY <1>3, <2>1, <2>2, <2>3 DEF OrderInv, NotAhead
<1>9. NoneSkipped'
  <2>1. cursor \in 0..L /\ cursor' = cursor
    BY DEF OrderInv, TypeOK, L, Dispatch
  <2>2. \A i \in 1..cursor : receipt'[i] # -1
    BY <1>1, <1>3, <2>1 DEF OrderInv, NoneSkipped
  <2>3. \A i, j \in 1..(L + 1) : i < j /\ receipt'[j] # -1 => receipt'[i] # -1
    <3> SUFFICES ASSUME NEW i \in 1..(L + 1), NEW j \in 1..(L + 1), i < j, receipt'[j] # -1
                 PROVE  receipt'[i] # -1
      OBVIOUS
    <3>1. i \in 1..L /\ j \in 1..L
      BY <1>1, <1>3
    <3> QED BY <1>3, <3>1 DEF OrderInv, NoneSkipped, L
  <2> QED BY <1>2, <2>1, <2>2, <2>3 DEF NoneSkipped
<1> QED BY <1>5, <1>6, <1>7, <1>8, <1>9 DEF OrderInv

\* The event a pipeline is at gets its receipt: all before it have theirs.
LEMMA HandleOrder ==
    ASSUME OrderInv, NEW p \in Pipelines, at[p] = "process",
           NEW v \in Nat, receipt[Head(batch[p])] = -1,
           receipt' = [receipt EXCEPT ![Head(batch[p])] = v],
           cursor' = Advanced(Head(batch[p])),
           at' = [at EXCEPT ![p] = "ack"],
           UNCHANGED <<log, since, batch>>
    PROVE  /\ receipt' \in [1..Len(log) -> Int] /\ cursor' \in 0..Len(log)
           /\ BatchesOK' /\ NotAhead' /\ NoneSkipped'
<1> DEFINE L == Len(log)
           h == batch[p][1]
<1>1. L \in Nat /\ cursor \in 0..L /\ receipt \in [1..L -> Int]
  BY DEF OrderInv, TypeOK
<1>2. batch[p] # <<>>
  BY DEF OrderInv, TypeOK
<1>3. Head(batch[p]) = h /\ h \in 1..L
  BY <1>2, AtHead DEF OrderInv
<1> HIDE DEF L
<1>4. receipt' \in [1..L -> Int] /\ cursor' \in 0..L
  <2>1. receipt' \in [1..L -> Int]
    BY <1>1, <1>3
  <2>2. cursor' \in 0..L
    BY <1>1, <1>3 DEF Advanced
  <2> QED BY <2>1, <2>2
<1>5. \A i \in 1..L : receipt'[i] = IF i = h THEN v ELSE receipt[i]
  BY <1>1, <1>3
<1>6. /\ \A i \in 1..(h - 1) : receipt'[i] # -1
      /\ receipt'[h] # -1
      /\ \A i \in 1..L : receipt[i] # -1 => receipt'[i] # -1
  <2>1. \A i \in 1..(h - 1) : i \in 1..L /\ receipt[i] # -1
    BY <1>1, <1>2, <1>3 DEF OrderInv, NotAhead
  <2>2. v # -1
    OBVIOUS
  <2> QED BY <1>3, <1>5, <2>1, <2>2
<1>7. BatchesOK'
  BY DEF OrderInv, BatchesOK
<1>8. NotAhead'
  <2> SUFFICES ASSUME NEW q \in Pipelines
               PROVE  /\ \A i \in 1..since[q] : receipt'[i] # -1
                      /\ batch[q] # <<>> => \A i \in 1..(batch[q][1] - 1) : receipt'[i] # -1
                      /\ at'[q] \in {"ack", "acked"} => receipt'[batch[q][1]] # -1
    BY DEF NotAhead
  <2>1. since[q] \in 0..L /\ (at[q] \in {"ack", "acked"} => batch[q] # <<>>)
    BY DEF OrderInv, TypeOK, L
  <2>2. batch[q] # <<>> => batch[q][1] \in 1..L
    BY AtHead DEF OrderInv, L
  <2>3. /\ \A i \in 1..since[q] : i \in 1..L
        /\ batch[q] # <<>> => \A i \in 1..(batch[q][1] - 1) : i \in 1..L
    BY <1>1, <2>1, <2>2
  <2>4. at'[q] \in {"ack", "acked"} => q = p \/ at[q] \in {"ack", "acked"}
    BY DEF OrderInv, TypeOK
  <2> QED BY <1>6, <2>1, <2>2, <2>3, <2>4 DEF OrderInv, NotAhead
<1>9. NoneSkipped'
  <2>1. ASSUME NEW i \in 1..cursor' PROVE receipt'[i] # -1
    <3>1. i \in 1..cursor \/ i = h \/ i \in 1..(h - 1)
      BY <1>1, <1>3 DEF Advanced
    <3>2. \A j \in 1..cursor : j \in 1..L /\ receipt[j] # -1
      BY <1>1 DEF OrderInv, NoneSkipped
    <3> QED BY <1>6, <3>1, <3>2
  <2>2. ASSUME NEW i \in 1..L, NEW j \in 1..L, i < j, receipt'[j] # -1
        PROVE  receipt'[i] # -1
    <3>1. CASE j = h
      <4>1. i \in 1..(h - 1)
        BY <2>2, <3>1
      <4> QED BY <4>1, <1>6
    <3>2. CASE j # h
      BY <1>5, <1>6, <2>2, <3>2 DEF OrderInv, NoneSkipped, L
    <3> QED BY <3>1, <3>2
  <2> QED BY <2>1, <2>2 DEF NoneSkipped, L
<1> QED BY <1>4, <1>7, <1>8, <1>9 DEF L

\* An event of no interest gets the receipt 0.
LEMMA IgnoreOrder ==
    ASSUME OrderInv, NEW p \in Pipelines, Ignore(p)
    PROVE  OrderInv'
<1>1. /\ receipt' \in [1..Len(log) -> Int] /\ cursor' \in 0..Len(log)
      /\ BatchesOK' /\ NotAhead' /\ NoneSkipped'
  BY HandleOrder, 0 \in Nat DEF Ignore
<1>2. TypeOK'
  <2>1. Head(batch[p]) \in 1..Len(log)
    <3>1. batch[p] # <<>>
      BY DEF OrderInv, TypeOK, Ignore
    <3> QED BY <3>1, AtHead DEF OrderInv
  <2>2. Len(records) \in Nat /\ receipt \in [1..Len(log) -> Int]
    BY DEF OrderInv, TypeOK
  <2>3. \A i \in 1..Len(log) : receipt'[i] \in -1..Len(records)
    BY <2>1, <2>2 DEF OrderInv, TypeOK, Ignore
  <2>4. at' \in [Pipelines -> {"idle", "select", "process", "ack", "acked"}]
    BY DEF OrderInv, TypeOK, Ignore
  <2>5. \A q \in Pipelines : at'[q] \in {"process", "ack", "acked"} => batch[q] # <<>>
    BY DEF OrderInv, TypeOK, Ignore
  <2> QED BY <1>1, <2>3, <2>4, <2>5 DEF OrderInv, TypeOK, Ignore
<1>3. RecordsOK'
  BY DEF OrderInv, RecordsOK, Ignore
<1> QED BY <1>1, <1>2, <1>3 DEF OrderInv

\* The record of an event is appended and its receipt names it.
LEMMA CommitOrder ==
    ASSUME OrderInv, NEW p \in Pipelines, CommitRecord(p)
    PROVE  OrderInv'
<1> DEFINE h == Head(batch[p])
           k == log[h]
           m == Newest(k)
           r == [source |-> h, key |-> k, supersedes |-> m,
                 revision |-> IF m = 0 THEN 1 ELSE records[m].revision + 1]
           N == Len(records)
<1>1. N \in Nat /\ Len(log) \in Nat /\ records \in Seq(Record)
  BY DEF OrderInv, TypeOK
<1>2. h \in 1..Len(log) /\ k \in Keys
  <2>1. batch[p] # <<>>
    BY DEF OrderInv, TypeOK, CommitRecord
  <2>2. h \in 1..Len(log)
    BY <2>1, AtHead DEF OrderInv
  <2> QED BY <1>1, <2>2 DEF OrderInv, TypeOK, CommitRecord
<1>3. m \in 0..N
  BY NewestFacts DEF OrderInv
<1>4. /\ records' = Append(records, r) /\ receipt' = [receipt EXCEPT ![h] = N + 1]
      /\ latest' = Remember(p, k, N + 1)
  BY DEF CommitRecord, Previous
<1>5. m # 0 => records[m].revision \in 1..N
  <2>1. m # 0 => m \in 1..N
    BY <1>1, <1>3
  <2>2. \A n \in 1..N : records[n].revision \in 1..n
    BY DEF OrderInv, RecordsOK
  <2> HIDE DEF m, N
  <2> QED BY <1>1, <2>1, <2>2
<1>6. N + 1 \in Nat
  BY <1>1
<1>7. /\ receipt' \in [1..Len(log) -> Int] /\ cursor' \in 0..Len(log)
      /\ BatchesOK' /\ NotAhead' /\ NoneSkipped'
  <2>1. /\ at[p] = "process" /\ receipt[h] = -1 /\ cursor' = Advanced(h)
        /\ at' = [at EXCEPT ![p] = "ack"] /\ UNCHANGED <<log, since, batch>>
    BY DEF CommitRecord
  <2> HIDE DEF N
  <2> QED BY <1>4, <1>6, <2>1, HandleOrder
<1> HIDE DEF h, m, N
<1>8. /\ r.source = h /\ r.key = k /\ r.supersedes = m
      /\ r.revision \in 1..(N + 1)
  <2>1. r.revision = IF m = 0 THEN 1 ELSE records[m].revision + 1
    OBVIOUS
  <2> QED BY <1>1, <1>5, <2>1
<1>9. r \in Record
  <2>1. m \in Nat /\ h \in Nat /\ k \in Keys
    BY <1>2, <1>3
  <2>2. (IF m = 0 THEN 1 ELSE records[m].revision + 1) \in Nat
    BY <1>1, <1>5
  <2> QED BY <2>1, <2>2 DEF Record
<1> HIDE DEF k, r
<1>10. /\ records' \in Seq(Record) /\ Len(records') = N + 1
       /\ \A n \in 1..N : records'[n] = records[n]
       /\ records'[N + 1] = r
  BY <1>1, <1>4, <1>9, AppendProperties DEF N
<1>11. RecordsOK'
  <2> SUFFICES ASSUME NEW n \in 1..(N + 1)
               PROVE  /\ records'[n].source \in 1..Len(log)
                      /\ records'[n].revision \in 1..n
                      /\ records'[n].supersedes \in 0..(n - 1)
    BY <1>10 DEF RecordsOK, CommitRecord
  <2>1. CASE n \in 1..N
    BY <1>10, <2>1 DEF OrderInv, RecordsOK, N
  <2>2. CASE n = N + 1
    BY <1>1, <1>2, <1>3, <1>8, <1>10, <2>2
  <2> QED BY <1>1, <2>1, <2>2
<1>12. TypeOK'
  <2>1. \A i \in 1..Len(log) : receipt'[i] \in -1..(N + 1)
    <3>1. receipt \in [1..Len(log) -> Int] /\ \A i \in 1..Len(log) : receipt[i] \in -1..N
      BY DEF OrderInv, TypeOK, N
    <3> QED BY <1>1, <1>2, <1>4, <3>1
  <2>2. at' \in [Pipelines -> {"idle", "select", "process", "ack", "acked"}]
    BY DEF OrderInv, TypeOK, CommitRecord
  <2>3. \A q \in Pipelines : at'[q] \in {"process", "ack", "acked"} => batch[q] # <<>>
    BY DEF OrderInv, TypeOK, CommitRecord
  <2>4. latest' \in [Pipelines -> [Keys -> 0..(N + 1)]]
    <3>1. latest \in [Pipelines -> [Keys -> 0..(N + 1)]]
      <4>1. 0..N \subseteq 0..(N + 1)
        BY <1>1
      <4>2. latest \in [Pipelines -> [Keys -> 0..N]]
        BY DEF OrderInv, TypeOK, N
      <4> QED BY <4>1, <4>2
    <3>2. N + 1 \in 0..(N + 1)
      BY <1>1
    <3> QED BY <1>2, <1>4, <3>1, <3>2 DEF Remember
  <2> QED BY <1>7, <1>10, <2>1, <2>2, <2>3, <2>4 DEF OrderInv, TypeOK, CommitRecord
<1> QED BY <1>7, <1>11, <1>12 DEF OrderInv

\* A step of one pipeline that handles no event keeps OrderInv if what the pipeline has
\* afterwards is not ahead either.
LEMMA QuietOrder ==
    ASSUME OrderInv, UNCHANGED <<log, receipt, records>>,
           NEW p \in Pipelines,
           NEW a \in {"idle", "select", "process", "ack", "acked"},
           NEW s \in 0..Len(log), NEW b \in Seq(Nat),
           at' = [at EXCEPT ![p] = a],
           since' = [since EXCEPT ![p] = s],
           batch' = [batch EXCEPT ![p] = b],
           cursor' \in 0..Len(log), \A i \in 1..cursor' : receipt[i] # -1,
           latest' \in [Pipelines -> [Keys -> 0..Len(records)]], failures' \in Nat,
           \A n \in 1..Len(b) : b[n] \in 1..Len(log) /\ b[n] = b[1] + n - 1,
           a \in {"process", "ack", "acked"} => b # <<>>,
           \A i \in 1..s : receipt[i] # -1,
           b # <<>> => \A i \in 1..(b[1] - 1) : receipt[i] # -1,
           a \in {"ack", "acked"} => receipt[b[1]] # -1
    PROVE  OrderInv'
<1>1. \A q \in Pipelines : /\ at'[q] = IF q = p THEN a ELSE at[q]
                           /\ since'[q] = IF q = p THEN s ELSE since[q]
                           /\ batch'[q] = IF q = p THEN b ELSE batch[q]
  BY DEF OrderInv, TypeOK, BatchesOK
<1>2. TypeOK'
  <2>1. /\ at' \in [Pipelines -> {"idle", "select", "process", "ack", "acked"}]
        /\ since' \in [Pipelines -> 0..Len(log)]
    BY DEF OrderInv, TypeOK
  <2>2. \A q \in Pipelines :
          /\ \A n \in 1..Len(batch'[q]) : batch'[q][n] \in 1..Len(log)
          /\ at'[q] \in {"process", "ack", "acked"} => batch'[q] # <<>>
    BY <1>1 DEF OrderInv, TypeOK
  <2> QED BY <2>1, <2>2 DEF OrderInv, TypeOK
<1>3. BatchesOK'
  <2>1. batch' \in [Pipelines -> Seq(Nat)]
    BY DEF OrderInv, BatchesOK
  <2> QED BY <1>1, <2>1 DEF OrderInv, BatchesOK
<1>4. RecordsOK'
  BY DEF OrderInv, RecordsOK
<1>5. NotAhead'
  BY <1>1 DEF OrderInv, NotAhead
<1>6. NoneSkipped'
  BY DEF OrderInv, NoneSkipped
<1> QED BY <1>2, <1>3, <1>4, <1>5, <1>6 DEF OrderInv

\* What OrderInv says of one pipeline.
LEMMA OnePipeline ==
    ASSUME OrderInv, NEW p \in Pipelines
    PROVE  /\ at[p] \in {"idle", "select", "process", "ack", "acked"}
           /\ since[p] \in 0..Len(log) /\ batch[p] \in Seq(Nat)
           /\ at = [at EXCEPT ![p] = at[p]]
           /\ since = [since EXCEPT ![p] = since[p]]
           /\ batch = [batch EXCEPT ![p] = batch[p]]
           /\ cursor \in 0..Len(log) /\ \A i \in 1..cursor : receipt[i] # -1
           /\ latest \in [Pipelines -> [Keys -> 0..Len(records)]] /\ failures \in Nat
           /\ \A n \in 1..Len(batch[p]) : /\ batch[p][n] \in 1..Len(log)
                                          /\ batch[p][n] = batch[p][1] + n - 1
           /\ at[p] \in {"process", "ack", "acked"} => batch[p] # <<>>
           /\ \A i \in 1..since[p] : receipt[i] # -1
           /\ batch[p] # <<>> => \A i \in 1..(batch[p][1] - 1) : receipt[i] # -1
           /\ at[p] \in {"ack", "acked"} => receipt[batch[p][1]] # -1
<1>1. /\ at[p] \in {"idle", "select", "process", "ack", "acked"}
      /\ since[p] \in 0..Len(log) /\ batch[p] \in Seq(Nat)
      /\ at = [at EXCEPT ![p] = at[p]]
      /\ since = [since EXCEPT ![p] = since[p]]
      /\ batch = [batch EXCEPT ![p] = batch[p]]
  BY DEF OrderInv, TypeOK, BatchesOK
<1>2. cursor \in 0..Len(log) /\ \A i \in 1..cursor : receipt[i] # -1
  BY DEF OrderInv, TypeOK, NoneSkipped
<1>3. latest \in [Pipelines -> [Keys -> 0..Len(records)]] /\ failures \in Nat
  BY DEF OrderInv, TypeOK
<1>4. \A n \in 1..Len(batch[p]) : batch[p][n] \in 1..Len(log) /\ batch[p][n] = batch[p][1] + n - 1
  BY DEF OrderInv, TypeOK, BatchesOK
<1>5. at[p] \in {"process", "ack", "acked"} => batch[p] # <<>>
  BY DEF OrderInv, TypeOK
<1> QED BY <1>1, <1>2, <1>3, <1>4, <1>5 DEF OrderInv, NotAhead

\* The empty batch is not ahead of anything.
LEMMA NoBatch ==
    /\ <<>> \in Seq(Nat)
    /\ \A n \in 1..Len(<<>>) : FALSE
OBVIOUS

\* run_once starts from a cursor behind which all is handled.
LEMMA ReadCursorOrder ==
    ASSUME OrderInv, NEW p \in Pipelines, ReadCursor(p)
    PROVE  OrderInv'
<1>1. /\ at' = [at EXCEPT ![p] = "select"] /\ since' = [since EXCEPT ![p] = cursor]
      /\ UNCHANGED <<log, cursor, receipt, records, batch, latest, failures>>
  BY DEF ReadCursor
<1> QED BY <1>1, OnePipeline, QuietOrder

\* The events after that cursor are a run of consecutive numbers.
LEMMA ReadEventsOrder ==
    ASSUME OrderInv, NEW p \in Pipelines, ReadEvents(p)
    PROVE  OrderInv'
<1> DEFINE L == Len(log)
           n == AtMost(Limit, L - since[p])
           b == [i \in 1..n |-> since[p] + i]
           a == IF n = 0 THEN "idle" ELSE "process"
<1>1. L \in Nat /\ since[p] \in 0..L
  BY DEF OrderInv, TypeOK
<1>2. /\ batch' = [batch EXCEPT ![p] = b] /\ at' = [at EXCEPT ![p] = a]
      /\ UNCHANGED <<log, cursor, receipt, records, since, latest, failures>>
  BY DEF ReadEvents
<1> HIDE DEF L
<1>3. n \in Nat /\ since[p] + n <= L
  BY <1>1, LimitAssumption DEF AtMost
<1> HIDE DEF n
<1>4. \A i \in 1..n : since[p] + i \in Nat
  BY <1>1, <1>3
<1>5. b \in Seq(Nat) /\ Len(b) = n
  BY <1>3, <1>4, IsASeq
<1>6. \A i \in 1..n : b[i] \in 1..L /\ b[i] = b[1] + i - 1
  BY <1>1, <1>3
<1>7. n # 0 => b # <<>> /\ b[1] = since[p] + 1
  BY <1>3, <1>5
<1>8. b # <<>> => \A i \in 1..(b[1] - 1) : receipt[i] # -1
  <2>1. b # <<>> => n # 0
    BY <1>3, <1>5, EmptySeq
  <2>2. \A i \in 1..since[p] : receipt[i] # -1
    BY OnePipeline
  <2>3. b # <<>> => b[1] - 1 = since[p]
    <3> HIDE DEF b
    <3> QED BY <1>1, <1>7, <2>1
  <2> HIDE DEF b
  <2> QED BY <2>2, <2>3
<1>9. a \in {"idle", "process"} /\ (a # "idle" => n # 0)
  OBVIOUS
<1> HIDE DEF a, b
<1> QED BY <1>2, <1>5, <1>6, <1>7, <1>8, <1>9, OnePipeline, QuietOrder DEF L

\* An event with a receipt is handled.
LEMMA ReplayOrder ==
    ASSUME OrderInv, NEW p \in Pipelines, Replay(p)
    PROVE  OrderInv'
<1> DEFINE h == Head(batch[p])
           r == receipt[h]
<1>1. /\ at' = [at EXCEPT ![p] = "ack"] /\ r # -1 /\ at[p] = "process"
      /\ UNCHANGED <<log, cursor, receipt, records, since, batch, failures>>
      /\ latest' = IF r = 0 THEN latest ELSE Remember(p, records[r].key, r)
  BY DEF Replay
<1>2. batch[p] # <<>>
  BY <1>1, OnePipeline
<1>3. h = batch[p][1] /\ h \in 1..Len(log)
  BY <1>2, AtHead DEF OrderInv
<1>4. latest' \in [Pipelines -> [Keys -> 0..Len(records)]]
  <2>1. latest \in [Pipelines -> [Keys -> 0..Len(records)]]
    BY OnePipeline
  <2>2. r \in -1..Len(records) /\ Len(records) \in Nat
    BY <1>3 DEF OrderInv, TypeOK
  <2> HIDE DEF r
  <2>3. CASE r = 0
    BY <1>1, <2>1, <2>3
  <2>4. CASE r # 0
    <3>1. r \in 1..Len(records) /\ r \in 0..Len(records)
      BY <1>1, <2>2, <2>4
    <3>2. latest' = Remember(p, records[r].key, r)
      BY <1>1, <2>4
    <3> QED BY <2>1, <3>1, <3>2 DEF Remember
  <2> QED BY <2>3, <2>4
<1>5. receipt[batch[p][1]] # -1
  BY <1>1, <1>3
<1> HIDE DEF h, r
<1> QED BY <1>1, <1>2, <1>4, <1>5, OnePipeline, QuietOrder

\* The next event of a batch: all before it are handled.
LEMMA ProceedOrder ==
    ASSUME OrderInv, NEW p \in Pipelines, at[p] \in {"ack", "acked"}, Proceed(p),
           UNCHANGED <<log, receipt, records, since, latest, failures>>,
           cursor' \in 0..Len(log), \A i \in 1..cursor' : receipt[i] # -1
    PROVE  OrderInv'
<1> DEFINE s == batch[p]
           b == Tail(s)
           a == IF b = <<>> THEN "idle" ELSE "process"
<1>1. s # <<>> /\ receipt[s[1]] # -1 /\ \A i \in 1..(s[1] - 1) : receipt[i] # -1
  BY OnePipeline
<1>2. s \in Seq(Nat) /\ Len(s) \in Nat \ {0} /\ s[1] \in 1..Len(log) /\ Len(log) \in Nat
  <2>1. TypeOK /\ BatchesOK
    BY DEF OrderInv
  <2>2. s \in Seq(Nat) /\ Len(s) \in Nat \ {0} /\ s[1] \in 1..Len(log)
    BY <1>1, <2>1, AtHead
  <2>3. Len(log) \in Nat
    BY <2>1 DEF TypeOK
  <2> QED BY <2>2, <2>3
<1>3. \A n \in 1..Len(s) : s[n] \in 1..Len(log) /\ s[n] = s[1] + n - 1
  BY OnePipeline
<1>4. at' = [at EXCEPT ![p] = a] /\ batch' = [batch EXCEPT ![p] = b]
  BY DEF Proceed
<1> HIDE DEF s
<1>5. b \in Seq(Nat) /\ Len(b) = Len(s) - 1 /\ \A n \in 1..Len(b) : b[n] = s[n + 1]
  BY <1>1, <1>2, HeadTailProperties
<1>6. b # <<>> => Len(b) >= 1
  BY <1>2, <1>5, EmptySeq
<1>7. a \in {"idle", "process"} /\ (a # "idle" => b # <<>>)
  OBVIOUS
<1> HIDE DEF a, b
<1>8. \A n \in 1..Len(b) : b[n] \in 1..Len(log) /\ b[n] = b[1] + n - 1
  <2>1. \A n \in 1..Len(b) : n + 1 \in 1..Len(s) /\ 1 \in 1..Len(b) /\ 2 \in 1..Len(s)
    BY <1>2, <1>5
  <2>2. ASSUME NEW n \in 1..Len(b) PROVE b[n] \in 1..Len(log) /\ b[n] = b[1] + n - 1
    <3>1. b[n] = s[n + 1] /\ b[1] = s[1 + 1]
      BY <1>5, <2>1
    <3>2. s[n + 1] = s[1] + (n + 1) - 1 /\ s[n + 1] \in 1..Len(log) /\ s[2] = s[1] + 2 - 1
      BY <1>3, <2>1
    <3> QED BY <1>2, <3>1, <3>2
  <2> QED BY <2>2
<1>9. b # <<>> => b[1] = s[1] + 1
  BY <1>2, <1>3, <1>5, <1>6
<1>10. b # <<>> => \A i \in 1..(b[1] - 1) : receipt[i] # -1
  <2> SUFFICES ASSUME b # <<>>, NEW i \in 1..(b[1] - 1) PROVE receipt[i] # -1
    OBVIOUS
  <2>1. i = s[1] \/ i \in 1..(s[1] - 1)
    BY <1>2, <1>9
  <2> QED BY <1>1, <2>1
<1> QED BY <1>4, <1>5, <1>7, <1>8, <1>10, OnePipeline, QuietOrder

\* The second acknowledgement moves the cursor only to an event that is handled, and so
\* are all before it: the cursor may go back, and never passes over an event.
LEMMA AckOrder ==
    ASSUME OrderInv, NEW p \in Pipelines, AckRead(p) \/ AckWrite(p)
    PROVE  OrderInv'
<1>1. CASE AckRead(p)
  <2>1. at[p] = "ack" /\ UNCHANGED <<log, cursor, receipt, records, since, latest, failures>>
    BY <1>1 DEF AckRead
  <2>2. CASE Proceed(p)
    BY <2>1, <2>2, OnePipeline, ProceedOrder
  <2>3. CASE at' = [at EXCEPT ![p] = "acked"] /\ UNCHANGED batch
    BY <2>1, <2>3, OnePipeline, QuietOrder
  <2> QED BY <1>1, <2>2, <2>3 DEF AckRead
<1>2. CASE AckWrite(p)
  <2> DEFINE h == batch[p][1]
  <2>1. /\ at[p] = "acked" /\ cursor' = Head(batch[p]) /\ Proceed(p)
        /\ UNCHANGED <<log, receipt, records, since, latest, failures>>
    BY <1>2 DEF AckWrite
  <2>2. batch[p] # <<>> /\ receipt[h] # -1 /\ \A i \in 1..(h - 1) : receipt[i] # -1
    BY <2>1, OnePipeline
  <2>3. h \in 1..Len(log) /\ cursor' = h /\ Len(log) \in Nat
    BY <2>1, <2>2, AtHead DEF OrderInv, TypeOK
  <2> HIDE DEF h
  <2>4. cursor' \in 0..Len(log) /\ \A i \in 1..cursor' : receipt[i] # -1
    <3>1. \A i \in 1..h : i = h \/ i \in 1..(h - 1)
      BY <2>3
    <3> QED BY <2>2, <2>3, <3>1
  <2> QED BY <2>1, <2>4, ProceedOrder
<1> QED BY <1>1, <1>2

\* A pipeline that fails or starts again has nothing in hand.
LEMMA StoppedOrder ==
    ASSUME OrderInv, NEW p \in Pipelines, Fail(p) \/ Restart(p)
    PROVE  OrderInv'
<1>1. /\ at' = [at EXCEPT ![p] = "idle"] /\ batch' = [batch EXCEPT ![p] = <<>>]
      /\ UNCHANGED <<log, cursor, receipt, records, since>> /\ failures' = failures + 1
  BY DEF Fail, Restart
<1>2. latest' \in [Pipelines -> [Keys -> 0..Len(records)]]
  <2>1. latest \in [Pipelines -> [Keys -> 0..Len(records)]]
    BY OnePipeline
  <2>2. \A k \in Keys : Loaded(k) \in 0..Len(records)
    BY LoadedIsNewest, NewestFacts DEF OrderInv
  <2>3. CASE Fail(p)
    BY <2>1, <2>3 DEF Fail
  <2>4. CASE Restart(p)
    <3>1. [k \in Keys |-> Loaded(k)] \in [Keys -> 0..Len(records)]
      BY <2>2
    <3>2. latest' = [latest EXCEPT ![p] = [k \in Keys |-> Loaded(k)]]
      BY <2>4 DEF Restart
    <3> QED BY <2>1, <3>1, <3>2
  <2> QED BY <2>3, <2>4
<1>3. failures' \in Nat
  BY <1>1, OnePipeline
<1> QED BY <1>1, <1>2, <1>3, OnePipeline, QuietOrder, NoBatch

\* Every step keeps OrderInv.
LEMMA OrderStep == OrderInv /\ [Next]_vars => OrderInv'
<1> SUFFICES ASSUME OrderInv, [Next]_vars PROVE OrderInv'
  OBVIOUS
<1>1. ASSUME NEW c \in Keys \cup {NoCandidate}, Dispatch(c) PROVE OrderInv'
  BY <1>1, DispatchOrder
<1>2. ASSUME NEW p \in Pipelines, RunOnce(p) PROVE OrderInv'
  BY <1>2, ReadCursorOrder, ReadEventsOrder, IgnoreOrder, CommitOrder, ReplayOrder, AckOrder
     DEF RunOnce
<1>3. ASSUME NEW p \in Pipelines, Fail(p) \/ Restart(p) PROVE OrderInv'
  BY <1>3, StoppedOrder
<1>4. CASE UNCHANGED vars
  <2>1. TypeOK' /\ BatchesOK' /\ RecordsOK'
    BY <1>4 DEF OrderInv, TypeOK, BatchesOK, RecordsOK, vars
  <2>2. NotAhead' /\ NoneSkipped'
    BY <1>4 DEF OrderInv, NotAhead, NoneSkipped, vars
  <2> QED BY <2>1, <2>2 DEF OrderInv
<1> QED BY <1>1, <1>2, <1>3, <1>4 DEF Next

\* OrderInv holds from the start.
LEMMA OrderStart == Init => OrderInv
<1> SUFFICES ASSUME Init PROVE OrderInv
  OBVIOUS
<1>1. Len(log) = 0 /\ Len(records) = 0 /\ \A p \in Pipelines : Len(batch[p]) = 0
  BY DEF Init
<1>2. TypeOK
  <2>1. receipt \in [1..Len(log) -> Int]
    <3>1. receipt \in Seq(Int) /\ Len(receipt) = 0
      BY DEF Init
    <3> QED BY <1>1, <3>1, LenProperties
  <2>2. cursor \in 0..Len(log) /\ since \in [Pipelines -> 0..Len(log)]
    BY <1>1 DEF Init
  <2>3. latest \in [Pipelines -> [Keys -> 0..Len(records)]]
    BY <1>1 DEF Init
  <2> QED BY <1>1, <2>1, <2>2, <2>3 DEF Init, TypeOK
<1>3. BatchesOK /\ RecordsOK
  BY <1>1 DEF Init, BatchesOK, RecordsOK
<1>4. NotAhead /\ NoneSkipped
  BY <1>1 DEF Init, NotAhead, NoneSkipped
<1> QED BY <1>2, <1>3, <1>4 DEF OrderInv

\* OrderInv is an invariant.
LEMMA OrderCorrect == Spec => []OrderInv
BY OrderStart, OrderStep, PTL DEF Spec

(***************************************************************************)
(* The tables, the cursor and what a pipeline has in hand stay within      *)
(* their types: no number points outside the log or the records.           *)
(***************************************************************************)
THEOREM TypeCorrect == Spec => []TypeOK
<1>1. OrderInv => TypeOK
  BY DEF OrderInv
<1> QED BY <1>1, OrderCorrect, PTL

(***************************************************************************)
(* No event is passed over, although the second acknowledgement of         *)
(* run_once may set the cursor back: events are handled in the order of    *)
(* the log and every event up to the cursor has been.                      *)
(***************************************************************************)
THEOREM NoneSkippedCorrect == Spec => []NoneSkipped
<1>1. OrderInv => NoneSkipped
  BY DEF OrderInv
<1> QED BY <1>1, OrderCorrect, PTL

-----------------------------------------------------------------------------

\* The records written so far, and the one a commit appends.
LEMMA CommitFacts ==
    ASSUME OrderInv, RememberedOnce, NEW p \in Pipelines, CommitRecord(p)
    PROVE  LET h == Head(batch[p])
               k == log[h]
               m == Newest(k)
               N == Len(records)
           IN  /\ N \in Nat /\ Len(records') = N + 1 /\ UNCHANGED log
               /\ h \in 1..Len(log) /\ k \in Keys /\ receipt[h] = -1
               /\ \A n \in 1..N : /\ records'[n] = records[n]
                                  /\ records[n].source \in 1..Len(log)
                                  /\ records[n].source < h
               /\ records'[N + 1].source = h /\ records'[N + 1].key = k
               /\ records'[N + 1].supersedes = m
               /\ records'[N + 1].revision = IF m = 0 THEN 1 ELSE records[m].revision + 1
               /\ \A i \in 1..Len(log) : receipt'[i] = IF i = h THEN N + 1 ELSE receipt[i]
<1> DEFINE h == Head(batch[p])
           k == log[h]
           m == Newest(k)
           N == Len(records)
           r == [source |-> h, key |-> k, supersedes |-> m,
                 revision |-> IF m = 0 THEN 1 ELSE records[m].revision + 1]
<1>1. N \in Nat /\ Len(log) \in Nat /\ records \in Seq(Record) /\ receipt \in [1..Len(log) -> Int]
  BY DEF OrderInv, TypeOK
<1>2. h \in 1..Len(log) /\ k \in Keys /\ receipt[h] = -1
  <2>1. batch[p] # <<>> /\ receipt[h] = -1
    BY DEF OrderInv, TypeOK, CommitRecord
  <2>2. h \in 1..Len(log)
    BY <2>1, AtHead DEF OrderInv
  <2> QED BY <1>1, <2>1, <2>2 DEF OrderInv, TypeOK, CommitRecord
<1>3. /\ records' = Append(records, r) /\ receipt' = [receipt EXCEPT ![h] = N + 1]
      /\ UNCHANGED log
  BY DEF CommitRecord, Previous
<1>4. /\ r.source = h /\ r.key = k /\ r.supersedes = m
      /\ r.revision = IF m = 0 THEN 1 ELSE records[m].revision + 1
  OBVIOUS
<1> HIDE DEF h, k, m, r
<1>5. Len(records') = N + 1 /\ records'[N + 1] = r /\ \A n \in 1..N : records'[n] = records[n]
  <2>1. records \in Seq(Record \cup {r}) /\ r \in Record \cup {r}
    BY <1>1, SeqMonotonic
  <2> QED BY <1>3, <2>1, AppendProperties
<1>6. ASSUME NEW n \in 1..N
      PROVE  records[n].source \in 1..Len(log) /\ records[n].source < h
  <2> DEFINE s == records[n].source
  <2>1. s \in 1..Len(log)
    BY DEF OrderInv, RecordsOK
  <2>2. receipt[s] = n
    BY DEF RememberedOnce
  <2> HIDE DEF s
  <2>3. s # h /\ receipt[s] # -1
    BY <1>1, <1>2, <2>2
  <2>4. ~(h < s)
    BY <1>2, <2>1, <2>3 DEF OrderInv, NoneSkipped
  <2>5. s < h
    BY <1>1, <1>2, <2>1, <2>3, <2>4
  <2> QED BY <2>1, <2>5 DEF s
<1>7. \A i \in 1..Len(log) : receipt'[i] = IF i = h THEN N + 1 ELSE receipt[i]
  BY <1>1, <1>2, <1>3
<1> QED BY <1>1, <1>2, <1>3, <1>4, <1>5, <1>6, <1>7 DEF h, k, m

\* Every step keeps RememberedOnce.
LEMMA RememberedStep == OrderInv /\ RememberedOnce /\ [Next]_vars => RememberedOnce'
<1> SUFFICES ASSUME OrderInv, RememberedOnce, [Next]_vars PROVE RememberedOnce'
  OBVIOUS
<1> DEFINE L == Len(log)
           N == Len(records)
<1>0. /\ L \in Nat /\ N \in Nat /\ receipt \in [1..L -> Int]
      /\ \A m \in 1..N : records[m].source \in 1..L
      /\ \A i \in 1..L : receipt[i] \in -1..N
  BY DEF OrderInv, TypeOK, RecordsOK
<1>1. ASSUME NEW c \in Keys \cup {NoCandidate}, Dispatch(c) PROVE RememberedOnce'
  <2>1. /\ Len(log') = L + 1 /\ \A i \in 1..L : log'[i] = log[i]
    BY <1>1, AppendProperties DEF OrderInv, TypeOK, Dispatch
  <2>2. receipt \in Seq(Int) /\ Len(receipt) = L
    BY ReceiptSeq DEF OrderInv
  <2>3. (\A i \in 1..L : receipt'[i] = receipt[i]) /\ receipt'[L + 1] = -1
    BY <1>1, <2>2, AppendProperties, -1 \in Int DEF Dispatch
  <2>4. UNCHANGED records
    BY <1>1 DEF Dispatch
  <2>5. \A i \in 1..(L + 1) : i \in 1..L \/ i = L + 1
    BY <1>0
  <2>6. ASSUME NEW i \in 1..(L + 1)
        PROVE  /\ receipt'[i] = 0 => log'[i] = NoCandidate
               /\ receipt'[i] > 0 => /\ records[receipt'[i]].source = i
                                     /\ records[receipt'[i]].key = log'[i]
    <3>1. CASE i \in 1..L
      BY <2>1, <2>3, <3>1 DEF RememberedOnce
    <3>2. CASE i = L + 1
      BY <2>3, <3>2
    <3> QED BY <2>5, <3>1, <3>2
  <2>7. \A m \in 1..N : receipt'[records[m].source] = m
    BY <1>0, <2>3 DEF RememberedOnce
  <2> QED BY <2>1, <2>4, <2>6, <2>7 DEF RememberedOnce
<1>2. ASSUME NEW p \in Pipelines, Ignore(p) PROVE RememberedOnce'
  <2> DEFINE h == Head(batch[p])
  <2>1. batch[p] # <<>>
    BY <1>2 DEF OrderInv, TypeOK, Ignore
  <2>2. h \in 1..L
    BY <2>1, AtHead DEF OrderInv
  <2>3. /\ receipt[h] = -1 /\ log[h] = NoCandidate /\ receipt' = [receipt EXCEPT ![h] = 0]
        /\ UNCHANGED <<log, records>>
    BY <1>2 DEF Ignore
  <2> HIDE DEF h
  <2>4. \A i \in 1..L : receipt'[i] = IF i = h THEN 0 ELSE receipt[i]
    BY <1>0, <2>2, <2>3
  <2>5. \A m \in 1..N : records[m].source # h
    <3>1. \A m \in 1..N : receipt[records[m].source] = m /\ m # -1
      BY <1>0 DEF RememberedOnce
    <3> QED BY <2>3, <3>1
  <2>6. \A m \in 1..N : receipt'[records[m].source] = m
    BY <1>0, <2>4, <2>5 DEF RememberedOnce
  <2>7. \A i \in 1..L : /\ receipt'[i] = 0 => log[i] = NoCandidate
                        /\ receipt'[i] > 0 => /\ records[receipt'[i]].source = i
                                              /\ records[receipt'[i]].key = log[i]
    BY <2>3, <2>4 DEF RememberedOnce
  <2> QED BY <2>3, <2>6, <2>7 DEF RememberedOnce
<1>3. ASSUME NEW p \in Pipelines, CommitRecord(p) PROVE RememberedOnce'
  <2> DEFINE h == Head(batch[p])
  <2>1. /\ Len(records') = N + 1 /\ UNCHANGED log
        /\ h \in 1..L /\ log[h] \in Keys
        /\ \A n \in 1..N : /\ records'[n] = records[n]
                           /\ records[n].source \in 1..L /\ records[n].source < h
        /\ records'[N + 1].source = h /\ records'[N + 1].key = log[h]
        /\ \A i \in 1..L : receipt'[i] = IF i = h THEN N + 1 ELSE receipt[i]
    BY <1>3, CommitFacts
  <2> HIDE DEF h, L, N
  <2>2. \A n \in 1..(N + 1) : n \in 1..N \/ n = N + 1
    BY <1>0
  <2>3. \A n \in 1..N : records[n].source # h /\ n # N + 1
    BY <1>0, <2>1
  <2>4. \A m, n \in 1..(N + 1) : records'[m].source = records'[n].source => m = n
    <3> SUFFICES ASSUME NEW m \in 1..(N + 1), NEW n \in 1..(N + 1),
                        records'[m].source = records'[n].source
                 PROVE  m = n
      OBVIOUS
    <3>1. CASE m \in 1..N /\ n \in 1..N
      BY <2>1, <3>1 DEF RememberedOnce, N
    <3>2. CASE m = N + 1 \/ n = N + 1
      BY <2>1, <2>2, <2>3, <3>2
    <3> QED BY <2>2, <3>1, <3>2
  <2>5. \A m \in 1..(N + 1) : receipt'[records'[m].source] = m
    <3> SUFFICES ASSUME NEW m \in 1..(N + 1) PROVE receipt'[records'[m].source] = m
      OBVIOUS
    <3>1. CASE m \in 1..N
      BY <2>1, <2>3, <3>1 DEF RememberedOnce, N
    <3>2. CASE m = N + 1
      BY <2>1, <3>2
    <3> QED BY <2>2, <3>1, <3>2
  <2>6. ASSUME NEW i \in 1..L
        PROVE  /\ receipt'[i] = 0 => log[i] = NoCandidate
               /\ receipt'[i] > 0 => /\ records'[receipt'[i]].source = i
                                     /\ records'[receipt'[i]].key = log[i]
    <3>1. CASE i = h
      BY <1>0, <2>1, <3>1
    <3>2. CASE i # h
      <4>1. receipt'[i] = receipt[i] /\ receipt[i] \in -1..N
        BY <1>0, <2>1, <3>2
      <4>2. /\ receipt[i] = 0 => log[i] = NoCandidate
            /\ receipt[i] > 0 => /\ records[receipt[i]].source = i
                                 /\ records[receipt[i]].key = log[i]
        BY DEF RememberedOnce, L
      <4>3. receipt[i] > 0 => receipt[i] \in 1..N
        BY <1>0, <4>1
      <4> QED BY <2>1, <4>1, <4>2, <4>3
    <3> QED BY <3>1, <3>2
  <2> QED BY <2>1, <2>4, <2>5, <2>6 DEF RememberedOnce, L
<1>4. CASE UNCHANGED <<log, receipt, records>>
  BY <1>4 DEF RememberedOnce
<1>5. ASSUME NEW p \in Pipelines,
             \/ ReadCursor(p) \/ ReadEvents(p) \/ Replay(p) \/ AckRead(p) \/ AckWrite(p)
             \/ Fail(p) \/ Restart(p)
      PROVE  UNCHANGED <<log, receipt, records>>
  BY <1>5 DEF ReadCursor, ReadEvents, Replay, AckRead, AckWrite, Fail, Restart
<1>6. UNCHANGED vars => UNCHANGED <<log, receipt, records>>
  BY DEF vars
<1> QED BY <1>1, <1>2, <1>3, <1>4, <1>5, <1>6 DEF Next, RunOnce

(***************************************************************************)
(* An event is remembered exactly once, however many pipelines read it and *)
(* however often: process_memory_event writes the record and the receipt   *)
(* that names it together, and looks for the receipt first.                *)
(***************************************************************************)
THEOREM RememberedOnceCorrect == Spec => []RememberedOnce
<1>1. Init => RememberedOnce
  BY DEF Init, RememberedOnce
<1> QED BY <1>1, RememberedStep, OrderCorrect, PTL DEF Spec

-----------------------------------------------------------------------------

\* The records of a key are finitely many, and so are those up to an event.
LEMMA OfFinite ==
    ASSUME TypeOK, NEW k, NEW s
    PROVE  /\ IsFiniteSet(Of(k)) /\ Cardinality(Of(k)) \in Nat
           /\ Cardinality({n \in Of(k) : records[n].source <= s}) <= Cardinality(Of(k))
<1>1. Len(records) \in Nat /\ Of(k) \subseteq 1..Len(records)
  BY DEF TypeOK, Of
<1>2. IsFiniteSet(Of(k))
  BY <1>1, FS_Interval, FS_Subset, 1 \in Int, Len(records) \in Int
<1>3. {n \in Of(k) : records[n].source <= s} \subseteq Of(k)
  OBVIOUS
<1> QED BY <1>2, <1>3, FS_Subset, FS_CardinalityType

\* In a chain, the revision of the newest record is the number of records of its key: the
\* record of the last event has that revision, and none can have more.
LEMMA NewestRevision ==
    ASSUME OrderInv, OneChain, NEW k
    PROVE  /\ Newest(k) = 0 => Cardinality(Of(k)) = 0
           /\ Newest(k) # 0 => /\ Newest(k) \in Of(k)
                               /\ records[Newest(k)].revision = Cardinality(Of(k))
<1> DEFINE m == Newest(k)
           N == Len(records)
           L == Len(log)
           C == Cardinality(Of(k))
           T == {L - records[n].source : n \in Of(k)}
<1>0. TypeOK /\ RecordsOK
  BY DEF OrderInv
<1>1. /\ Of(k) = {} => m = 0
      /\ Of(k) # {} => m \in Of(k) /\ \A n \in Of(k) : records[n].revision <= records[m].revision
  BY <1>0, NewestFacts
<1>2. L \in Nat /\ N \in Nat /\ Of(k) \subseteq 1..N /\ \A n \in Of(k) : records[n].key = k
  BY <1>0 DEF TypeOK, Of
<1>3. \A n \in 1..N : /\ records[n].source \in 1..L
                      /\ records[n].revision \in Nat
                      /\ records[n].revision =
                           Cardinality({j \in Of(records[n].key) : records[j].source <= records[n].source})
  BY <1>0, <1>2 DEF RecordsOK, OneChain
<1>4. \A n \in Of(k) : records[n].revision \in Nat /\ records[n].revision <= C
  <2> SUFFICES ASSUME NEW n \in Of(k)
               PROVE  records[n].revision \in Nat /\ records[n].revision <= C
    OBVIOUS
  <2>1. /\ records[n].revision \in Nat
        /\ records[n].revision = Cardinality({j \in Of(k) : records[j].source <= records[n].source})
    BY <1>2, <1>3
  <2>2. Cardinality({j \in Of(k) : records[j].source <= records[n].source}) <= C
    BY <1>0, OfFinite
  <2> QED BY <2>1, <2>2
<1>5. C \in Nat
  BY <1>0, OfFinite
<1>6. CASE Of(k) = {}
  BY <1>1, <1>6, FS_EmptySet
<1>7. CASE Of(k) # {}
  <2> HIDE DEF m, N, L, C
  <2>1. T \in SUBSET Nat /\ T # {}
    <3>1. \A n \in Of(k) : records[n].source \in 1..L
      BY <1>2, <1>3
    <3>2. \A n \in Of(k) : L - records[n].source \in Nat
      BY <1>2, <3>1
    <3> QED BY <1>7, <3>2
  <2>2. PICK x \in T : \A y \in T : x <= y
    <3> HIDE DEF T
    <3> QED BY <2>1, Least
  <2>3. PICK l \in Of(k) : x = L - records[l].source
    BY <2>2
  <2>4. \A n \in Of(k) : records[n].source <= records[l].source
    <3> SUFFICES ASSUME NEW n \in Of(k) PROVE records[n].source <= records[l].source
      OBVIOUS
    <3>1. L - records[l].source <= L - records[n].source
      BY <2>2, <2>3
    <3>2. records[n].source \in 1..L /\ records[l].source \in 1..L
      BY <1>2, <1>3
    <3> QED BY <1>2, <3>1, <3>2
  <2>5. records[l].revision = C
    <3>1. {n \in Of(k) : records[n].source <= records[l].source} = Of(k)
      BY <2>4
    <3> QED BY <1>2, <1>3, <3>1 DEF C
  <2>6. m \in Of(k) /\ records[l].revision <= records[m].revision
    BY <1>1, <1>7
  <2>7. records[m].revision \in Nat /\ records[m].revision <= C
    BY <1>4, <2>6
  <2>8. records[m].revision = C
    BY <1>5, <2>5, <2>6, <2>7
  <2>9. m # 0
    BY <1>2, <2>6
  <2> QED BY <2>6, <2>8, <2>9 DEF m, C
<1> QED BY <1>6, <1>7

\* A commit adds the next link to the chain of its key and leaves the others alone.
LEMMA CommitChain ==
    ASSUME OrderInv, RememberedOnce, OneChain, NEW p \in Pipelines, CommitRecord(p)
    PROVE  OneChain'
<1> DEFINE h == Head(batch[p])
           k == log[h]
           m == Newest(k)
           N == Len(records)
           O(j) == {n \in 1..(N + 1) : records'[n].key = j}
<1>1. N \in Nat /\ Len(records') = N + 1
  BY CommitFacts
<1>2. h \in 1..Len(log) /\ Len(log) \in Nat
  BY CommitFacts DEF OrderInv, TypeOK
<1>3. \A n \in 1..N : /\ records'[n] = records[n]
                      /\ records[n].source \in 1..Len(log)
                      /\ records[n].source < h
  BY CommitFacts
<1>4. /\ records'[N + 1].source = h /\ records'[N + 1].key = k
      /\ records'[N + 1].supersedes = m
      /\ records'[N + 1].revision = IF m = 0 THEN 1 ELSE records[m].revision + 1
  BY CommitFacts
<1>5. \A n \in 1..N : records[n].supersedes \in 0..(n - 1) /\ records[n].revision \in 1..n
  BY DEF OrderInv, RecordsOK
<1>6. /\ m = 0 => Cardinality(Of(k)) = 0
      /\ m # 0 => m \in Of(k) /\ records[m].revision = Cardinality(Of(k))
  BY NewestRevision
<1>7. IsFiniteSet(Of(k)) /\ Cardinality(Of(k)) \in Nat
  BY OfFinite DEF OrderInv
<1>8. \A j : Of(j) \subseteq 1..N /\ \A n \in 1..N : n \in Of(j) <=> records[n].key = j
  BY DEF Of
<1>9. \A j : O(j) = Of(j) \cup (IF j = k THEN {N + 1} ELSE {})
  <2> HIDE DEF N, k
  <2>2. \A n \in 1..(N + 1) : n \in 1..N \/ n = N + 1
    BY <1>1
  <2>3. N + 1 \in 1..(N + 1) /\ 1..N \subseteq 1..(N + 1)
    BY <1>1
  <2> QED BY <1>3, <1>4, <1>8, <2>2, <2>3
<1> HIDE DEF h, k, m, N
<1>10. N + 1 \notin Of(k)
  BY <1>1, <1>8
<1> DEFINE Link(n) == LET r == records'[n] IN
             /\ r.revision = Cardinality({j \in O(r.key) : records'[j].source <= r.source})
             /\ r.supersedes = 0 <=> r.revision = 1
             /\ r.supersedes # 0 => /\ records'[r.supersedes].key = r.key
                                    /\ records'[r.supersedes].revision = r.revision - 1
<1> SUFFICES ASSUME NEW n \in 1..(N + 1) PROVE Link(n)
  BY <1>1 DEF OneChain, Of
<1> HIDE DEF O
<1>11. CASE n \in 1..N
  <2> DEFINE r == records[n]
  <2>1. records'[n] = r /\ r.source < h /\ r.source \in 1..Len(log)
    BY <1>3, <1>11
  <2>2. /\ r.revision = Cardinality({j \in Of(r.key) : records[j].source <= r.source})
        /\ r.supersedes = 0 <=> r.revision = 1
        /\ r.supersedes # 0 => /\ records[r.supersedes].key = r.key
                               /\ records[r.supersedes].revision = r.revision - 1
    BY <1>11 DEF OneChain, N
  <2>3. {j \in O(r.key) : records'[j].source <= r.source} =
          {j \in Of(r.key) : records[j].source <= r.source}
    <3>1. ~(records'[N + 1].source <= r.source)
      BY <1>2, <1>4, <2>1
    <3>2. \A j \in Of(r.key) : records'[j] = records[j]
      BY <1>3, <1>8
    <3> HIDE DEF r
    <3> QED BY <1>9, <3>1, <3>2
  <2>4. r.supersedes # 0 => r.supersedes \in 1..N
    BY <1>1, <1>5, <1>11
  <2>5. r.supersedes # 0 => records'[r.supersedes] = records[r.supersedes]
    BY <1>3, <2>4
  <2> HIDE DEF r
  <2> QED BY <2>1, <2>2, <2>3, <2>5
<1>12. CASE n = N + 1
  <2> DEFINE r == records'[N + 1]
  <2>1. {j \in O(k) : records'[j].source <= h} = Of(k) \cup {N + 1}
    <3>1. records'[N + 1].source <= h
      BY <1>2, <1>4
    <3>2. \A j \in Of(k) : records'[j].source <= h
      <4> SUFFICES ASSUME NEW j \in Of(k) PROVE records'[j].source <= h
        OBVIOUS
      <4>1. j \in 1..N
        BY <1>8
      <4> QED BY <1>2, <1>3, <4>1
    <3>3. O(k) = Of(k) \cup {N + 1}
      BY <1>9
    <3> QED BY <3>1, <3>2, <3>3
  <2>2. Cardinality(Of(k) \cup {N + 1}) = Cardinality(Of(k)) + 1
    BY <1>7, <1>10, FS_AddElement
  <2>3. r.revision = Cardinality(Of(k)) + 1
    BY <1>4, <1>6, <1>7
  <2>4. m = 0 <=> r.revision = 1
    <3>1. m # 0 => m \in 1..N
      BY <1>6, <1>8
    <3>2. m # 0 => records[m].revision \in Nat \ {0}
      BY <1>1, <1>5, <3>1
    <3> QED BY <1>4, <3>2
  <2>5. m # 0 => records'[m].key = k /\ records'[m].revision = r.revision - 1
    <3> SUFFICES ASSUME m # 0
                 PROVE  records'[m].key = k /\ records'[m].revision = r.revision - 1
      OBVIOUS
    <3>1. m \in 1..N /\ records[m].key = k
      BY <1>6, <1>8
    <3>2. records'[m] = records[m] /\ records[m].revision = Cardinality(Of(k))
      BY <1>3, <1>6, <3>1
    <3> QED BY <1>7, <2>3, <3>1, <3>2
  <2> QED BY <1>4, <1>12, <2>1, <2>2, <2>3, <2>4, <2>5
<1>13. n \in 1..N \/ n = N + 1
  BY <1>1
<1> QED BY <1>11, <1>12, <1>13

(***************************************************************************)
(* The records of a key form one chain of revisions in the order of their  *)
(* events, whichever process wrote them: process_memory_event looks for    *)
(* the previous record in its own transaction, so that the copy of a       *)
(* process in latest_by_key, which may be old, never decides.              *)
(***************************************************************************)
THEOREM OneChainCorrect == Spec => []OneChain
<1>1. Init => OneChain
  BY DEF Init, OneChain
<1>2. OrderInv /\ RememberedOnce /\ OneChain /\ [Next]_vars => OneChain'
  <2> SUFFICES ASSUME OrderInv, RememberedOnce, OneChain, [Next]_vars PROVE OneChain'
    OBVIOUS
  <2>1. ASSUME NEW p \in Pipelines, CommitRecord(p) PROVE OneChain'
    BY <2>1, CommitChain
  <2>2. CASE UNCHANGED records
    BY <2>2 DEF OneChain, Of
  <2>3. ASSUME NEW c, Dispatch(c) PROVE UNCHANGED records
    BY <2>3 DEF Dispatch
  <2>4. ASSUME NEW p \in Pipelines,
               \/ ReadCursor(p) \/ ReadEvents(p) \/ Ignore(p) \/ Replay(p)
               \/ AckRead(p) \/ AckWrite(p) \/ Fail(p) \/ Restart(p)
        PROVE  UNCHANGED records
    BY <2>4 DEF ReadCursor, ReadEvents, Ignore, Replay, AckRead, AckWrite, Fail, Restart
  <2>5. UNCHANGED vars => UNCHANGED records
    BY DEF vars
  <2> QED BY <2>1, <2>2, <2>3, <2>4, <2>5 DEF Next, RunOnce
<1> QED BY <1>1, <1>2, OrderCorrect, RememberedOnceCorrect, PTL DEF Spec
=============================================================================
