-------------------------- MODULE TaskLeases_proofs --------------------------
(***************************************************************************)
(* Proofs about TaskLeases, for every set of tasks and owners, every lease *)
(* term, every delay between the clock and the lock, and every bound.      *)
(***************************************************************************)
EXTENDS TaskLeases, TLAPS

(***************************************************************************)
(* A reading of the clock is a positive time that is not in the future.    *)
(***************************************************************************)
LEMMA ReadingsBound ==
    ASSUME TypeOK, NEW since \in Nat \ {0}, NEW ts \in Readings(since)
    PROVE  ts \in Nat /\ 1 <= ts /\ ts <= clock
BY DEF TypeOK, Readings

(***************************************************************************)
(* A handle was returned at a positive time.                               *)
(***************************************************************************)
LEMMA IssuedAfterStart ==
    ASSUME TypeOK, LeaseHistory, NEW h \in issued
    PROVE  h.returned_at \in Nat \ {0}
BY DEF TypeOK, LeaseHistory

(***************************************************************************)
(* The rows, handles, queue and clock keep their types.                    *)
(***************************************************************************)
THEOREM TypeCorrect == Spec => []TypeOK
<1>1. Init => TypeOK
  BY OwnersAssumption DEF Init, TypeOK, Rows, NoRow, Handles
<1>2. TypeOK /\ [Next]_vars => TypeOK'
  <2> SUFFICES ASSUME TypeOK, [Next]_vars PROVE TypeOK'
    OBVIOUS
  <2> USE DEF TypeOK
  <2>1. CASE Tick
    BY <2>1 DEF Tick
  <2>2. ASSUME NEW t \in Tasks, Submit(t) PROVE TypeOK'
    BY <2>2 DEF Submit
  <2>3. ASSUME NEW t \in Tasks, Dequeue(t) PROVE TypeOK'
    BY <2>3 DEF Dequeue
  <2>4. ASSUME NEW o \in Owners, NEW d \in LeaseSeconds, NEW ts \in Readings(1),
               ClaimNextTask(o, d, ts)
        PROVE  TypeOK'
    <3>1. PICK t \in Claimable(ts) :
            /\ lease' = [lease EXCEPT ![t] =
                           [owner |-> o, generation |-> NextGeneration(lease[t]),
                            lease_until |-> LeaseEnd(ts, d)]]
            /\ issued' = issued \cup
                 {[task |-> t, owner |-> o, generation |-> NextGeneration(lease[t]),
                   returned_at |-> clock]}
            /\ UNCHANGED <<clock, queued, queuedAt>>
      BY <2>4 DEF ClaimNextTask
    <3>2. t \in Tasks /\ lease[t] \in Rows
      BY DEF Claimable
    <3>3. NextGeneration(lease[t]) \in Nat /\ LeaseEnd(ts, d) \in Nat
      BY <3>2, ReadingsBound, LeaseSecondsAssumption DEF Rows, NextGeneration, LeaseEnd
    <3>4. [owner |-> o, generation |-> NextGeneration(lease[t]),
           lease_until |-> LeaseEnd(ts, d)] \in Rows
      BY <3>3 DEF Rows
    <3>5. [task |-> t, owner |-> o, generation |-> NextGeneration(lease[t]),
           returned_at |-> clock] \in Handles
      BY <3>2, <3>3 DEF Handles
    <3> QED BY <3>1, <3>2, <3>4, <3>5
  <2>5. ASSUME NEW h \in issued, NEW d \in LeaseSeconds, NEW ts \in Readings(h.returned_at),
               RenewTaskLease(h, d, ts)
        PROVE  TypeOK'
    <3>1. LeaseEnd(ts, d) \in Nat
      BY LeaseSecondsAssumption DEF Readings, Handles, LeaseEnd
    <3> QED BY <2>5, <3>1 DEF RenewTaskLease, Rows, Handles
  <2>6. ASSUME NEW h \in issued, ReleaseTaskLease(h) PROVE TypeOK'
    BY <2>6 DEF ReleaseTaskLease, Rows, Handles
  <2>7. CASE UNCHANGED vars
    BY <2>7 DEF vars
  <2> QED BY <2>1, <2>2, <2>3, <2>4, <2>5, <2>6, <2>7 DEF Next
<1> QED BY <1>1, <1>2, PTL DEF Spec

(***************************************************************************)
(* LeaseHistory is inductive relative to TypeOK: generations only grow, so *)
(* the handle a claim issues differs from every handle issued before.      *)
(***************************************************************************)
THEOREM HistoryCorrect == Spec => []LeaseHistory
<1>1. Init => LeaseHistory
  BY DEF Init, LeaseHistory, NoRow
<1>2. TypeOK /\ LeaseHistory /\ [Next]_vars => LeaseHistory'
  <2> SUFFICES ASSUME TypeOK, LeaseHistory, [Next]_vars PROVE LeaseHistory'
    OBVIOUS
  <2>1. ASSUME UNCHANGED <<lease, issued>>, clock' = clock \/ clock' = clock + 1
        PROVE  LeaseHistory'
    BY <2>1 DEF LeaseHistory, Matches, TypeOK, Handles
  <2>2. ASSUME NEW o \in Owners, NEW d \in LeaseSeconds, NEW ts \in Readings(1),
               ClaimNextTask(o, d, ts)
        PROVE  LeaseHistory'
    <3>1. PICK t \in Claimable(ts) :
            /\ lease' = [lease EXCEPT ![t] =
                           [owner |-> o, generation |-> NextGeneration(lease[t]),
                            lease_until |-> LeaseEnd(ts, d)]]
            /\ issued' = issued \cup
                 {[task |-> t, owner |-> o, generation |-> NextGeneration(lease[t]),
                   returned_at |-> clock]}
      BY <2>2 DEF ClaimNextTask
    <3> DEFINE new == [task |-> t, owner |-> o, generation |-> NextGeneration(lease[t]),
                       returned_at |-> clock]
    <3>2. t \in Tasks /\ lease[t].generation \in Nat
      BY DEF Claimable, TypeOK, Rows
    <3>3. /\ NextGeneration(lease[t]) = lease[t].generation + 1
          /\ lease'[t].generation = lease[t].generation + 1
          /\ lease'[t].owner = o
          /\ \A u \in Tasks \ {t} : lease'[u] = lease[u]
      BY <3>1, <3>2 DEF TypeOK, NextGeneration
    <3>4. \A h \in issued : h.task \in Tasks /\ h.generation \in Nat
      BY DEF TypeOK, Handles
    <3>5. \A h \in issued' : h.generation \in 1..lease'[h.task].generation
      BY <3>1, <3>2, <3>3, <3>4 DEF LeaseHistory
    <3>6. \A u \in Tasks : lease'[u].generation > 0 =>
            \E h \in issued' : /\ h.task = u
                               /\ lease'[u].owner = h.owner
                               /\ lease'[u].generation = h.generation
      <4> SUFFICES ASSUME NEW u \in Tasks, lease'[u].generation > 0
                   PROVE  \E h \in issued' : /\ h.task = u
                                              /\ lease'[u].owner = h.owner
                                              /\ lease'[u].generation = h.generation
        OBVIOUS
      <4>1. CASE u = t
        <5>1. /\ new \in issued' /\ new.task = t
              /\ lease'[t].owner = new.owner /\ lease'[t].generation = new.generation
          BY <3>1, <3>3
        <5> QED BY <4>1, <5>1
      <4>2. CASE u # t
        <5>1. PICK h \in issued : h.task = u /\ Matches(h)
          BY <3>3, <4>2 DEF LeaseHistory
        <5>2. /\ h \in issued'
              /\ lease'[u].owner = h.owner /\ lease'[u].generation = h.generation
          BY <3>1, <3>3, <4>2, <5>1 DEF Matches
        <5> QED BY <5>1, <5>2
      <4> QED BY <4>1, <4>2
    <3>7. \A u \in Tasks : lease'[u].generation = 0 => lease'[u] = NoRow
      BY <3>2, <3>3 DEF LeaseHistory
    <3>8. \A g \in issued : ~(g.task = t /\ g.generation = new.generation)
      BY <3>2, <3>3, <3>4 DEF LeaseHistory
    <3>9. \A g, h \in issued' : g.task = h.task /\ g.generation = h.generation => g = h
      BY <3>1, <3>8 DEF LeaseHistory
    <3>10. clock' = clock /\ clock \in Nat \ {0}
      BY <2>2 DEF ClaimNextTask, TypeOK
    <3>11. \A h \in issued' : h.returned_at \in 1..clock'
      BY <3>1, <3>10 DEF LeaseHistory
    <3> QED BY <3>5, <3>6, <3>7, <3>9, <3>11 DEF LeaseHistory, Matches
  <2>3. ASSUME NEW h \in issued, NEW e \in Nat, Matches(h),
               lease' = [lease EXCEPT ![h.task].lease_until = e], UNCHANGED <<issued, clock>>
        PROVE  LeaseHistory'
    <3>1. h.task \in Tasks /\ h.generation \in Nat
      BY DEF TypeOK, Handles
    <3>2. \A t \in Tasks : /\ lease'[t].owner = lease[t].owner
                           /\ lease'[t].generation = lease[t].generation
                           /\ t # h.task => lease'[t] = lease[t]
      BY <2>3, <3>1 DEF TypeOK, Rows
    <3>3. lease[h.task].generation # 0
      BY <2>3, <3>1 DEF LeaseHistory, Matches
    <3>4. \A g \in issued : g.task \in Tasks
      BY DEF TypeOK, Handles
    <3> QED BY <2>3, <3>1, <3>2, <3>3, <3>4 DEF LeaseHistory, Matches
  <2>4. ASSUME NEW h \in issued, NEW d \in LeaseSeconds, NEW ts \in Readings(h.returned_at),
               RenewTaskLease(h, d, ts)
        PROVE  LeaseHistory'
    <3>1. LeaseEnd(ts, d) \in Nat
      BY IssuedAfterStart, ReadingsBound, LeaseSecondsAssumption DEF LeaseEnd
    <3> QED BY <2>3, <2>4, <3>1 DEF RenewTaskLease
  <2>5. ASSUME NEW h \in issued, ReleaseTaskLease(h) PROVE LeaseHistory'
    BY <2>3, <2>5 DEF ReleaseTaskLease
  <2> QED
    BY <2>1, <2>2, <2>4, <2>5 DEF Next, vars, Tick, Submit, Dequeue
<1> QED BY <1>1, <1>2, TypeCorrect, PTL DEF Spec

(***************************************************************************)
(* Two different handles of one task are never valid together: a handle is *)
(* valid only with the generation of the row, and LeaseHistory says one    *)
(* generation names one handle.                                            *)
(***************************************************************************)
THEOREM FencingCorrect == Spec => []OneValidHandle
<1>1. TypeOK /\ LeaseHistory => OneValidHandle
  BY DEF TypeOK, LeaseHistory, OneValidHandle, ValidateTaskLease, Matches
<1> QED BY <1>1, TypeCorrect, HistoryCorrect, PTL

(***************************************************************************)
(* How a new end of the row of t changes the grant it stands for: only its *)
(* status moves, to what the new end says.                                 *)
(***************************************************************************)
LEMMA RowEnd ==
    ASSUME TypeOK, NEW t \in Tasks, NEW e \in Nat,
           lease[t].generation # 0, clock' = clock,
           lease' = [lease EXCEPT ![t].lease_until = e]
    PROVE  GrantOf' = [GrantOf EXCEPT ![t].status =
              IF e = 0 THEN "released" ELSE IF e > clock THEN "live" ELSE "lapsed"]
<1> DEFINE s == IF e = 0 THEN "released" ELSE IF e > clock THEN "live" ELSE "lapsed"
<1>1. /\ lease'[t].owner = lease[t].owner
      /\ lease'[t].generation = lease[t].generation
      /\ lease'[t].lease_until = e
      /\ \A u \in Tasks \ {t} : lease'[u] = lease[u]
  BY DEF TypeOK, Rows
<1>2. \A u \in Tasks \ {t} : GrantOf'[u] = GrantOf[u]
  BY <1>1 DEF GrantOf, StatusOf
<1>3. GrantOf'[t] = [owner |-> lease[t].owner, id |-> lease[t].generation, status |-> s]
  BY <1>1 DEF GrantOf, StatusOf
<1>4. [GrantOf[t] EXCEPT !.status = s] =
        [owner |-> lease[t].owner, id |-> lease[t].generation, status |-> s]
  BY DEF GrantOf
<1>5. /\ GrantOf' = [u \in Tasks |-> GrantOf'[u]]
      /\ GrantOf = [u \in Tasks |-> GrantOf[u]]
  BY DEF GrantOf
<1> HIDE DEF s
<1> QED BY <1>2, <1>3, <1>4, <1>5 DEF s

(***************************************************************************)
(* The rows implement the abstract lease.  A claim finds lease_until at or *)
(* before a reading of the clock, hence at or before the clock: the grant  *)
(* it replaces is not live.  A renewal finds lease_until after a reading   *)
(* that is at least 1: the lease it extends was not released.  A tick      *)
(* lapses the leases that end at the new time.                             *)
(***************************************************************************)
THEOREM Refinement == Spec => ImplementsFencedLease
<1>1. Init => Fenced!Init
  BY DEF Init, Fenced!Init, GrantOf, StatusOf, NoRow, Fenced!NoGrant
<1>2. TypeOK /\ LeaseHistory /\ [Next]_vars => [Fenced!Next]_GrantOf
  <2> SUFFICES ASSUME TypeOK, LeaseHistory, [Next]_vars
               PROVE  Fenced!Next \/ UNCHANGED GrantOf
    OBVIOUS
  <2>1. CASE Tick
    <3> DEFINE K == {t \in Tasks : GrantOf[t].status = "live" /\ GrantOf'[t].status # "live"}
    <3>1. clock' = clock + 1 /\ clock \in Nat /\ lease' = lease
      BY <2>1 DEF Tick, TypeOK
    <3>2. \A t \in K : GrantOf[t].status = "live"
      OBVIOUS
    <3>3. \A t \in Tasks : lease[t].lease_until \in Nat
      BY DEF TypeOK, Rows
    <3>4. GrantOf' = [t \in Tasks |-> IF t \in K THEN [GrantOf[t] EXCEPT !.status = "lapsed"]
                                                  ELSE GrantOf[t]]
      <4>1. ASSUME NEW t \in Tasks
            PROVE  GrantOf'[t] = IF t \in K THEN [GrantOf[t] EXCEPT !.status = "lapsed"]
                                            ELSE GrantOf[t]
        <5>1. CASE StatusOf(lease[t])' = StatusOf(lease[t])
          BY <3>1, <5>1 DEF GrantOf
        <5>2. CASE StatusOf(lease[t])' # StatusOf(lease[t])
          <6>1. StatusOf(lease[t]) = "live" /\ StatusOf(lease[t])' = "lapsed"
            BY <3>1, <3>3, <5>2 DEF StatusOf
          <6> QED BY <3>1, <6>1 DEF GrantOf
        <5> QED BY <5>1, <5>2
      <4> QED BY <4>1 DEF GrantOf
    <3>5. Fenced!Lapse(K)
      BY <3>2, <3>4 DEF Fenced!Lapse
    <3> QED BY <3>5 DEF Fenced!Next
  <2>2. CASE UNCHANGED <<clock, lease>>
    BY <2>2 DEF GrantOf, StatusOf
  <2>3. ASSUME NEW o \in Owners, NEW d \in LeaseSeconds, NEW ts \in Readings(1),
               ClaimNextTask(o, d, ts)
        PROVE  Fenced!Next
    <3>1. PICK t \in Claimable(ts) :
            /\ lease' = [lease EXCEPT ![t] =
                           [owner |-> o, generation |-> NextGeneration(lease[t]),
                            lease_until |-> LeaseEnd(ts, d)]]
            /\ clock' = clock
      BY <2>3 DEF ClaimNextTask
    <3> DEFINE s == IF ts + d > clock THEN "live" ELSE "lapsed"
    <3>2. /\ t \in Tasks
          /\ lease[t].generation \in Nat
          /\ lease[t].lease_until \in Nat
          /\ lease[t].lease_until <= ts
      BY DEF Claimable, TypeOK, Rows
    <3>3. ts \in Nat /\ ts <= clock /\ clock \in Nat /\ d \in Nat /\ d > 0
      BY ReadingsBound, LeaseSecondsAssumption DEF TypeOK
    <3>4. GrantOf[t].status # "live"
      BY <3>2, <3>3 DEF GrantOf, StatusOf
    <3>5. /\ lease'[t] = [owner |-> o, generation |-> lease[t].generation + 1,
                          lease_until |-> ts + d]
          /\ \A u \in Tasks \ {t} : lease'[u] = lease[u]
      BY <3>1, <3>2 DEF TypeOK, NextGeneration, LeaseEnd
    <3>6. GrantOf'[t] = [owner |-> o, id |-> GrantOf[t].id + 1, status |-> s]
      BY <3>1, <3>2, <3>3, <3>5 DEF GrantOf, StatusOf
    <3>7. \A u \in Tasks \ {t} : GrantOf'[u] = GrantOf[u]
      BY <3>1, <3>5 DEF GrantOf, StatusOf
    <3>8. GrantOf' = [GrantOf EXCEPT ![t] =
                        [owner |-> o, id |-> GrantOf[t].id + 1, status |-> s]]
      <4>1. /\ GrantOf' = [u \in Tasks |-> GrantOf'[u]]
            /\ GrantOf = [u \in Tasks |-> GrantOf[u]]
        BY DEF GrantOf
      <4> HIDE DEF s
      <4> QED BY <3>6, <3>7, <4>1
    <3>9. s \in {"live", "lapsed"} /\ s \in Fenced!Status
      BY DEF Fenced!Status
    <3>10. Fenced!Grant(t, o, s)
      <4> HIDE DEF s
      <4> QED BY <3>4, <3>8, <3>9 DEF Fenced!Grant
    <3> HIDE DEF s
    <3> QED BY <3>2, <3>9, <3>10 DEF Fenced!Next
  <2>4. ASSUME NEW h \in issued, NEW d \in LeaseSeconds, NEW ts \in Readings(h.returned_at),
               RenewTaskLease(h, d, ts)
        PROVE  Fenced!Next
    <3> DEFINE e == LeaseEnd(ts, d)
               s == IF e > clock THEN "live" ELSE "lapsed"
    <3>1. /\ h.task \in Tasks
          /\ lease[h.task].generation # 0
          /\ lease[h.task].lease_until \in Nat
          /\ lease[h.task].lease_until > ts
      BY <2>4 DEF TypeOK, Handles, Rows, LeaseHistory, RenewTaskLease, Matches
    <3>2. ts \in Nat /\ clock \in Nat /\ e \in Nat /\ e # 0 /\ 1 <= ts
      BY IssuedAfterStart, ReadingsBound, LeaseSecondsAssumption DEF TypeOK, LeaseEnd
    <3>3. GrantOf[h.task].status \in {"live", "lapsed"}
      BY <3>1, <3>2 DEF GrantOf, StatusOf
    <3>4. clock' = clock /\ lease' = [lease EXCEPT ![h.task].lease_until = e]
      BY <2>4 DEF RenewTaskLease
    <3>5. GrantOf' = [GrantOf EXCEPT ![h.task].status = s]
      <4> HIDE DEF e
      <4> QED BY <3>1, <3>2, <3>4, RowEnd
    <3>6. s \in {"live", "lapsed"} /\ s \in Fenced!Status
      BY DEF Fenced!Status
    <3> HIDE DEF s
    <3>7. Fenced!Extend(h.task, s)
      BY <3>3, <3>5, <3>6 DEF Fenced!Extend
    <3> QED BY <3>1, <3>6, <3>7 DEF Fenced!Next
  <2>5. ASSUME NEW h \in issued, ReleaseTaskLease(h)
        PROVE  Fenced!Next
    <3>1. h.task \in Tasks /\ lease[h.task].generation # 0
      BY <2>5 DEF TypeOK, Handles, LeaseHistory, ReleaseTaskLease, Matches
    <3>2. clock' = clock /\ lease' = [lease EXCEPT ![h.task].lease_until = 0]
      BY <2>5 DEF ReleaseTaskLease
    <3>3. GrantOf[h.task].status # "never"
      BY <3>1 DEF GrantOf, StatusOf
    <3>4. GrantOf' = [GrantOf EXCEPT ![h.task].status = "released"]
      BY <3>1, <3>2, RowEnd
    <3>5. Fenced!Release(h.task)
      BY <3>3, <3>4 DEF Fenced!Release
    <3> QED BY <3>1, <3>5 DEF Fenced!Next
  <2> QED
    BY <2>1, <2>2, <2>3, <2>4, <2>5 DEF Next, vars, Submit, Dequeue
<1> QED
  BY <1>1, <1>2, TypeCorrect, HistoryCorrect, PTL
     DEF Spec, ImplementsFencedLease, Fenced!Spec

(***************************************************************************)
(* A claim prefers what it should: it takes the first, by lane, priority   *)
(* and age, of the queued tasks that were free for the whole delay.  A     *)
(* claim that works with an old timestamp sees those as free too, since    *)
(* the timestamp is at most Delay behind the clock.                        *)
(***************************************************************************)
THEOREM ClaimOrderCorrect == Spec => ClaimTakesFirst
<1> DEFINE First(t, u) ==
             /\ u \in Interactive => t \in Interactive
             /\ LaneRank(t) = LaneRank(u) =>
                  /\ Priority[t] >= Priority[u]
                  /\ Priority[t] = Priority[u] => queuedAt[t] <= queuedAt[u]
<1>1. ASSUME TypeOK, NEW t \in Tasks, NEW u \in Tasks, Before(t, u) PROVE First(t, u)
  <2>1. /\ Priority[t] \in Int /\ Priority[u] \in Int
        /\ queuedAt[t] \in Nat /\ queuedAt[u] \in Nat
    BY <1>1, PriorityAssumption DEF TypeOK
  <2>2. u \in Interactive => t \in Interactive
    BY <1>1 DEF Before, LaneRank
  <2>3. LaneRank(t) \in Nat /\ LaneRank(u) \in Nat
    BY DEF LaneRank
  <2> QED BY <1>1, <2>1, <2>2, <2>3 DEF Before
<1>2. ASSUME TypeOK, NEW t \in Tasks PROVE First(t, t)
  BY <1>2, PriorityAssumption DEF TypeOK
<1>3. TypeOK /\ [Next]_vars =>
        [\A t, u \in Tasks :
            /\ lease'[t].generation # lease[t].generation
            /\ u \in queued
            /\ lease[u].lease_until + Delay <= clock
            => First(t, u)]_vars
  <2> SUFFICES ASSUME TypeOK, Next, NEW t \in Tasks, NEW u \in Tasks,
                      lease'[t].generation # lease[t].generation,
                      u \in queued, lease[u].lease_until + Delay <= clock
               PROVE  First(t, u)
    OBVIOUS
  <2> HIDE DEF First
  <2>1. PICK o \in Owners, d \in LeaseSeconds, ts \in Readings(1) : ClaimNextTask(o, d, ts)
    <3>1. \A h \in issued : h.task \in Tasks
      BY DEF TypeOK, Handles
    <3>2. ASSUME NEW h \in issued, NEW e, lease' = [lease EXCEPT ![h.task].lease_until = e]
          PROVE  FALSE
      <4>1. lease'[t].generation = lease[t].generation
        BY <3>1, <3>2 DEF TypeOK, Rows
      <4> QED BY <4>1
    <3>3. lease' # lease
      OBVIOUS
    <3> QED BY <3>2, <3>3 DEF Next, Tick, Submit, Dequeue, RenewTaskLease, ReleaseTaskLease
  <2>2. PICK c \in Claimable(ts) :
          /\ \A v \in Claimable(ts) \ {c} : Before(c, v)
          /\ lease' = [lease EXCEPT ![c] =
                         [owner |-> o, generation |-> NextGeneration(lease[c]),
                          lease_until |-> LeaseEnd(ts, d)]]
    BY <2>1 DEF ClaimNextTask
  <2>3. c = t
    BY <2>2 DEF TypeOK
  <2>4. u \in Claimable(ts)
    <3>1. ts \in Nat /\ clock \in Nat /\ ts + Delay >= clock /\ lease[u].lease_until \in Nat
      BY DEF Readings, TypeOK, Rows
    <3>2. lease[u].lease_until <= ts
      BY <3>1, BoundsAssumption
    <3> QED BY <3>2 DEF Claimable
  <2> QED BY <1>1, <1>2, <2>2, <2>3, <2>4
<1> QED BY <1>3, TypeCorrect, PTL DEF Spec, ClaimTakesFirst
=============================================================================
