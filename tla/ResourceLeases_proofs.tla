------------------------ MODULE ResourceLeases_proofs ------------------------
(***************************************************************************)
(* Proofs about ResourceLeases, for every set of tasks, owners, labels and *)
(* requests, every capacity, every term, every delay and every bound.      *)
(* ResourceBroker follows at the end.                                      *)
(***************************************************************************)
EXTENDS ResourceBroker, FiniteSetTheorems, TLAPS

(***************************************************************************)
(* Every request a capability may make is a ResourceRequest, and so is the *)
(* empty one.                                                              *)
(***************************************************************************)
LEMMA RequestsTyped == Requests \subseteq ResourceRequest /\ NoRequest \in ResourceRequest
<1>1. ASSUME NEW r \in Requests PROVE r \in ResourceRequest
  <2>1. /\ r.units \in [Dims -> Nat]
        /\ r.exclusive_labels \in SUBSET Labels
        /\ r = [units |-> r.units, exclusive_labels |-> r.exclusive_labels]
    BY RequestsAssumption
  <2>2. [units |-> r.units, exclusive_labels |-> r.exclusive_labels] \in ResourceRequest
    BY <2>1 DEF ResourceRequest
  <2> QED BY <2>1, <2>2
<1>2. [i \in Dims |-> 0] \in [Dims -> Nat] /\ {} \in SUBSET Labels
  OBVIOUS
<1>3. NoRequest \in ResourceRequest
  BY <1>2 DEF NoRequest, ResourceRequest
<1> QED BY <1>1, <1>3

(***************************************************************************)
(* Rows, handles and the clock keep their types.                           *)
(***************************************************************************)
THEOREM TypeCorrect == Spec => []TypeOK
<1>1. ASSUME Init PROVE TypeOK
  <2>1. NoRow \in Rows
    BY RequestsTyped DEF NoRow, Rows
  <2>2. revived \in BOOLEAN
    BY <1>1 DEF Init
  <2>3. clock \in Nat \ {0} /\ lease \in [Tasks -> Rows] /\ issued \subseteq Handles
    BY <1>1, <2>1 DEF Init
  <2> QED BY <2>2, <2>3 DEF TypeOK
<1>2. TypeOK /\ [Next]_vars => TypeOK'
  <2> SUFFICES ASSUME TypeOK, [Next]_vars PROVE TypeOK'
    OBVIOUS
  <2> USE DEF TypeOK
  <2>1. CASE Tick
    BY <2>1 DEF Tick
  <2>2. ASSUME NEW t \in Tasks, NEW o \in Owners, NEW r \in Requests,
               NEW d \in LeaseSeconds, NEW ts \in Readings(1),
               AcquireResourceLease(t, o, r, d, ts)
        PROVE  TypeOK'
    <3> DEFINE g == NextGeneration(lease[t])
               row == [owner |-> o, generation |-> g,
                       lease_until |-> LeaseEnd(ts, d), request |-> r]
               new == [task |-> t, owner |-> o, generation |-> g, request |-> r,
                       returned_at |-> clock]
    <3>1. /\ lease' = [lease EXCEPT ![t] = row]
          /\ issued' = issued \cup {new}
          /\ clock' = clock /\ revived' = revived
      BY <2>2 DEF AcquireResourceLease
    <3>2. g \in Nat /\ LeaseEnd(ts, d) \in Nat /\ r \in ResourceRequest
      BY RequestsTyped, TermAssumption DEF Rows, NextGeneration, LeaseEnd, Readings
    <3>3. row \in Rows /\ new \in Handles
      BY <3>2 DEF Rows, Handles
    <3> HIDE DEF g, row, new
    <3> QED BY <3>1, <3>3
  <2>3. ASSUME NEW h \in issued, NEW e \in Nat,
               lease' = [lease EXCEPT ![h.task].lease_until = e], UNCHANGED <<clock, issued>>,
               revived' \in BOOLEAN
        PROVE  TypeOK'
    BY <2>3 DEF Rows, Handles
  <2>4. ASSUME NEW h \in issued, NEW d \in LeaseSeconds, NEW ts \in Readings(h.returned_at),
               RenewResourceLease(h, d, ts)
        PROVE  TypeOK'
    <3>1. LeaseEnd(ts, d) \in Nat
      BY TermAssumption DEF Readings, Handles, LeaseEnd
    <3> QED BY <2>3, <2>4, <3>1 DEF RenewResourceLease
  <2>5. ASSUME NEW h \in issued, ReleaseResourceLease(h) PROVE TypeOK'
    BY <2>3, <2>5 DEF ReleaseResourceLease
  <2>6. CASE UNCHANGED vars
    BY <2>6 DEF vars
  <2> QED BY <2>1, <2>2, <2>4, <2>5, <2>6 DEF Next
<1> QED BY <1>1, <1>2, PTL DEF Spec

(***************************************************************************)
(* LeaseHistory is inductive: the request of a row is the one its handle   *)
(* was issued with, since renew and release leave it alone and an acquire  *)
(* writes both under a generation no earlier handle has.                   *)
(***************************************************************************)
THEOREM HistoryCorrect == Spec => []LeaseHistory
<1>1. Init => LeaseHistory
  BY DEF Init, LeaseHistory, NoRow
<1>2. TypeOK /\ LeaseHistory /\ [Next]_vars => LeaseHistory'
  <2> SUFFICES ASSUME TypeOK, LeaseHistory, [Next]_vars PROVE LeaseHistory'
    OBVIOUS
  <2>0. \A h \in issued : h.task \in Tasks /\ h.generation \in Nat /\ h.returned_at \in Nat
    BY DEF TypeOK, Handles
  <2>1. ASSUME UNCHANGED <<lease, issued>>, clock' = clock \/ clock' = clock + 1
        PROVE  LeaseHistory'
    BY <2>0, <2>1 DEF LeaseHistory, Matches, TypeOK
  <2>2. ASSUME NEW t \in Tasks, NEW o \in Owners, NEW r \in Requests,
               NEW d \in LeaseSeconds, NEW ts \in Readings(1),
               AcquireResourceLease(t, o, r, d, ts)
        PROVE  LeaseHistory'
    <3> DEFINE new == [task |-> t, owner |-> o, generation |-> lease[t].generation + 1,
                       request |-> r, returned_at |-> clock]
    <3>1. /\ lease' = [lease EXCEPT ![t] =
                         [owner |-> o, generation |-> lease[t].generation + 1,
                          lease_until |-> LeaseEnd(ts, d), request |-> r]]
          /\ issued' = issued \cup {new}
          /\ clock' = clock
      BY <2>2 DEF AcquireResourceLease, NextGeneration
    <3>2. lease[t].generation \in Nat /\ clock \in Nat \ {0}
      BY DEF TypeOK, Rows
    <3>3. /\ lease'[t].generation = lease[t].generation + 1
          /\ lease'[t].owner = o
          /\ lease'[t].request = r
          /\ \A u \in Tasks \ {t} : lease'[u] = lease[u]
      BY <3>1 DEF TypeOK
    <3>4. /\ new \in issued' /\ new.task = t /\ new.owner = o
          /\ new.generation = lease[t].generation + 1
          /\ new.request = r /\ new.returned_at = clock
      BY <3>1
    <3> HIDE DEF new
    <3>5. \A h \in issued' : h.generation \in 1..lease'[h.task].generation
      BY <2>0, <3>1, <3>2, <3>3, <3>4 DEF LeaseHistory
    <3>6. \A h \in issued' : h.returned_at \in 1..clock'
      BY <3>1, <3>2, <3>4 DEF LeaseHistory
    <3>7. \A u \in Tasks : lease'[u].generation > 0 =>
            \E h \in issued' : /\ h.task = u
                               /\ lease'[u].owner = h.owner
                               /\ lease'[u].generation = h.generation
                               /\ h.request = lease'[u].request
      <4>1. ASSUME NEW u \in Tasks \ {t}, lease[u].generation > 0
            PROVE  \E h \in issued : /\ h.task = u
                                     /\ lease[u].owner = h.owner
                                     /\ lease[u].generation = h.generation
                                     /\ h.request = lease[u].request
        BY <4>1 DEF LeaseHistory, Matches
      <4> QED BY <3>1, <3>3, <3>4, <4>1
    <3>8. \A u \in Tasks : lease'[u].generation = 0 => lease'[u] = NoRow
      BY <3>2, <3>3 DEF LeaseHistory
    <3>9. \A g \in issued : ~(g.task = t /\ g.generation = new.generation)
      BY <2>0, <3>2, <3>4 DEF LeaseHistory
    <3>10. \A g, h \in issued' : g.task = h.task /\ g.generation = h.generation => g = h
      BY <3>1, <3>4, <3>9 DEF LeaseHistory
    <3> QED BY <3>5, <3>6, <3>7, <3>8, <3>10 DEF LeaseHistory, Matches
  <2>3. ASSUME NEW h \in issued, NEW e \in Nat, Matches(h),
               lease' = [lease EXCEPT ![h.task].lease_until = e], UNCHANGED <<clock, issued>>
        PROVE  LeaseHistory'
    <3>1. \A t \in Tasks : /\ lease'[t].owner = lease[t].owner
                           /\ lease'[t].generation = lease[t].generation
                           /\ lease'[t].request = lease[t].request
                           /\ t # h.task => lease'[t] = lease[t]
      BY <2>0, <2>3 DEF TypeOK, Rows
    <3>2. lease[h.task].generation # 0
      BY <2>0, <2>3 DEF LeaseHistory, Matches
    <3> QED BY <2>0, <2>3, <3>1, <3>2 DEF LeaseHistory, Matches
  <2>4. ASSUME NEW h \in issued, NEW d \in LeaseSeconds, NEW ts \in Readings(h.returned_at),
               RenewResourceLease(h, d, ts)
        PROVE  LeaseHistory'
    <3>1. LeaseEnd(ts, d) \in Nat
      BY <2>0, TermAssumption DEF Readings, LeaseEnd
    <3> QED BY <2>3, <2>4, <3>1 DEF RenewResourceLease
  <2>5. ASSUME NEW h \in issued, ReleaseResourceLease(h) PROVE LeaseHistory'
    BY <2>3, <2>5 DEF ReleaseResourceLease
  <2> QED
    BY <2>1, <2>2, <2>4, <2>5 DEF Next, vars, Tick
<1> QED BY <1>1, <1>2, TypeCorrect, PTL DEF Spec

(***************************************************************************)
(* A handle that matches its row was issued for the row's request.         *)
(***************************************************************************)
LEMMA HandleRequest ==
    ASSUME TypeOK, LeaseHistory, NEW h \in issued, Matches(h)
    PROVE  lease[h.task].request = h.request
<1>1. h.task \in Tasks /\ lease[h.task].generation > 0
  BY DEF TypeOK, Handles, LeaseHistory, Matches
<1>2. PICK g \in issued :
        g.task = h.task /\ Matches(g) /\ g.request = lease[h.task].request
  BY <1>1 DEF LeaseHistory
<1>3. g.generation = h.generation
  BY <1>2 DEF Matches
<1>4. g = h
  BY <1>2, <1>3 DEF LeaseHistory
<1> QED BY <1>2, <1>4

(***************************************************************************)
(* Owner and generation decide as much as the whole handle: the check      *)
(* OperationRuntime makes before an effect is as strong as the broker's.   *)
(***************************************************************************)
THEOREM IdentityCorrect == Spec => []IdentityIsEnough
<1>1. TypeOK /\ LeaseHistory => IdentityIsEnough
  BY HandleRequest DEF IdentityIsEnough, ValidateIdentity, Validate
<1> QED BY <1>1, TypeCorrect, HistoryCorrect, PTL

(***************************************************************************)
(* An exclusive label is held by one lease in force at a time as long as   *)
(* no renewal revived a lease: an acquire sees every lease in force, since *)
(* its timestamp is never ahead of the clock, and a renewal that revives   *)
(* nothing only extends a lease that still is in force.                    *)
(***************************************************************************)
THEOREM LabelsCorrect == Spec => []LabelsUnlessRevived
<1>1. Init => LabelsUnlessRevived
  BY DEF Init, LabelsUnlessRevived, LabelsExclusive, Active, NoRow
<1>2. TypeOK /\ LabelsUnlessRevived /\ [Next]_vars => LabelsUnlessRevived'
  <2> SUFFICES ASSUME TypeOK, LabelsUnlessRevived, [Next]_vars, ~revived'
               PROVE  LabelsExclusive'
    BY DEF LabelsUnlessRevived
  <2>0. /\ clock \in Nat \ {0}
        /\ \A t \in Tasks : lease[t].lease_until \in Nat
        /\ \A h \in issued : h.task \in Tasks /\ h.returned_at \in Nat
    BY DEF TypeOK, Rows, Handles
  <2>00. LabelsExclusive
    BY DEF LabelsUnlessRevived, Next, Tick, AcquireResourceLease, RenewResourceLease,
           ReleaseResourceLease, vars
  <2>1. ASSUME lease' = lease, clock' = clock \/ clock' = clock + 1
        PROVE  LabelsExclusive'
    BY <2>0, <2>00, <2>1 DEF LabelsExclusive, Active
  <2>2. ASSUME NEW t \in Tasks, NEW o \in Owners, NEW r \in Requests,
               NEW d \in LeaseSeconds, NEW ts \in Readings(1),
               AcquireResourceLease(t, o, r, d, ts)
        PROVE  LabelsExclusive'
    <3>1. ts \in Nat /\ ts <= clock
      BY <2>0 DEF Readings
    <3>2. /\ LabelsFree(r, Active(ts) \ {t})
          /\ clock' = clock
          /\ lease'[t].request = r
          /\ \A u \in Tasks \ {t} : lease'[u] = lease[u]
      BY <2>2 DEF AcquireResourceLease, Admits, TypeOK
    <3>3. \A u \in Active(ts) \ {t} :
            lease[u].request.exclusive_labels \cap r.exclusive_labels = {}
      BY <3>2 DEF LabelsFree, LabelsOf
    <3>4. Active(clock) \subseteq Active(ts)
      BY <2>0, <3>1 DEF Active
    <3>5. \A u \in Active(clock)' \ {t} : u \in Active(clock) /\ lease'[u] = lease[u]
      BY <3>2 DEF Active
    <3> QED BY <2>00, <3>2, <3>3, <3>4, <3>5 DEF LabelsExclusive
  <2>3. ASSUME NEW h \in issued, NEW e \in Nat,
               lease[h.task].lease_until > clock \/ e = 0,
               lease' = [lease EXCEPT ![h.task].lease_until = e], clock' = clock
        PROVE  LabelsExclusive'
    <3>1. \A t \in Tasks : /\ lease'[t].request = lease[t].request
                           /\ t # h.task => lease'[t] = lease[t]
                           /\ t = h.task => lease'[t].lease_until = e
      BY <2>0, <2>3 DEF TypeOK, Rows
    <3>2. Active(clock)' \subseteq Active(clock)
      BY <2>0, <2>3, <3>1 DEF Active
    <3>3. Active(clock) \subseteq Tasks
      BY DEF Active
    <3> QED BY <2>00, <3>1, <3>2, <3>3 DEF LabelsExclusive
  <2>4. ASSUME NEW h \in issued, NEW d \in LeaseSeconds, NEW ts \in Readings(h.returned_at),
               RenewResourceLease(h, d, ts)
        PROVE  LabelsExclusive'
    <3>1. LeaseEnd(ts, d) \in Nat
      BY <2>0, TermAssumption DEF Readings, LeaseEnd
    <3>2. ~(lease[h.task].lease_until <= clock)
      BY <2>4 DEF RenewResourceLease
    <3>3. lease[h.task].lease_until > clock
      BY <2>0, <3>2
    <3> QED BY <2>3, <2>4, <3>1, <3>3 DEF RenewResourceLease
  <2>5. ASSUME NEW h \in issued, ReleaseResourceLease(h) PROVE LabelsExclusive'
    BY <2>3, <2>5 DEF ReleaseResourceLease
  <2> QED BY <2>1, <2>2, <2>4, <2>5 DEF Next, vars, Tick
<1> QED BY <1>1, <1>2, TypeCorrect, PTL DEF Spec

(***************************************************************************)
(* How a new end of the row of t changes the grant it stands for: only its *)
(* status moves, to what the new end says.                                 *)
(***************************************************************************)
LEMMA RowEnd ==
    ASSUME TypeOK, NEW t \in Tasks, NEW e \in Nat,
           lease[t].generation # 0, clock' = clock,
           lease' = [lease EXCEPT ![t].lease_until = e]
    PROVE  GrantOf' = [GrantOf EXCEPT ![t].status =
              IF e = 0 THEN "released" ELSE IF e > clock THEN "live" ELSE "lapsed"]
<1> DEFINE s == IF e = 0 THEN "released" ELSE IF e > clock THEN "live" ELSE "lapsed"
<1>1. /\ lease'[t].owner = lease[t].owner
      /\ lease'[t].generation = lease[t].generation
      /\ lease'[t].lease_until = e
      /\ \A u \in Tasks \ {t} : lease'[u] = lease[u]
  BY DEF TypeOK, Rows
<1>2. \A u \in Tasks \ {t} : GrantOf'[u] = GrantOf[u]
  BY <1>1 DEF GrantOf, StatusOf
<1>3. GrantOf'[t] = [owner |-> lease[t].owner, id |-> lease[t].generation, status |-> s]
  BY <1>1 DEF GrantOf, StatusOf
<1>4. [GrantOf[t] EXCEPT !.status = s] =
        [owner |-> lease[t].owner, id |-> lease[t].generation, status |-> s]
  BY DEF GrantOf
<1>5. /\ GrantOf' = [u \in Tasks |-> GrantOf'[u]]
      /\ GrantOf = [u \in Tasks |-> GrantOf[u]]
  BY DEF GrantOf
<1> HIDE DEF s
<1> QED BY <1>2, <1>3, <1>4, <1>5 DEF s

(***************************************************************************)
(* Resource leases implement the abstract lease as task leases do.  An     *)
(* acquire that is admitted finds lease_until at or before a reading of    *)
(* the clock, so that the grant it replaces is not live; a renewal finds   *)
(* it after a reading that is at least 1, so that a released lease is not  *)
(* extended.                                                               *)
(***************************************************************************)
THEOREM Refinement == Spec => ImplementsFencedLease
<1>1. Init => Fenced!Init
  BY DEF Init, Fenced!Init, GrantOf, StatusOf, NoRow, Fenced!NoGrant
<1>2. TypeOK /\ LeaseHistory /\ [Next]_vars => [Fenced!Next]_GrantOf
  <2> SUFFICES ASSUME TypeOK, LeaseHistory, [Next]_vars
               PROVE  Fenced!Next \/ UNCHANGED GrantOf
    OBVIOUS
  <2>1. CASE Tick
    <3> DEFINE K == {t \in Tasks : GrantOf[t].status = "live" /\ GrantOf'[t].status # "live"}
    <3>1. clock' = clock + 1 /\ clock \in Nat /\ lease' = lease
      BY <2>1 DEF Tick, TypeOK
    <3>2. \A t \in K : GrantOf[t].status = "live"
      OBVIOUS
    <3>3. \A t \in Tasks : lease[t].lease_until \in Nat
      BY DEF TypeOK, Rows
    <3>4. GrantOf' = [t \in Tasks |-> IF t \in K THEN [GrantOf[t] EXCEPT !.status = "lapsed"]
                                                  ELSE GrantOf[t]]
      <4>1. ASSUME NEW t \in Tasks
            PROVE  GrantOf'[t] = IF t \in K THEN [GrantOf[t] EXCEPT !.status = "lapsed"]
                                            ELSE GrantOf[t]
        <5>1. CASE StatusOf(lease[t])' = StatusOf(lease[t])
          BY <3>1, <5>1 DEF GrantOf
        <5>2. CASE StatusOf(lease[t])' # StatusOf(lease[t])
          <6>1. StatusOf(lease[t]) = "live" /\ StatusOf(lease[t])' = "lapsed"
            BY <3>1, <3>3, <5>2 DEF StatusOf
          <6> QED BY <3>1, <6>1 DEF GrantOf
        <5> QED BY <5>1, <5>2
      <4> QED BY <4>1 DEF GrantOf
    <3>5. Fenced!Lapse(K)
      BY <3>2, <3>4 DEF Fenced!Lapse
    <3> QED BY <3>5 DEF Fenced!Next
  <2>2. CASE UNCHANGED <<clock, lease>>
    BY <2>2 DEF GrantOf, StatusOf
  <2>3. ASSUME NEW t \in Tasks, NEW o \in Owners, NEW r \in Requests,
               NEW d \in LeaseSeconds, NEW ts \in Readings(1),
               AcquireResourceLease(t, o, r, d, ts)
        PROVE  Fenced!Next
    <3>1. /\ lease' = [lease EXCEPT ![t] =
                         [owner |-> o, generation |-> NextGeneration(lease[t]),
                          lease_until |-> LeaseEnd(ts, d), request |-> r]]
          /\ clock' = clock
          /\ lease[t].lease_until <= ts
      BY <2>3 DEF AcquireResourceLease, Admits
    <3> DEFINE s == IF ts + d > clock THEN "live" ELSE "lapsed"
    <3>2. /\ t \in Tasks
          /\ lease[t].generation \in Nat
          /\ lease[t].lease_until \in Nat
          /\ lease[t].lease_until <= ts
      BY <3>1 DEF TypeOK, Rows
    <3>3. ts \in Nat /\ ts <= clock /\ clock \in Nat /\ d \in Nat /\ d > 0
      BY TermAssumption DEF TypeOK, Readings
    <3>4. GrantOf[t].status # "live"
      BY <3>2, <3>3 DEF GrantOf, StatusOf
    <3>5. /\ lease'[t] = [owner |-> o, generation |-> lease[t].generation + 1,
                          lease_until |-> ts + d, request |-> r]
          /\ \A u \in Tasks \ {t} : lease'[u] = lease[u]
      BY <3>1, <3>2 DEF TypeOK, NextGeneration, LeaseEnd
    <3>6. GrantOf'[t] = [owner |-> o, id |-> GrantOf[t].id + 1, status |-> s]
      BY <3>1, <3>2, <3>3, <3>5 DEF GrantOf, StatusOf
    <3>7. \A u \in Tasks \ {t} : GrantOf'[u] = GrantOf[u]
      BY <3>1, <3>5 DEF GrantOf, StatusOf
    <3>8. GrantOf' = [GrantOf EXCEPT ![t] =
                        [owner |-> o, id |-> GrantOf[t].id + 1, status |-> s]]
      <4>1. /\ GrantOf' = [u \in Tasks |-> GrantOf'[u]]
            /\ GrantOf = [u \in Tasks |-> GrantOf[u]]
        BY DEF GrantOf
      <4> HIDE DEF s
      <4> QED BY <3>6, <3>7, <4>1
    <3>9. s \in {"live", "lapsed"} /\ s \in Fenced!Status
      BY DEF Fenced!Status
    <3>10. Fenced!Grant(t, o, s)
      <4> HIDE DEF s
      <4> QED BY <3>4, <3>8, <3>9 DEF Fenced!Grant
    <3> HIDE DEF s
    <3> QED BY <3>2, <3>9, <3>10 DEF Fenced!Next
  <2>4. ASSUME NEW h \in issued, NEW d \in LeaseSeconds, NEW ts \in Readings(h.returned_at),
               RenewResourceLease(h, d, ts)
        PROVE  Fenced!Next
    <3> DEFINE e == LeaseEnd(ts, d)
               s == IF e > clock THEN "live" ELSE "lapsed"
    <3>1. /\ h.task \in Tasks
          /\ lease[h.task].generation # 0
          /\ lease[h.task].lease_until \in Nat
          /\ lease[h.task].lease_until > ts
      BY <2>4 DEF TypeOK, Handles, Rows, LeaseHistory, RenewResourceLease, Matches
    <3>2. ts \in Nat /\ clock \in Nat /\ e \in Nat /\ e # 0 /\ 1 <= ts
      <4>1. h.returned_at \in Nat /\ 1 <= h.returned_at /\ clock \in Nat
        BY DEF TypeOK, LeaseHistory
      <4> QED BY <4>1, TermAssumption DEF Readings, LeaseEnd
    <3>3. GrantOf[h.task].status \in {"live", "lapsed"}
      BY <3>1, <3>2 DEF GrantOf, StatusOf
    <3>4. clock' = clock /\ lease' = [lease EXCEPT ![h.task].lease_until = e]
      BY <2>4 DEF RenewResourceLease
    <3>5. GrantOf' = [GrantOf EXCEPT ![h.task].status = s]
      <4> HIDE DEF e
      <4> QED BY <3>1, <3>2, <3>4, RowEnd
    <3>6. s \in {"live", "lapsed"} /\ s \in Fenced!Status
      BY DEF Fenced!Status
    <3> HIDE DEF s
    <3>7. Fenced!Extend(h.task, s)
      BY <3>3, <3>5, <3>6 DEF Fenced!Extend
    <3> QED BY <3>1, <3>6, <3>7 DEF Fenced!Next
  <2>5. ASSUME NEW h \in issued, ReleaseResourceLease(h)
        PROVE  Fenced!Next
    <3>1. h.task \in Tasks /\ lease[h.task].generation # 0
      BY <2>5 DEF TypeOK, Handles, LeaseHistory, ReleaseResourceLease, Matches
    <3>2. clock' = clock /\ lease' = [lease EXCEPT ![h.task].lease_until = 0]
      BY <2>5 DEF ReleaseResourceLease
    <3>3. GrantOf[h.task].status # "never"
      BY <3>1 DEF GrantOf, StatusOf
    <3>4. GrantOf' = [GrantOf EXCEPT ![h.task].status = "released"]
      BY <3>1, <3>2, RowEnd
    <3>5. Fenced!Release(h.task)
      BY <3>3, <3>4 DEF Fenced!Release
    <3> QED BY <3>1, <3>5 DEF Fenced!Next
  <2> QED
    BY <2>1, <2>2, <2>3, <2>4, <2>5 DEF Next, vars
<1> QED
  BY <1>1, <1>2, TypeCorrect, HistoryCorrect, PTL
     DEF Spec, ImplementsFencedLease, Fenced!Spec

-----------------------------------------------------------------------------

\* Among the sets of a nonempty set of subsets of a finite set there is a smallest one.
LEMMA SmallestSet ==
    ASSUME NEW D, IsFiniteSet(D), NEW B \in SUBSET SUBSET D, B # {}
    PROVE  \E s \in B : \A u \in B : u \subseteq s => u = s
<1> DEFINE R == StrictSubsetOrdering(D)
<1>1. IsWellFoundedOn(R, SUBSET D)
  BY FS_StrictSubsetOrderingWellFounded, FS_FiniteSubsetsOfFinite
<1>2. \A s, u \in SUBSET D : u \subseteq s /\ u # s => <<u, s>> \in R
  BY DEF StrictSubsetOrdering
<1> HIDE DEF R
<1>3. PICK s \in B : \A u \in B : ~(<<u, s>> \in R)
  BY <1>1, WFMin
<1> QED BY <1>2, <1>3

\* The element a sum takes next.
First(s) == CHOOSE x \in s : TRUE

\* g holds the sums of the values w of the subsets of T.
Sums(w, g, T) ==
    g = [s \in SUBSET T |-> IF s = {} THEN 0 ELSE w[First(s)] + g[s \ {First(s)}]]

\* What Sums says of one subset.
LEMMA SumsOf ==
    ASSUME NEW w, NEW T, NEW g, Sums(w, g, T), NEW s \in SUBSET T
    PROVE  g[s] = IF s = {} THEN 0 ELSE w[First(s)] + g[s \ {First(s)}]
<1> DEFINE h == [u \in SUBSET T |-> IF u = {} THEN 0 ELSE w[First(u)] + g[u \ {First(u)}]]
<1>1. g = h
  BY DEF Sums
<1>2. h[s] = IF s = {} THEN 0 ELSE w[First(s)] + g[s \ {First(s)}]
  OBVIOUS
<1> HIDE DEF h
<1> QED BY <1>1, <1>2

\* The next element is one of the set.
LEMMA FirstIn == \A s : s # {} => First(s) \in s
BY DEF First

\* Two tables of sums agree where both are defined.
LEMMA SumsAgree ==
    ASSUME NEW w, NEW T, NEW U, IsFiniteSet(T), NEW g, NEW h, Sums(w, g, T), Sums(w, h, U)
    PROVE  \A s \in SUBSET T : s \in SUBSET U => g[s] = h[s]
<1> DEFINE B == {s \in SUBSET T : s \in SUBSET U /\ g[s] # h[s]}
<1> SUFFICES ASSUME B # {} PROVE FALSE
  OBVIOUS
<1>1. PICK s \in B : \A u \in B : u \subseteq s => u = s
  <2>1. B \in SUBSET SUBSET T
    OBVIOUS
  <2> HIDE DEF B
  <2> QED BY <2>1, SmallestSet
<1>2. s \in SUBSET T /\ s \in SUBSET U /\ g[s] # h[s]
  OBVIOUS
<1>3. /\ g[s] = IF s = {} THEN 0 ELSE w[First(s)] + g[s \ {First(s)}]
      /\ h[s] = IF s = {} THEN 0 ELSE w[First(s)] + h[s \ {First(s)}]
  BY <1>2, SumsOf
<1>4. s # {}
  BY <1>2, <1>3
<1>5. First(s) \in s
  BY <1>4, FirstIn
<1> DEFINE u == s \ {First(s)}
<1>6. u \subseteq s /\ u # s
  BY <1>5
<1>7. u \notin B
  <2> HIDE DEF B, u
  <2> QED BY <1>1, <1>6
<1>8. g[u] = h[u]
  BY <1>2, <1>7
<1> QED BY <1>2, <1>3, <1>4, <1>8

\* Such a table exists for every finite set.
LEMMA SumsExist ==
    ASSUME NEW w, NEW D, IsFiniteSet(D)
    PROVE  \E g : Sums(w, g, D)
<1> DEFINE B == {T \in SUBSET D : ~\E g : Sums(w, g, T)}
<1> SUFFICES ASSUME B # {} PROVE FALSE
  OBVIOUS
<1>1. PICK T \in B : \A u \in B : u \subseteq T => u = T
  <2>1. B \in SUBSET SUBSET D
    OBVIOUS
  <2> HIDE DEF B
  <2> QED BY <2>1, SmallestSet
<1>2. T \in SUBSET D /\ ~\E g : Sums(w, g, T)
  OBVIOUS
<1>3. ASSUME NEW u, u \subseteq T, u # T PROVE \E g : Sums(w, g, u)
  BY <1>1, <1>2, <1>3
<1> DEFINE G(u) == CHOOSE g : Sums(w, g, u)
           A(s) == IF s = {} THEN 0 ELSE w[First(s)] + G(s \ {First(s)})[s \ {First(s)}]
           h == [s \in SUBSET T |-> A(s)]
<1>4. ASSUME NEW u, u \subseteq T, u # T PROVE Sums(w, G(u), u)
  BY <1>3, <1>4
<1> HIDE DEF G, B
<1>5. ASSUME NEW u, u \subseteq T, u # T PROVE A(u) = G(u)[u]
  <2>1. Sums(w, G(u), u)
    BY <1>4, <1>5
  <2>2. G(u)[u] = IF u = {} THEN 0 ELSE w[First(u)] + G(u)[u \ {First(u)}]
    BY <2>1, SumsOf
  <2>3. CASE u = {}
    BY <2>2, <2>3
  <2>4. CASE u # {}
    <3> DEFINE v == u \ {First(u)}
    <3>1. First(u) \in u
      BY <2>4, FirstIn
    <3>2. v \subseteq T /\ v # T /\ v \subseteq u
      BY <1>5, <3>1
    <3>3. Sums(w, G(v), v)
      <4> HIDE DEF v
      <4> QED BY <1>4, <3>2
    <3>4. IsFiniteSet(v)
      <4> HIDE DEF v
      <4> QED BY <1>2, <3>2, FS_Subset
    <3>5. G(v)[v] = G(u)[v]
      <4> HIDE DEF v
      <4> QED BY <2>1, <3>2, <3>3, <3>4, SumsAgree
    <3> QED BY <2>2, <2>4, <3>5
  <2> QED BY <2>3, <2>4
<1>6. \A s \in SUBSET T : A(s) = IF s = {} THEN 0 ELSE w[First(s)] + h[s \ {First(s)}]
  <2> SUFFICES ASSUME NEW s \in SUBSET T, s # {}
               PROVE  A(s) = w[First(s)] + h[s \ {First(s)}]
    OBVIOUS
  <2> DEFINE u == s \ {First(s)}
  <2>1. First(s) \in s
    BY FirstIn
  <2>2. u \subseteq T /\ u # T
    BY <2>1
  <2>3. h[u] = A(u)
    <3> HIDE DEF u, A
    <3> QED BY <2>2
  <2>4. A(u) = G(u)[u]
    <3> HIDE DEF u, A
    <3> QED BY <1>5, <2>2
  <2>5. A(s) = w[First(s)] + G(u)[u]
    OBVIOUS
  <2> HIDE DEF A, u, h
  <2> QED BY <2>3, <2>4, <2>5 DEF u
<1>7. Sums(w, h, T)
  BY <1>6 DEF Sums
<1> QED BY <1>2, <1>7

\* The sum of the values w over S.
Total(w, S) == SumFunction([t \in S |-> w[t]])

\* SumFunction looks its result up in a table of sums.
LEMMA TotalIsSum ==
    ASSUME NEW w, NEW S, IsFiniteSet(S)
    PROVE  \E g : Sums(w, g, S) /\ Total(w, S) = g[S]
<1> DEFINE f == [t \in S |-> w[t]]
           Step(g) == [s \in SUBSET DOMAIN f |->
                         IF s = {} THEN 0
                         ELSE f[CHOOSE x \in s : TRUE] + g[s \ {CHOOSE x \in s : TRUE}]]
           g0 == CHOOSE g : g = Step(g)
<1>1. SumFunction(f) = g0[DOMAIN f]
  <2> HIDE DEF f
  <2> QED BY Zenon DEF SumFunction, SumFunctionOnSet, FoldFunctionOnSet, MapThenFoldSet
<1>2. ASSUME NEW g
      PROVE  Step(g) = [s \in SUBSET S |->
                          IF s = {} THEN 0 ELSE w[First(s)] + g[s \ {First(s)}]]
  <2>1. DOMAIN f = S
    OBVIOUS
  <2>2. ASSUME NEW s \in SUBSET S, s # {} PROVE f[First(s)] = w[First(s)]
    BY <2>2, FirstIn
  <2>3. Step(g) = [s \in SUBSET S |-> IF s = {} THEN 0 ELSE f[First(s)] + g[s \ {First(s)}]]
    <3> HIDE DEF f
    <3> QED BY <2>1 DEF First
  <2> HIDE DEF f, Step
  <2> QED BY <2>2, <2>3
<1>3. ASSUME NEW g PROVE g = Step(g) <=> Sums(w, g, S)
  <2> HIDE DEF Step
  <2> QED BY <1>2 DEF Sums
<1>4. \E g : g = Step(g)
  <2> HIDE DEF Step
  <2> QED BY <1>3, SumsExist
<1>5. g0 = Step(g0)
  <2> HIDE DEF Step
  <2> QED BY <1>4
<1>6. Sums(w, g0, S)
  <2> HIDE DEF Step, g0
  <2> QED BY <1>3, <1>5
<1> HIDE DEF g0
<1> QED BY <1>1, <1>6 DEF Total

\* How a sum over a set is made of sums over smaller ones.
LEMMA TotalStep ==
    ASSUME NEW w, NEW D, IsFiniteSet(D)
    PROVE  /\ Total(w, {}) = 0
           /\ \A S \in SUBSET D : S # {} =>
                Total(w, S) = w[First(S)] + Total(w, S \ {First(S)})
<1>1. ASSUME NEW S \in SUBSET D, NEW g, Sums(w, g, D) PROVE Total(w, S) = g[S]
  <2>1. IsFiniteSet(S)
    BY FS_Subset
  <2>2. PICK h : Sums(w, h, S) /\ Total(w, S) = h[S]
    BY <2>1, TotalIsSum
  <2>3. h[S] = g[S]
    BY <1>1, <2>1, <2>2, SumsAgree
  <2> QED BY <2>2, <2>3
<1>2. PICK g : Sums(w, g, D)
  BY SumsExist
<1>3. Total(w, {}) = 0
  BY <1>1, <1>2, SumsOf
<1>4. ASSUME NEW S \in SUBSET D, S # {}
      PROVE  Total(w, S) = w[First(S)] + Total(w, S \ {First(S)})
  <2>1. g[S] = w[First(S)] + g[S \ {First(S)}]
    BY <1>2, <1>4, SumsOf
  <2>2. S \ {First(S)} \in SUBSET D
    OBVIOUS
  <2> QED BY <1>1, <1>2, <2>1, <2>2
<1> QED BY <1>3, <1>4

\* A sum of naturals is a natural.
LEMMA TotalNat ==
    ASSUME NEW D, IsFiniteSet(D), NEW w, \A t \in D : w[t] \in Nat
    PROVE  \A S \in SUBSET D : Total(w, S) \in Nat
<1> DEFINE B == {S \in SUBSET D : Total(w, S) \notin Nat}
<1> SUFFICES ASSUME B # {} PROVE FALSE
  OBVIOUS
<1>1. PICK S \in B : \A u \in B : u \subseteq S => u = S
  <2>1. B \in SUBSET SUBSET D
    OBVIOUS
  <2> HIDE DEF B
  <2> QED BY <2>1, SmallestSet
<1>2. S \in SUBSET D /\ Total(w, S) \notin Nat
  OBVIOUS
<1>3. S # {}
  BY <1>2, TotalStep
<1>4. First(S) \in S /\ w[First(S)] \in Nat
  BY <1>2, <1>3, FirstIn
<1>5. S \ {First(S)} \notin B
  <2> HIDE DEF B
  <2> QED BY <1>1, <1>4
<1>6. Total(w, S \ {First(S)}) \in Nat
  BY <1>2, <1>5
<1>7. Total(w, S) = w[First(S)] + Total(w, S \ {First(S)})
  BY <1>2, <1>3, TotalStep
<1> QED BY <1>2, <1>4, <1>6, <1>7

\* It does not matter which element is taken first.
LEMMA TotalSplit ==
    ASSUME NEW D, IsFiniteSet(D), NEW w, \A t \in D : w[t] \in Nat
    PROVE  \A S \in SUBSET D : \A x \in S : Total(w, S) = w[x] + Total(w, S \ {x})
<1> DEFINE B == {S \in SUBSET D : \E x \in S : Total(w, S) # w[x] + Total(w, S \ {x})}
<1> SUFFICES ASSUME B # {} PROVE FALSE
  OBVIOUS
<1>1. PICK S \in B : \A u \in B : u \subseteq S => u = S
  <2>1. B \in SUBSET SUBSET D
    OBVIOUS
  <2> HIDE DEF B
  <2> QED BY <2>1, SmallestSet
<1>2. PICK x \in S : Total(w, S) # w[x] + Total(w, S \ {x})
  OBVIOUS
<1>3. S \in SUBSET D
  OBVIOUS
<1> DEFINE y == First(S)
<1>4. y \in S
  BY <1>2, FirstIn
<1>5. Total(w, S) = w[y] + Total(w, S \ {y})
  BY <1>3, <1>4, TotalStep
<1> HIDE DEF y
<1>6. x # y
  BY <1>2, <1>5
<1>7. S \ {y} \notin B /\ S \ {x} \notin B
  <2> HIDE DEF B
  <2> QED BY <1>1, <1>2, <1>4
<1>8. /\ Total(w, S \ {y}) = w[x] + Total(w, (S \ {y}) \ {x})
      /\ Total(w, S \ {x}) = w[y] + Total(w, (S \ {x}) \ {y})
  BY <1>2, <1>3, <1>4, <1>6, <1>7
<1>9. (S \ {x}) \ {y} = (S \ {y}) \ {x}
  OBVIOUS
<1>10. /\ w[x] \in Nat /\ w[y] \in Nat /\ Total(w, (S \ {y}) \ {x}) \in Nat
  BY <1>2, <1>3, <1>4, TotalNat
<1> QED BY <1>2, <1>5, <1>8, <1>9, <1>10

\* A sum over more is not less.
LEMMA TotalGrows ==
    ASSUME NEW D, IsFiniteSet(D), NEW w, \A t \in D : w[t] \in Nat
    PROVE  \A T \in SUBSET D : \A S \in SUBSET T : Total(w, S) <= Total(w, T)
<1> DEFINE B == {T \in SUBSET D : \E S \in SUBSET T : ~(Total(w, S) <= Total(w, T))}
<1> SUFFICES ASSUME B # {} PROVE FALSE
  OBVIOUS
<1>1. PICK T \in B : \A u \in B : u \subseteq T => u = T
  <2>1. B \in SUBSET SUBSET D
    OBVIOUS
  <2> HIDE DEF B
  <2> QED BY <2>1, SmallestSet
<1>2. PICK S \in SUBSET T : ~(Total(w, S) <= Total(w, T))
  OBVIOUS
<1>3. T \in SUBSET D /\ S \in SUBSET D
  OBVIOUS
<1>4. Total(w, T) \in Nat /\ Total(w, S) \in Nat
  BY <1>3, TotalNat
<1>5. S # T
  BY <1>2, <1>4
<1>6. PICK x \in T : x \notin S
  BY <1>5
<1>7. T \ {x} \notin B
  <2> HIDE DEF B
  <2> QED BY <1>1
<1>8. Total(w, S) <= Total(w, T \ {x})
  BY <1>3, <1>6, <1>7
<1>9. Total(w, T) = w[x] + Total(w, T \ {x})
  BY <1>3, TotalSplit
<1>10. w[x] \in Nat /\ Total(w, T \ {x}) \in Nat
  BY <1>3, TotalNat
<1> QED BY <1>2, <1>4, <1>8, <1>9, <1>10

-----------------------------------------------------------------------------

\* The units a set of rows uses are a sum over the tasks, in this state and in the next.
LEMMA UsedTotal ==
    ASSUME NEW i \in Dims, NEW S \in SUBSET Tasks
    PROVE  Used(i, S) = Total([t \in Tasks |-> lease[t].request.units[i]], S)
<1>1. [t \in S |-> lease[t].request.units[i]] =
        [t \in S |-> [u \in Tasks |-> lease[u].request.units[i]][t]]
  OBVIOUS
<1> QED BY <1>1 DEF Used, Total

\* The units of the rows are naturals.
LEMMA UnitsNat ==
    ASSUME TypeOK, NEW i \in Dims, NEW t \in Tasks
    PROVE  lease[t].request.units[i] \in Nat
<1>1. lease[t].request \in ResourceRequest
  BY DEF TypeOK, Rows
<1>2. lease[t].request.units \in [Dims -> Nat]
  BY <1>1 DEF ResourceRequest
<1> QED BY <1>2

\* Fewer leases in force with the same requests use no more.
LEMMA FewerFit ==
    ASSUME TypeOK, NoOvercommit,
           \A t \in Tasks : lease'[t].request = lease[t].request,
           Active(clock)' \subseteq Active(clock)
    PROVE  NoOvercommit'
<1> SUFFICES ASSUME NEW i \in Dims PROVE Used(i, Active(clock))' <= Capacity[i]
  BY DEF NoOvercommit
<1> DEFINE A == Active(clock)
           B == Active(clock)'
           w == [t \in Tasks |-> lease[t].request.units[i]]
<1>1. A \subseteq Tasks /\ B \subseteq A
  BY DEF Active
<1>2. \A t \in Tasks : w[t] \in Nat
  BY UnitsNat
<1>3. Used(i, A) = Total(w, A)
  BY <1>1, UsedTotal
<1>4. Used(i, Active(clock))' = Total(w, B)
  <2>1. [t \in B |-> lease'[t].request.units[i]] = [t \in B |-> w[t]]
    BY <1>1
  <2> QED BY <2>1 DEF Used, Total
<1> HIDE DEF w, A, B
<1>5. Total(w, B) <= Total(w, A) /\ Total(w, A) \in Nat /\ Total(w, B) \in Nat
  BY <1>1, <1>2, TotalGrows, TotalNat, TasksAssumption
<1>6. Used(i, A) <= Capacity[i]
  BY DEF NoOvercommit, A
<1>7. Capacity[i] \in Nat
  BY CapacityAssumption
<1> QED BY <1>3, <1>4, <1>5, <1>6, <1>7

\* An acquire that is admitted leaves the leases in force within the capacity: it counted
\* every one of them, since its timestamp is not ahead of the clock.
LEMMA AcquireFits ==
    ASSUME TypeOK, NEW t \in Tasks, NEW o \in Owners, NEW r \in Requests,
           NEW d \in LeaseSeconds, NEW ts \in Readings(1),
           AcquireResourceLease(t, o, r, d, ts)
    PROVE  NoOvercommit'
<1> SUFFICES ASSUME NEW i \in Dims PROVE Used(i, Active(clock))' <= Capacity[i]
  BY DEF NoOvercommit
<1> DEFINE O == Active(ts) \ {t}
           B == Active(clock)'
           v == [u \in Tasks |-> lease[u].request.units[i]]
           w == [u \in Tasks |-> lease'[u].request.units[i]]
<1>1. /\ HasRoom(r, O) /\ clock' = clock
      /\ lease'[t].request = r
      /\ \A u \in Tasks \ {t} : lease'[u] = lease[u]
  BY DEF AcquireResourceLease, Admits, TypeOK
<1>2. /\ ts \in Nat /\ ts <= clock /\ clock \in Nat
      /\ \A u \in Tasks : lease[u].lease_until \in Nat
  BY DEF Readings, TypeOK, Rows
<1>3. B \subseteq O \cup {t} /\ O \subseteq Tasks /\ t \notin O
  <2>1. \A u \in B : u \in Tasks /\ lease'[u].lease_until > clock
    BY <1>1 DEF Active
  <2>2. \A u \in Tasks \ {t} : lease[u].lease_until > clock => lease[u].lease_until > ts
    BY <1>2
  <2> HIDE DEF B
  <2> QED BY <1>1, <2>1, <2>2 DEF Active
<1>4. \A u \in Tasks : v[u] \in Nat
  BY UnitsNat
<1>5. r.units[i] \in Nat /\ w[t] = r.units[i]
  BY <1>1, RequestsAssumption
<1>6. \A u \in Tasks : w[u] \in Nat
  BY <1>1, <1>4, <1>5
<1>7. Used(i, Active(clock))' = Total(w, B)
  <2>1. [u \in B |-> lease'[u].request.units[i]] = [u \in B |-> w[u]]
    BY <1>3
  <2> QED BY <2>1 DEF Used, Total
<1>8. Total(w, O) = Used(i, O)
  <2>1. [u \in O |-> w[u]] = [u \in O |-> lease[u].request.units[i]]
    BY <1>1, <1>3
  <2> QED BY <2>1 DEF Used, Total
<1>9. Used(i, O) + r.units[i] <= Capacity[i]
  BY <1>1 DEF HasRoom
<1> HIDE DEF w, v, O, B
<1>10. (O \cup {t}) \ {t} = O /\ O \cup {t} \in SUBSET Tasks
  BY <1>3
<1>11. Total(w, O \cup {t}) = w[t] + Total(w, O)
  BY <1>6, <1>10, TotalSplit, TasksAssumption
<1>12. Total(w, B) <= Total(w, O \cup {t})
  BY <1>3, <1>6, <1>10, TotalGrows, TasksAssumption
<1>13. Total(w, B) \in Nat /\ Total(w, O) \in Nat /\ Capacity[i] \in Nat
  BY <1>3, <1>6, TotalNat, TasksAssumption, CapacityAssumption
<1> QED BY <1>5, <1>7, <1>8, <1>9, <1>11, <1>12, <1>13

(***************************************************************************)
(* The leases in force fit the capacity as long as no renewal revived a    *)
(* lease that had ended: acquisitions with old timestamps, expiry, early   *)
(* release and late handles never overcommit, for any number of tasks.     *)
(***************************************************************************)
THEOREM CapacityCorrect == Spec => []FitsUnlessRevived
<1>1. Init => FitsUnlessRevived
  <2> SUFFICES ASSUME Init, NEW i \in Dims PROVE Used(i, Active(clock)) <= Capacity[i]
    BY DEF FitsUnlessRevived, NoOvercommit
  <2>1. Active(clock) = {}
    BY DEF Init, Active, NoRow
  <2>2. Used(i, {}) = 0
    BY UsedTotal, TotalStep, TasksAssumption
  <2>3. Capacity[i] \in Nat
    BY CapacityAssumption
  <2> QED BY <2>1, <2>2, <2>3
<1>2. TypeOK /\ FitsUnlessRevived /\ [Next]_vars => FitsUnlessRevived'
  <2> SUFFICES ASSUME TypeOK, FitsUnlessRevived, [Next]_vars, ~revived'
               PROVE  NoOvercommit'
    BY DEF FitsUnlessRevived
  <2>0. /\ clock \in Nat \ {0}
        /\ \A t \in Tasks : lease[t].lease_until \in Nat
        /\ \A h \in issued : h.task \in Tasks /\ h.returned_at \in Nat
    BY DEF TypeOK, Rows, Handles
  <2>00. NoOvercommit
    BY DEF FitsUnlessRevived, Next, Tick, AcquireResourceLease, RenewResourceLease,
           ReleaseResourceLease, vars
  <2>1. ASSUME lease' = lease, clock' = clock \/ clock' = clock + 1 PROVE NoOvercommit'
    <3>1. Active(clock)' \subseteq Active(clock)
      BY <2>0, <2>1 DEF Active
    <3> QED BY <2>00, <2>1, <3>1, FewerFit
  <2>2. ASSUME NEW h \in issued, NEW e \in Nat,
               lease[h.task].lease_until > clock \/ e = 0,
               lease' = [lease EXCEPT ![h.task].lease_until = e], clock' = clock
        PROVE  NoOvercommit'
    <3>1. \A t \in Tasks : /\ lease'[t].request = lease[t].request
                           /\ t # h.task => lease'[t] = lease[t]
                           /\ t = h.task => lease'[t].lease_until = e
      BY <2>0, <2>2 DEF TypeOK, Rows
    <3>2. Active(clock)' \subseteq Active(clock)
      BY <2>0, <2>2, <3>1 DEF Active
    <3> QED BY <2>00, <3>1, <3>2, FewerFit
  <2>3. ASSUME NEW h \in issued, NEW d \in LeaseSeconds, NEW ts \in Readings(h.returned_at),
               RenewResourceLease(h, d, ts)
        PROVE  NoOvercommit'
    <3>1. LeaseEnd(ts, d) \in Nat
      BY <2>0, TermAssumption DEF Readings, LeaseEnd
    <3>2. ~(lease[h.task].lease_until <= clock)
      BY <2>3 DEF RenewResourceLease
    <3>3. lease[h.task].lease_until > clock
      BY <2>0, <3>2
    <3> QED BY <2>2, <2>3, <3>1, <3>3 DEF RenewResourceLease
  <2>4. ASSUME NEW h \in issued, ReleaseResourceLease(h) PROVE NoOvercommit'
    BY <2>2, <2>4 DEF ReleaseResourceLease
  <2> QED BY <2>1, <2>3, <2>4, AcquireFits DEF Next, vars, Tick
<1> QED BY <1>1, <1>2, TypeCorrect, PTL DEF Spec

(***************************************************************************)
(* Whatever late renewals did before, a grant is only given when all the   *)
(* leases in force, the new one included, fit the capacity.                *)
(***************************************************************************)
THEOREM GrantsCorrect == Spec => GrantsFit
<1>1. TypeOK /\ [Next]_vars =>
        [(\E t \in Tasks : lease'[t].generation # lease[t].generation) => NoOvercommit']_vars
  <2> SUFFICES ASSUME TypeOK, Next, NEW u \in Tasks,
                      lease'[u].generation # lease[u].generation
               PROVE  NoOvercommit'
    OBVIOUS
  <2>1. ~Tick
    BY DEF Tick
  <2>2. ASSUME NEW h \in issued, NEW e, lease' = [lease EXCEPT ![h.task].lease_until = e]
        PROVE  FALSE
    <3>1. h.task \in Tasks
      BY DEF TypeOK, Handles
    <3>2. lease'[u].generation = lease[u].generation
      BY <2>2, <3>1 DEF TypeOK, Rows
    <3> QED BY <3>2
  <2>3. ASSUME NEW h \in issued PROVE ~ReleaseResourceLease(h)
    BY <2>2 DEF ReleaseResourceLease
  <2>4. ASSUME NEW h \in issued, NEW d, NEW ts PROVE ~RenewResourceLease(h, d, ts)
    BY <2>2 DEF RenewResourceLease
  <2> QED BY <2>1, <2>3, <2>4, AcquireFits DEF Next
<1> QED BY <1>1, TypeCorrect, PTL DEF Spec, GrantsFit

-----------------------------------------------------------------------------

\* A step of the two brokers is a step of the table or leaves it alone.
LEMMA BrokerStep == BrokerNext => [Next]_vars
  BY DEF BrokerNext, Both, Next

(***************************************************************************)
(* The broker without a store (the dictionary of ResourceBroker) runs      *)
(* beside the table and takes nothing away from it: everything proved of   *)
(* the table holds in the composition too.                                 *)
(***************************************************************************)
THEOREM BrokerIsTable == BrokerSpec => Spec
<1>1. BrokerInit => Init
  BY DEF BrokerInit
<1>2. [BrokerNext]_brokerVars => [Next]_vars
  BY BrokerStep DEF brokerVars
<1> QED BY <1>1, <1>2, PTL DEF BrokerSpec, Spec

\* The dictionary holds the rows that exist.
SameLeases ==
    /\ DOMAIN held \subseteq Tasks
    /\ \A t \in DOMAIN held : held[t] = lease[t] /\ lease[t].generation > 0
    /\ \A t \in Tasks \ DOMAIN held : lease[t] = NoRow

(***************************************************************************)
(* Over equal leases both brokers test requests, handles and ends alike.   *)
(***************************************************************************)
LEMMA SameTests ==
    ASSUME TypeOK, LeaseHistory, SameLeases, NEW ts \in Nat
    PROVE  /\ BrokerActive(ts) = Active(ts)
           /\ \A t \in Tasks, r \in Requests : BrokerAdmits(t, r, ts) <=> Admits(t, r, ts)
           /\ \A h \in issued : BrokerMatches(h) <=> Matches(h)
           /\ \A h \in issued : BrokerValidate(h, ts) <=> ValidateIdentity(h, ts)
<1>1. BrokerActive(ts) = Active(ts)
  BY DEF BrokerActive, Active, SameLeases, NoRow
<1>2. ASSUME NEW t \in Tasks, NEW r \in Requests
      PROVE  BrokerAdmits(t, r, ts) <=> Admits(t, r, ts)
  <2> DEFINE S == Active(ts) \ {t}
  <2>1. \A u \in S : u \in DOMAIN held /\ held[u] = lease[u]
    BY <1>1 DEF BrokerActive, SameLeases
  <2>2. \A i \in Dims : SumFunction([u \in S |-> held[u].request.units[i]]) = Used(i, S)
    <3> TAKE i \in Dims
    <3>1. [u \in S |-> held[u].request.units[i]] = [u \in S |-> lease[u].request.units[i]]
      BY <2>1
    <3> QED BY <3>1 DEF Used
  <2>3. (\A u \in S : held[u].request.exclusive_labels \cap r.exclusive_labels = {})
          <=> LabelsFree(r, S)
    BY <2>1 DEF LabelsFree, LabelsOf
  <2>4. t \notin BrokerActive(ts) <=> lease[t].lease_until <= ts
    BY <1>1 DEF Active, TypeOK, Rows
  <2> QED BY <1>1, <2>2, <2>3, <2>4 DEF BrokerAdmits, Admits, HasRoom
<1>3. ASSUME NEW h \in issued PROVE BrokerMatches(h) <=> Matches(h)
  <2>1. h.task \in Tasks /\ h.generation > 0
    BY DEF TypeOK, Handles, LeaseHistory
  <2> QED BY <2>1 DEF BrokerMatches, Matches, SameLeases, NoRow
<1>4. ASSUME NEW h \in issued PROVE BrokerValidate(h, ts) <=> ValidateIdentity(h, ts)
  BY <1>3, <1>4 DEF BrokerValidate, ValidateIdentity, BrokerMatches, SameLeases
<1> QED BY <1>1, <1>2, <1>3, <1>4

(***************************************************************************)
(* A broker without a store agrees with the table for ever.  Its renewal   *)
(* writes the handle's request into the entry; that this is the entry's    *)
(* own request is what LeaseHistory knows.                                 *)
(***************************************************************************)
THEOREM BrokerCorrect == BrokerSpec => []BrokerAgrees
<1>1. BrokerInit => SameLeases
  BY DEF BrokerInit, Init, SameLeases
<1>2. TypeOK /\ LeaseHistory /\ SameLeases /\ [BrokerNext]_brokerVars => SameLeases'
  <2> SUFFICES ASSUME TypeOK, LeaseHistory, SameLeases, [BrokerNext]_brokerVars
               PROVE  SameLeases'
    OBVIOUS
  <2>0. /\ clock \in Nat
        /\ \A h \in issued : h.task \in Tasks /\ h.returned_at \in Nat /\ h.generation > 0
        /\ \A t \in Tasks : lease[t].generation \in Nat
    BY DEF TypeOK, Handles, Rows, LeaseHistory
  <2>1. CASE UNCHANGED <<lease, held>>
    BY <2>1 DEF SameLeases
  <2>2. ASSUME NEW t \in Tasks, NEW entry, entry.generation > 0,
               lease' = [lease EXCEPT ![t] = entry], held' = Put(t, entry)
        PROVE  SameLeases'
    BY <2>2 DEF SameLeases, Put, TypeOK
  <2>3. ASSUME NEW t \in Tasks, NEW o \in Owners, NEW r \in Requests,
               NEW d \in LeaseSeconds, NEW ts \in Readings(1),
               Both(AcquireResourceLease(t, o, r, d, ts), Admits(t, r, ts),
                    BrokerAcquire(t, o, r, d, ts))
        PROVE  SameLeases'
    <3>1. BrokerAdmits(t, r, ts) <=> Admits(t, r, ts)
      BY <2>0, SameTests DEF Readings
    <3>2. CASE ~Admits(t, r, ts)
      BY <2>1, <2>3, <3>1, <3>2 DEF Both, BrokerAcquire, vars
    <3>3. CASE Admits(t, r, ts)
      <4> DEFINE entry == [owner |-> o, generation |-> lease[t].generation + 1,
                           lease_until |-> ts + d, request |-> r]
      <4>1. BrokerGeneration(t) = lease[t].generation + 1
        BY <2>0 DEF BrokerGeneration, SameLeases, NoRow
      <4>2. lease' = [lease EXCEPT ![t] = entry] /\ held' = Put(t, entry)
        BY <2>3, <3>1, <3>3, <4>1
           DEF Both, AcquireResourceLease, BrokerAcquire, NextGeneration, LeaseEnd
      <4>3. entry.generation > 0
        BY <2>0
      <4> HIDE DEF entry
      <4> QED BY <2>2, <4>2, <4>3
    <3> QED BY <3>2, <3>3
  <2>4. ASSUME NEW h \in issued, NEW d \in LeaseSeconds, NEW ts \in Readings(h.returned_at),
               Both(RenewResourceLease(h, d, ts), ValidateIdentity(h, ts), BrokerRenew(h, d, ts))
        PROVE  SameLeases'
    <3>1. ts \in Nat
      BY <2>0 DEF Readings
    <3>2. BrokerValidate(h, ts) <=> ValidateIdentity(h, ts)
      BY <3>1, SameTests
    <3>3. CASE ~ValidateIdentity(h, ts)
      BY <2>1, <2>4, <3>2, <3>3 DEF Both, BrokerRenew, vars
    <3>4. CASE ValidateIdentity(h, ts)
      <4> DEFINE entry == [owner |-> h.owner, generation |-> h.generation,
                           lease_until |-> ts + d, request |-> h.request]
      <4>1. Matches(h) /\ lease[h.task].request = h.request
        BY <3>4, HandleRequest DEF ValidateIdentity
      <4>2. lease[h.task] \in Rows
        BY <2>0 DEF TypeOK
      <4>3. [lease[h.task] EXCEPT !.lease_until = ts + d] = entry
        BY <4>1, <4>2 DEF Rows, Matches
      <4>4. held' = Put(h.task, entry)
        BY <2>4, <3>2, <3>4 DEF Both, BrokerRenew
      <4>5. lease' = [lease EXCEPT ![h.task] = entry]
        BY <2>0, <2>4, <3>4, <4>3 DEF Both, RenewResourceLease, LeaseEnd, TypeOK
      <4>6. entry.generation > 0
        BY <2>0
      <4> HIDE DEF entry
      <4> QED BY <2>0, <2>2, <4>4, <4>5, <4>6
    <3> QED BY <3>3, <3>4
  <2>5. ASSUME NEW h \in issued, Both(ReleaseResourceLease(h), Matches(h), BrokerRelease(h))
        PROVE  SameLeases'
    <3>1. BrokerMatches(h) <=> Matches(h)
      BY SameTests
    <3>2. CASE ~Matches(h)
      BY <2>1, <2>5, <3>1, <3>2 DEF Both, BrokerRelease, vars
    <3>3. CASE Matches(h)
      <4>1. /\ lease' = [lease EXCEPT ![h.task].lease_until = 0]
            /\ held' = [held EXCEPT ![h.task].lease_until = 0]
        BY <2>5, <3>1, <3>3 DEF Both, BrokerRelease, ReleaseResourceLease
      <4>2. h.task \in DOMAIN held
        BY <3>1, <3>3 DEF BrokerMatches
      <4> QED BY <2>0, <4>1, <4>2 DEF SameLeases, TypeOK, Rows
    <3> QED BY <3>2, <3>3
  <2> QED BY <2>1, <2>3, <2>4, <2>5 DEF BrokerNext, Tick, brokerVars, vars
<1>3. TypeOK /\ LeaseHistory /\ IdentityIsEnough /\ SameLeases => BrokerAgrees
  <2> SUFFICES ASSUME TypeOK, LeaseHistory, IdentityIsEnough, SameLeases PROVE BrokerAgrees
    OBVIOUS
  <2>1. \A t \in Tasks : lease[t] = IF t \in DOMAIN held THEN held[t] ELSE NoRow
    BY DEF SameLeases
  <2>2. ASSUME NEW h \in issued, NEW ts \in Readings(1)
        PROVE  BrokerValidate(h, ts) <=> Validate(h, ts)
    BY SameTests DEF IdentityIsEnough, Readings, TypeOK
  <2> QED BY <2>1, <2>2 DEF BrokerAgrees
<1> QED
  BY <1>1, <1>2, <1>3, BrokerIsTable, TypeCorrect, HistoryCorrect, IdentityCorrect, PTL
     DEF BrokerSpec
=============================================================================
