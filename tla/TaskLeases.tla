----------------------------- MODULE TaskLeases ------------------------------
(***************************************************************************)
(* The table task_leases of storage.py, as the engines that share one      *)
(* database see it.  TaskScheduler (runtime.py) forwards every call to     *)
(* these methods when it has a store.                                      *)
(*                                                                         *)
(* Every method reads the wall clock first and then waits for SQLite's     *)
(* write lock (sqlite3.connect's busy timeout), so the timestamp a         *)
(* transaction works with may be up to Delay older than the moment the     *)
(* transaction happens.  Every handle ever returned by a claim stays in    *)
(* issued: a stalled or superseded engine may call renew or release with   *)
(* it at any later time, any number of times.                              *)
(***************************************************************************)
EXTENDS Integers, FiniteSets

CONSTANTS
    Tasks,          \* task ids; numbers, because task_id breaks ties
    Owners,         \* owner ids of the engines
    NoOwner,        \* owner of a missing row
    Interactive,    \* the tasks whose lane is 'interactive'
    Priority,       \* priority of each task
    LeaseSeconds,   \* values of the lease_seconds argument
    Delay,          \* longest wait between reading the clock and the lock
    MaxTime,        \* bound: the clock stops here
    MaxGeneration   \* bound: claims of one task

ASSUME TasksAssumption == Tasks \subseteq Int
ASSUME OwnersAssumption == NoOwner \notin Owners
ASSUME LaneAssumption == Interactive \subseteq Tasks
ASSUME PriorityAssumption == Priority \in [Tasks -> Int]
ASSUME LeaseSecondsAssumption == LeaseSeconds \subseteq Nat \ {0}
ASSUME BoundsAssumption == Delay \in Nat /\ MaxTime \in Nat /\ MaxGeneration \in Nat

VARIABLES
    clock,      \* time.time(), from 1: the epoch is long past
    queued,     \* tasks with state QUEUED, desired state RUNNING and a queued_at
    queuedAt,   \* queued_at of each task
    lease,      \* rows of task_leases
    issued      \* handles claim_next_task returned, ever

vars == <<clock, queued, queuedAt, lease, issued>>

Rows == [owner : Owners \cup {NoOwner}, generation : Nat, lease_until : Nat]

\* What a claim returned, and when.
Handles == [task : Tasks, owner : Owners, generation : Nat, returned_at : Nat]

\* A task with no row.  generation 0 and lease_until 0 are never written by a claim.
NoRow == [owner |-> NoOwner, generation |-> 0, lease_until |-> 0]

TypeOK ==
    /\ clock \in Nat \ {0}
    /\ queued \subseteq Tasks
    /\ queuedAt \in [Tasks -> Nat]
    /\ lease \in [Tasks -> Rows]
    /\ issued \subseteq Handles

-----------------------------------------------------------------------------

\* The timestamps a transaction happening now may work with, when the call was
\* made no earlier than since: for a renewal, once the handle was returned.
Readings(since) == {ts \in since..clock : ts + Delay >= clock}

\* Mutant: the lease of the row is not looked at.
ClaimableHeld(ts) == queued

\* WHERE ... AND (l.task_id IS NULL OR l.lease_until <= ?)
Claimable(ts) == {t \in queued : lease[t].lease_until <= ts}

LaneRank(t) == IF t \in Interactive THEN 0 ELSE 1

\* Mutant: age alone decides.
BeforeByAge(t, u) == queuedAt[t] < queuedAt[u] \/ (queuedAt[t] = queuedAt[u] /\ t < u)

\* ORDER BY lane, priority DESC, queued_at ASC, task_id ASC
Before(t, u) ==
    \/ LaneRank(t) < LaneRank(u)
    \/ LaneRank(t) = LaneRank(u) /\ Priority[t] > Priority[u]
    \/ LaneRank(t) = LaneRank(u) /\ Priority[t] = Priority[u] /\ queuedAt[t] < queuedAt[u]
    \/ LaneRank(t) = LaneRank(u) /\ Priority[t] = Priority[u] /\ queuedAt[t] = queuedAt[u] /\ t < u

\* Mutant: a released row starts again from generation 1.
NextGenerationReset(row) == IF row.lease_until = 0 THEN 1 ELSE row.generation + 1

\* generation = 1 if row["generation"] is None else int(row["generation"]) + 1
NextGeneration(row) == row.generation + 1

\* lease_until = ts + lease_seconds
LeaseEnd(ts, d) == ts + d

\* Mutant: the generation is not compared.
MatchesOwner(h) == lease[h.task].owner = h.owner

\* The WHERE clause renew, release and both validate methods share.
Matches(h) ==
    /\ lease[h.task].owner = h.owner
    /\ lease[h.task].generation = h.generation

\* validate_task_lease and validate_task_lease_identity at timestamp ts.
ValidateTaskLease(h, ts) == Matches(h) /\ lease[h.task].lease_until > ts

-----------------------------------------------------------------------------

Init ==
    /\ clock = 1
    /\ queued = {}
    /\ queuedAt = [t \in Tasks |-> 0]
    /\ lease = [t \in Tasks |-> NoRow]
    /\ issued = {}

Tick ==
    /\ clock < MaxTime
    /\ clock' = clock + 1
    /\ UNCHANGED <<queued, queuedAt, lease, issued>>

\* TaskScheduler.submit: TaskRuntime.queue stores the row (again).
Submit(t) ==
    /\ queued' = queued \cup {t}
    /\ queuedAt' = [queuedAt EXCEPT ![t] = clock]
    /\ UNCHANGED <<clock, lease, issued>>

\* Any save that takes the task out of QUEUED or of desired state RUNNING.
Dequeue(t) ==
    /\ t \in queued
    /\ queued' = queued \ {t}
    /\ UNCHANGED <<clock, queuedAt, lease, issued>>

ClaimNextTask(o, d, ts) ==
    \E t \in Claimable(ts) :
        /\ \A u \in Claimable(ts) \ {t} : Before(t, u)
        /\ lease[t].generation < MaxGeneration
        /\ lease' = [lease EXCEPT ![t] =
                       [owner |-> o, generation |-> NextGeneration(lease[t]),
                        lease_until |-> LeaseEnd(ts, d)]]
        /\ issued' = issued \cup
             {[task |-> t, owner |-> o, generation |-> NextGeneration(lease[t]),
              returned_at |-> clock]}
        /\ UNCHANGED <<clock, queued, queuedAt>>

RenewTaskLease(h, d, ts) ==
    /\ Matches(h)
    /\ lease[h.task].lease_until > ts
    /\ lease' = [lease EXCEPT ![h.task].lease_until = LeaseEnd(ts, d)]
    /\ UNCHANGED <<clock, queued, queuedAt, issued>>

ReleaseTaskLease(h) ==
    /\ Matches(h)
    /\ lease' = [lease EXCEPT ![h.task].lease_until = 0]
    /\ UNCHANGED <<clock, queued, queuedAt, issued>>

Next ==
    \/ Tick
    \/ \E t \in Tasks : Submit(t)
    \/ \E t \in Tasks : Dequeue(t)
    \/ \E o \in Owners, d \in LeaseSeconds, ts \in Readings(1) : ClaimNextTask(o, d, ts)
    \/ \E h \in issued, d \in LeaseSeconds : \E ts \in Readings(h.returned_at) :
          RenewTaskLease(h, d, ts)
    \/ \E h \in issued : ReleaseTaskLease(h)

Spec == Init /\ [][Next]_vars

-----------------------------------------------------------------------------

(***************************************************************************)
(* Two different handles of one task are never valid at the same time,     *)
(* whatever the engines do with the handles they keep: generation is what  *)
(* keeps a superseded engine out even when the same owner claimed again.   *)
(***************************************************************************)
OneValidHandle ==
    \A g, h \in issued : \A a, b \in Readings(1) :
        g.task = h.task /\ ValidateTaskLease(g, a) /\ ValidateTaskLease(h, b) => g = h

\* Every handle issued for a task carries a generation the table has reached,
\* the row itself was issued, and one generation names one owner.
LeaseHistory ==
    /\ \A h \in issued : h.returned_at \in 1..clock
    /\ \A h \in issued : h.generation \in 1..lease[h.task].generation
    /\ \A t \in Tasks : lease[t].generation > 0 =>
         \E h \in issued : h.task = t /\ Matches(h)
    /\ \A t \in Tasks : lease[t].generation = 0 => lease[t] = NoRow
    /\ \A g, h \in issued : g.task = h.task /\ g.generation = h.generation => g = h

(***************************************************************************)
(* A claim never passes over a task it should have preferred: a task whose *)
(* generation grows in a step comes first, by lane, then priority, then    *)
(* age, of the queued tasks that were free for the whole delay.            *)
(***************************************************************************)
ClaimTakesFirst ==
    [][\A t, u \in Tasks :
          /\ lease'[t].generation # lease[t].generation
          /\ u \in queued
          /\ lease[u].lease_until + Delay <= clock
          => /\ u \in Interactive => t \in Interactive
             /\ LaneRank(t) = LaneRank(u) =>
                  /\ Priority[t] >= Priority[u]
                  /\ Priority[t] = Priority[u] => queuedAt[t] <= queuedAt[u]]_vars

\* The grant that the row of a task stands for.
StatusOf(row) ==
    IF row.generation = 0 THEN "never"
    ELSE IF row.lease_until = 0 THEN "released"
    ELSE IF row.lease_until > clock THEN "live" ELSE "lapsed"

GrantOf == [t \in Tasks |->
    [owner |-> lease[t].owner, id |-> lease[t].generation, status |-> StatusOf(lease[t])]]

Fenced == INSTANCE FencedLease WITH Keys <- Tasks, grant <- GrantOf

(***************************************************************************)
(* The table implements the abstract lease: no claim while a lease is      *)
(* live, a fresh generation per claim, no return of a superseded or        *)
(* released lease.                                                         *)
(***************************************************************************)
ImplementsFencedLease == Fenced!Spec
=============================================================================
