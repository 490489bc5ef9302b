--------------------------- MODULE ResourceLeases ----------------------------
(***************************************************************************)
(* The table resource_leases of storage.py: admission of CPU, memory, GPU  *)
(* and exclusive labels against one capacity, shared by all engines.       *)
(* ResourceBroker (resources.py) forwards to it when it has a store; what  *)
(* it does without one is the module ResourceBroker.                       *)
(*                                                                         *)
(* As in TaskLeases a method reads the wall clock before it waits for the  *)
(* write lock, so it may work with a timestamp up to Delay old, and every  *)
(* handle ever returned may be used again at any time.                     *)
(***************************************************************************)
EXTENDS Integers, FiniteSets, Functions

CONSTANTS
    Tasks, Owners, NoOwner,
    Labels,         \* names an exclusive label may have
    Requests,       \* the resource requests of the capabilities
    Capacity,       \* ResourceCapacity, the same for every broker
    LeaseSeconds, Delay,
    MaxTime,        \* bound: the clock stops here
    MaxLeases       \* bound: leases granted, of all tasks together

Dims == {"cpu_units", "memory_mb", "gpu_units"}

ResourceRequest == [units : [Dims -> Nat], exclusive_labels : SUBSET Labels]

ASSUME ResourceOwnersAssumption == NoOwner \notin Owners
ASSUME TasksAssumption == IsFiniteSet(Tasks)
ASSUME RequestsAssumption == \A r \in Requests :
    r.units \in [Dims -> Nat] /\ r.exclusive_labels \subseteq Labels
    /\ r = [units |-> r.units, exclusive_labels |-> r.exclusive_labels]
ASSUME CapacityAssumption == Capacity \in [Dims -> Nat]
ASSUME TermAssumption == LeaseSeconds \subseteq Nat \ {0}
ASSUME BoundsAssumption == Delay \in Nat /\ MaxTime \in Nat /\ MaxLeases \in Nat

VARIABLES
    clock,      \* time.time(), from 1
    lease,      \* rows of resource_leases
    issued,     \* handles acquire_resource_lease returned, ever
    revived     \* history: some renewal extended a lease that had already ended

vars == <<clock, lease, issued, revived>>

Rows == [owner : Owners \cup {NoOwner}, generation : Nat, lease_until : Nat,
         request : ResourceRequest]

Handles == [task : Tasks, owner : Owners, generation : Nat, request : ResourceRequest,
            returned_at : Nat]

NoRequest == [units |-> [i \in Dims |-> 0], exclusive_labels |-> {}]

NoRow == [owner |-> NoOwner, generation |-> 0, lease_until |-> 0, request |-> NoRequest]

TypeOK ==
    /\ clock \in Nat \ {0}
    /\ lease \in [Tasks -> Rows]
    /\ issued \subseteq Handles
    /\ revived \in BOOLEAN

-----------------------------------------------------------------------------

\* The timestamps a transaction happening now may work with, when the call was
\* made no earlier than since: for a renewal, once the handle was returned.
Readings(since) == {ts \in since..clock : ts + Delay >= clock}

\* WHERE lease_until > ?
Active(ts) == {t \in Tasks : lease[t].lease_until > ts}

\* used_cpu, used_memory and used_gpu over the rows of S
Used(i, S) == SumFunction([t \in S |-> lease[t].request.units[i]])

LabelsOf(S) == UNION {lease[t].request.exclusive_labels : t \in S}

\* Mutant: a request is only compared with the capacity as a whole.
HasRoomAlone(r, S) == \A i \in Dims : r.units[i] <= Capacity[i]

HasRoom(r, S) == \A i \in Dims : Used(i, S) + r.units[i] <= Capacity[i]

\* Mutant: labels are not looked at.
LabelsFreeAlways(r, S) == TRUE

LabelsFree(r, S) == LabelsOf(S) \cap r.exclusive_labels = {}

\* Mutant: a released row starts again from generation 1.
NextGenerationReset(row) == IF row.lease_until = 0 THEN 1 ELSE row.generation + 1

NextGeneration(row) == row.generation + 1

LeaseEnd(ts, d) == ts + d

Matches(h) ==
    /\ lease[h.task].owner = h.owner
    /\ lease[h.task].generation = h.generation

\* validate_resource_lease_identity: what OperationRuntime asks before an effect.
ValidateIdentity(h, ts) == Matches(h) /\ lease[h.task].lease_until > ts

\* validate_resource_lease: the request is compared too.
Validate(h, ts) == ValidateIdentity(h, ts) /\ lease[h.task].request = h.request

-----------------------------------------------------------------------------

Init ==
    /\ clock = 1
    /\ lease = [t \in Tasks |-> NoRow]
    /\ issued = {}
    /\ revived = FALSE

Tick ==
    /\ clock < MaxTime
    /\ clock' = clock + 1
    /\ UNCHANGED <<lease, issued, revived>>

\* The broker's and the store's tests of a request r for task t.
Admits(t, r, ts) ==
    /\ \A i \in Dims : r.units[i] <= Capacity[i]
    /\ lease[t].lease_until <= ts
    /\ HasRoom(r, Active(ts) \ {t})
    /\ LabelsFree(r, Active(ts) \ {t})

\* A refused request (return None) changes nothing.
AcquireResourceLease(t, o, r, d, ts) ==
    LET g == NextGeneration(lease[t]) IN
    /\ Cardinality(issued) < MaxLeases
    /\ Admits(t, r, ts)
    /\ lease' = [lease EXCEPT ![t] = [owner |-> o, generation |-> g,
                                      lease_until |-> LeaseEnd(ts, d), request |-> r]]
    /\ issued' = issued \cup
         {[task |-> t, owner |-> o, generation |-> g, request |-> r, returned_at |-> clock]}
    /\ UNCHANGED <<clock, revived>>

\* The request of the row and the other rows are not looked at.
RenewResourceLease(h, d, ts) ==
    /\ Matches(h)
    /\ lease[h.task].lease_until > ts
    /\ lease' = [lease EXCEPT ![h.task].lease_until = LeaseEnd(ts, d)]
    /\ revived' = (revived \/ lease[h.task].lease_until <= clock)
    /\ UNCHANGED <<clock, issued>>

\* Mutant: only the owner is compared, and the row is deleted.
ReleaseByOwner(h) ==
    /\ lease[h.task].owner = h.owner
    /\ lease' = [lease EXCEPT ![h.task] = NoRow]
    /\ UNCHANGED <<clock, issued, revived>>

ReleaseResourceLease(h) ==
    /\ Matches(h)
    /\ lease' = [lease EXCEPT ![h.task].lease_until = 0]
    /\ UNCHANGED <<clock, issued, revived>>

Next ==
    \/ Tick
    \/ \E t \in Tasks, o \in Owners, r \in Requests, d \in LeaseSeconds, ts \in Readings(1) :
          AcquireResourceLease(t, o, r, d, ts)
    \/ \E h \in issued, d \in LeaseSeconds : \E ts \in Readings(h.returned_at) :
          RenewResourceLease(h, d, ts)
    \/ \E h \in issued : ReleaseResourceLease(h)

Spec == Init /\ [][Next]_vars

-----------------------------------------------------------------------------

(***************************************************************************)
(* "bounded CPU / memory / GPU resource admission": the leases in force    *)
(* never add up to more than the capacity.                                 *)
(***************************************************************************)
NoOvercommit == \A i \in Dims : Used(i, Active(clock)) <= Capacity[i]

\* An exclusive label belongs to at most one lease in force.
LabelsExclusive ==
    \A t, u \in Active(clock) :
        t # u => lease[t].request.exclusive_labels
                   \cap lease[u].request.exclusive_labels = {}

(***************************************************************************)
(* A renewal that waited for the lock past the end of its lease is the     *)
(* only way to exceed the capacity: acquisitions with old timestamps,      *)
(* expiry, early release and late handles of earlier generations never do. *)
(***************************************************************************)
FitsUnlessRevived == revived \/ NoOvercommit

(***************************************************************************)
(* The same for exclusive labels: two leases in force share one only after *)
(* a renewal revived a lease that had ended.                               *)
(***************************************************************************)
LabelsUnlessRevived == revived \/ LabelsExclusive

(***************************************************************************)
(* Whatever late renewals did before, a grant is only given when the       *)
(* leases in force, the new one included, fit the capacity.                *)
(***************************************************************************)
GrantsFit ==
    [][(\E t \in Tasks : lease'[t].generation # lease[t].generation) => NoOvercommit']_vars

(***************************************************************************)
(* validate_resource_lease_identity, which OperationRuntime uses, knows    *)
(* only owner and generation; it accepts a handle exactly when the full    *)
(* comparison of validate_resource_lease does.                             *)
(***************************************************************************)
IdentityIsEnough ==
    \A h \in issued, ts \in Readings(1) : ValidateIdentity(h, ts) <=> Validate(h, ts)

\* The strengthening IdentityIsEnough needs: what issued says about the rows.
LeaseHistory ==
    /\ \A h \in issued : h.returned_at \in 1..clock
    /\ \A h \in issued : h.generation \in 1..lease[h.task].generation
    /\ \A t \in Tasks : lease[t].generation > 0 =>
         \E h \in issued : h.task = t /\ Matches(h) /\ h.request = lease[t].request
    /\ \A t \in Tasks : lease[t].generation = 0 => lease[t] = NoRow
    /\ \A g, h \in issued : g.task = h.task /\ g.generation = h.generation => g = h

StatusOf(row) ==
    IF row.generation = 0 THEN "never"
    ELSE IF row.lease_until = 0 THEN "released"
    ELSE IF row.lease_until > clock THEN "live" ELSE "lapsed"

GrantOf == [t \in Tasks |->
    [owner |-> lease[t].owner, id |-> lease[t].generation, status |-> StatusOf(lease[t])]]

Fenced == INSTANCE FencedLease WITH Keys <- Tasks, grant <- GrantOf

(***************************************************************************)
(* Resource leases keep the same promise as task leases.                   *)
(***************************************************************************)
ImplementsFencedLease == Fenced!Spec
=============================================================================
