--------------------------- MODULE ResourceBroker ----------------------------
(***************************************************************************)
(* ResourceBroker (resources.py) without a store: the leases are a         *)
(* dictionary of the process.  Here such a broker and a broker with the    *)
(* table of ResourceLeases are given the same calls, with the same         *)
(* explicit now_ts, one after the other.                                   *)
(***************************************************************************)
EXTENDS ResourceLeases

VARIABLE
    held    \* ResourceBroker._leases: a function on the tasks that have an entry

brokerVars == <<vars, held>>

Put(t, entry) == [u \in DOMAIN held \cup {t} |-> IF u = t THEN entry ELSE held[u]]

\* _active
BrokerActive(ts) == {t \in DOMAIN held : held[t].lease_until > ts}

\* The tests of acquire.
BrokerAdmits(t, r, ts) ==
    LET active == BrokerActive(ts) \ {t} IN
    /\ \A i \in Dims : r.units[i] <= Capacity[i]
    /\ t \notin BrokerActive(ts)
    /\ \A i \in Dims :
          SumFunction([u \in active |-> held[u].request.units[i]]) + r.units[i] <= Capacity[i]
    /\ \A u \in active : held[u].request.exclusive_labels \cap r.exclusive_labels = {}

BrokerGeneration(t) == IF t \in DOMAIN held THEN held[t].generation + 1 ELSE 1

BrokerAcquire(t, o, r, d, ts) ==
    held' = IF BrokerAdmits(t, r, ts)
            THEN Put(t, [owner |-> o, generation |-> BrokerGeneration(t),
                         lease_until |-> ts + d, request |-> r])
            ELSE held

\* The entry of the handle's task is the handle's own.
BrokerMatches(h) ==
    /\ h.task \in DOMAIN held
    /\ held[h.task].owner = h.owner
    /\ held[h.task].generation = h.generation

\* validate
BrokerValidate(h, ts) == BrokerMatches(h) /\ held[h.task].lease_until > ts

\* Mutant: the end of the lease is not looked at.
BrokerRenewLapsed(h, d, ts) ==
    held' = IF BrokerMatches(h)
            THEN Put(h.task, [owner |-> h.owner, generation |-> h.generation,
                              lease_until |-> ts + d, request |-> h.request])
            ELSE held

\* renew: the new entry is made of the handle, not of the old entry.
BrokerRenew(h, d, ts) ==
    held' = IF BrokerValidate(h, ts)
            THEN Put(h.task, [owner |-> h.owner, generation |-> h.generation,
                              lease_until |-> ts + d, request |-> h.request])
            ELSE held

BrokerRelease(h) ==
    held' = IF BrokerMatches(h) THEN [held EXCEPT ![h.task].lease_until = 0] ELSE held

-----------------------------------------------------------------------------

BrokerInit == Init /\ held = [t \in {} |-> NoRow]

\* One call to both; A is the store's step, which a refusal leaves out.
Both(A, granted, B) == (IF granted THEN A ELSE UNCHANGED vars) /\ B

BrokerNext ==
    \/ Tick /\ UNCHANGED held
    \/ \E t \in Tasks, o \in Owners, r \in Requests, d \in LeaseSeconds, ts \in Readings(1) :
          /\ Cardinality(issued) < MaxLeases
          /\ Both(AcquireResourceLease(t, o, r, d, ts), Admits(t, r, ts),
                  BrokerAcquire(t, o, r, d, ts))
    \/ \E h \in issued, d \in LeaseSeconds : \E ts \in Readings(h.returned_at) :
          Both(RenewResourceLease(h, d, ts), ValidateIdentity(h, ts), BrokerRenew(h, d, ts))
    \/ \E h \in issued : Both(ReleaseResourceLease(h), Matches(h), BrokerRelease(h))

BrokerSpec == BrokerInit /\ [][BrokerNext]_brokerVars

-----------------------------------------------------------------------------

(***************************************************************************)
(* A broker without a store promises what the table does: every request,   *)
(* renewal and release so far was answered alike, so both hold the same    *)
(* leases, although the broker renews from the handle and validates        *)
(* without the request.                                                    *)
(***************************************************************************)
BrokerAgrees ==
    /\ \A t \in Tasks : lease[t] = IF t \in DOMAIN held THEN held[t] ELSE NoRow
    /\ \A h \in issued, ts \in Readings(1) : BrokerValidate(h, ts) <=> Validate(h, ts)
=============================================================================
