--------------------------- MODULE MemoryPipeline ----------------------------
(***************************************************************************)
(* The memory consumer of the event log: MemoryPipeline.run_once and       *)
(* MemoryStore (memory.py) over process_memory_event, read_events_after    *)
(* and ack_event_consumer (storage.py).                                    *)
(*                                                                         *)
(* A record, the receipt of its event and the cursor are written in one    *)
(* immediate transaction.  run_once acknowledges the event once more       *)
(* afterwards, and that acknowledgement reads the cursor before its        *)
(* transaction: with a second pipeline on the database it may set the      *)
(* cursor back, and events are then read again.                            *)
(*                                                                         *)
(* An event is what _candidate_from_event and _validate make of it: the    *)
(* partition, scope, key and kind it is about, as one key, or no valid     *)
(* candidate.  Events are numbered from 1 in the order of EventLog; gaps   *)
(* in the numbers make no difference here.                                 *)
(***************************************************************************)
EXTENDS Integers, Sequences, FiniteSets

CONSTANTS
    Pipelines,     \* processes that run the pipeline
    Keys,          \* partition, scope, key and kind of a record
    NoCandidate,   \* an event of no interest, or an invalid candidate
    Limit,         \* run_once(limit)
    MaxEvents,     \* bound: events in the log
    MaxFailures    \* bound: failing transactions and dying processes

ASSUME CandidateAssumption == NoCandidate \notin Keys
ASSUME LimitAssumption == Limit \in Nat \ {0}
ASSUME BoundsAssumption == MaxEvents \in Nat /\ MaxFailures \in Nat

VARIABLES
    log,        \* the events table
    cursor,     \* consumer_cursors of 'memory'
    receipt,    \* consumer_receipts: -1 none, 0 ignored, else the record (result_ref)
    records,    \* memory_records, by memory_id
    at,         \* where each pipeline is in run_once
    since,      \* the cursor it read
    batch,      \* the events it has still to handle
    latest,     \* MemoryStore.latest_by_key of each process, 0 where there is no entry
    failures

vars == <<log, cursor, receipt, records, at, since, batch, latest, failures>>

Record == [source : Nat, key : Keys, revision : Nat, supersedes : Nat]

TypeOK ==
    /\ log \in Seq(Keys \cup {NoCandidate})
    /\ cursor \in 0..Len(log)
    /\ receipt \in [1..Len(log) -> Int]
    /\ \A i \in 1..Len(log) : receipt[i] \in -1..Len(records)
    /\ records \in Seq(Record)
    /\ at \in [Pipelines -> {"idle", "select", "process", "ack", "acked"}]
    /\ since \in [Pipelines -> 0..Len(log)]
    /\ \A p \in Pipelines : \A n \in 1..Len(batch[p]) : batch[p][n] \in 1..Len(log)
    /\ \A p \in Pipelines : at[p] \in {"process", "ack", "acked"} => batch[p] # <<>>
    /\ latest \in [Pipelines -> [Keys -> 0..Len(records)]]
    /\ failures \in Nat

-----------------------------------------------------------------------------

\* The records of a key.
Of(k) == {m \in 1..Len(records) : records[m].key = k}

\* ORDER BY revision DESC LIMIT 1; 0 if there is none.
Newest(k) ==
    IF Of(k) = {} THEN 0
    ELSE CHOOSE m \in Of(k) : \A n \in Of(k) : records[n].revision <= records[m].revision

\* from_persistence goes through the records by revision and keeps the last of a key.
Loaded(k) ==
    IF Of(k) = {} THEN 0
    ELSE CHOOSE m \in Of(k) : \A n \in Of(k) : records[n].revision <= records[m].revision

Init ==
    /\ log = <<>>
    /\ cursor = 0
    /\ receipt = <<>>
    /\ records = <<>>
    /\ at = [p \in Pipelines |-> "idle"]
    /\ since = [p \in Pipelines |-> 0]
    /\ batch = [p \in Pipelines |-> <<>>]
    /\ latest = [p \in Pipelines |-> [k \in Keys |-> 0]]
    /\ failures = 0

\* An engine dispatches an event.
Dispatch(c) ==
    /\ Len(log) < MaxEvents
    /\ log' = Append(log, c)
    /\ receipt' = Append(receipt, -1)
    /\ UNCHANGED <<cursor, records, at, since, batch, latest, failures>>

\* read_events_after: the cursor, and then the events after it, sliced by run_once.
ReadCursor(p) ==
    /\ at[p] = "idle"
    /\ at' = [at EXCEPT ![p] = "select"]
    /\ since' = [since EXCEPT ![p] = cursor]
    /\ UNCHANGED <<log, cursor, receipt, records, batch, latest, failures>>

AtMost(n, m) == IF n <= m THEN n ELSE m

ReadEvents(p) ==
    LET n == AtMost(Limit, Len(log) - since[p]) IN
    /\ at[p] = "select"
    /\ batch' = [batch EXCEPT ![p] = [i \in 1..n |-> since[p] + i]]
    /\ at' = [at EXCEPT ![p] = IF n = 0 THEN "idle" ELSE "process"]
    /\ UNCHANGED <<log, cursor, receipt, records, since, latest, failures>>

\* CASE WHEN excluded.sequence > consumer_cursors.sequence ...
Advanced(i) == IF i > cursor THEN i ELSE cursor

\* process_memory_event for an event without a receipt: nothing to remember.
Ignore(p) ==
    LET i == Head(batch[p]) IN
    /\ at[p] = "process"
    /\ receipt[i] = -1
    /\ log[i] = NoCandidate
    /\ receipt' = [receipt EXCEPT ![i] = 0]
    /\ cursor' = Advanced(i)
    /\ at' = [at EXCEPT ![p] = "ack"]
    /\ UNCHANGED <<log, records, since, batch, latest, failures>>

\* Mutant: the previous record is the one the process has in its cache.
PreviousCached(p, k) == latest[p][k]

Previous(p, k) == Newest(k)

\* MemoryStore.commit: the record that came back is now the latest of its key.
Remember(p, k, m) == [latest EXCEPT ![p][k] = m]

\* Mutant: the receipt is not looked at.
CommitUnchecked(p) ==
    LET i == Head(batch[p])
        k == log[i]
        m == Previous(p, k)
    IN
    /\ at[p] = "process"
    /\ k # NoCandidate
    /\ records' = Append(records,
         [source |-> i, key |-> k, supersedes |-> m,
          revision |-> IF m = 0 THEN 1 ELSE records[m].revision + 1])
    /\ receipt' = [receipt EXCEPT ![i] = Len(records) + 1]
    /\ cursor' = Advanced(i)
    /\ latest' = Remember(p, k, Len(records) + 1)
    /\ at' = [at EXCEPT ![p] = "ack"]
    /\ UNCHANGED <<log, since, batch, failures>>

\* process_memory_event for a candidate without a receipt, and MemoryStore.commit.
CommitRecord(p) ==
    LET i == Head(batch[p])
        k == log[i]
        m == Previous(p, k)
    IN
    /\ at[p] = "process"
    /\ receipt[i] = -1
    /\ k # NoCandidate
    /\ records' = Append(records,
         [source |-> i, key |-> k, supersedes |-> m,
          revision |-> IF m = 0 THEN 1 ELSE records[m].revision + 1])
    /\ receipt' = [receipt EXCEPT ![i] = Len(records) + 1]
    /\ cursor' = Advanced(i)
    /\ latest' = Remember(p, k, Len(records) + 1)
    /\ at' = [at EXCEPT ![p] = "ack"]
    /\ UNCHANGED <<log, since, batch, failures>>

\* Mutant: an event that was handled before is not acknowledged.
ReplayUnacknowledged(p) ==
    LET i == Head(batch[p]) IN
    /\ at[p] = "process"
    /\ receipt[i] # -1
    /\ at' = [at EXCEPT ![p] = "idle"]
    /\ batch' = [batch EXCEPT ![p] = <<>>]
    /\ UNCHANGED <<log, cursor, receipt, records, since, latest, failures>>

\* process_memory_event for an event with a receipt: the record it points to, if any,
\* becomes the latest one of its key in this process.
Replay(p) ==
    LET i == Head(batch[p]) IN
    /\ at[p] = "process"
    /\ receipt[i] # -1
    /\ latest' = IF receipt[i] = 0 THEN latest
                 ELSE Remember(p, records[receipt[i]].key, receipt[i])
    /\ at' = [at EXCEPT ![p] = "ack"]
    /\ UNCHANGED <<log, cursor, receipt, records, since, batch, failures>>

\* The next event of the batch, or the end of run_once.
Proceed(p) ==
    /\ batch' = [batch EXCEPT ![p] = Tail(@)]
    /\ at' = [at EXCEPT ![p] = IF Tail(batch[p]) = <<>> THEN "idle" ELSE "process"]

\* ack_event_consumer up to its transaction: an older number returns at once.
AckRead(p) ==
    /\ at[p] = "ack"
    /\ \/ /\ Head(batch[p]) < cursor
          /\ Proceed(p)
       \/ /\ Head(batch[p]) >= cursor
          /\ at' = [at EXCEPT ![p] = "acked"]
          /\ UNCHANGED batch
    /\ UNCHANGED <<log, cursor, receipt, records, since, latest, failures>>

\* Mutant: the whole batch is acknowledged with its first event.
AckWriteBatch(p) ==
    /\ at[p] = "acked"
    /\ cursor' = batch[p][Len(batch[p])]
    /\ Proceed(p)
    /\ UNCHANGED <<log, receipt, records, since, latest, failures>>

AckWrite(p) ==
    /\ at[p] = "acked"
    /\ cursor' = Head(batch[p])
    /\ Proceed(p)
    /\ UNCHANGED <<log, receipt, records, since, latest, failures>>

\* A transaction raises: it is rolled back and run_once is over.
Fail(p) ==
    /\ at[p] \in {"process", "acked"}
    /\ failures < MaxFailures
    /\ failures' = failures + 1
    /\ at' = [at EXCEPT ![p] = "idle"]
    /\ batch' = [batch EXCEPT ![p] = <<>>]
    /\ UNCHANGED <<log, cursor, receipt, records, since, latest>>

\* The process dies and starts again (MemoryStore.from_persistence).
Restart(p) ==
    /\ failures < MaxFailures
    /\ failures' = failures + 1
    /\ at' = [at EXCEPT ![p] = "idle"]
    /\ batch' = [batch EXCEPT ![p] = <<>>]
    /\ latest' = [latest EXCEPT ![p] = [k \in Keys |-> Loaded(k)]]
    /\ UNCHANGED <<log, cursor, receipt, records, since>>

\* What run_once does once called, but for a failure.
RunOnce(p) ==
    \/ ReadCursor(p) \/ ReadEvents(p)
    \/ Ignore(p) \/ CommitRecord(p) \/ Replay(p)
    \/ AckRead(p) \/ AckWrite(p)

Next ==
    \/ \E c \in Keys \cup {NoCandidate} : Dispatch(c)
    \/ \E p \in Pipelines : RunOnce(p)
    \/ \E p \in Pipelines : Fail(p)
    \/ \E p \in Pipelines : Restart(p)

Spec == Init /\ [][Next]_vars

\* run_once is called again and again.
FairSpec == Spec /\ \A p \in Pipelines : WF_vars(RunOnce(p))

-----------------------------------------------------------------------------

(***************************************************************************)
(* No event is passed over: whatever the pipelines do to the cursor, every *)
(* event up to it has been handled, and events are handled in the order of *)
(* the log.                                                                *)
(***************************************************************************)
NoneSkipped ==
    /\ \A i \in 1..cursor : receipt[i] # -1
    /\ \A i, j \in 1..Len(log) : i < j /\ receipt[j] # -1 => receipt[i] # -1

(***************************************************************************)
(* An event is remembered exactly once, however often it is read: there is *)
(* one record for each handled event with a candidate and none for any     *)
(* other, and the receipt names it.                                        *)
(***************************************************************************)
RememberedOnce ==
    /\ \A m, n \in 1..Len(records) : records[m].source = records[n].source => m = n
    /\ \A m \in 1..Len(records) : receipt[records[m].source] = m
    /\ \A i \in 1..Len(log) : receipt[i] = 0 => log[i] = NoCandidate
    /\ \A i \in 1..Len(log) : receipt[i] > 0 =>
         records[receipt[i]].source = i /\ records[receipt[i]].key = log[i]

(***************************************************************************)
(* The records of a key form one chain in the order of their events:       *)
(* revision 1, 2, 3..., each superseding the one before, whichever process *)
(* wrote them and whatever its cache held.                                 *)
(***************************************************************************)
OneChain ==
    \A m \in 1..Len(records) :
        LET r == records[m] IN
        /\ r.revision = Cardinality({n \in Of(r.key) : records[n].source <= r.source})
        /\ r.supersedes = 0 <=> r.revision = 1
        /\ r.supersedes # 0 =>
             records[r.supersedes].key = r.key /\ records[r.supersedes].revision = r.revision - 1

(***************************************************************************)
(* Once events and failures stop, the cursor settles at the end of the log *)
(* although acknowledgements may set it back on the way.                   *)
(***************************************************************************)
CursorSettles == <>[](cursor = Len(log))
=============================================================================
