------------------------------ MODULE EventLog -------------------------------
(***************************************************************************)
(* The durable event log (storage.py, behind EventStore of events.py).     *)
(* Every save adds a row to event_outbox in its own transaction; the       *)
(* engines of a database move rows from there to the events table          *)
(* (flush_outbox).  They do so at the end of a step that went through      *)
(* execute and at the end of recover(), and nowhere else: a step that      *)
(* returns early or raises leaves its rows to somebody's later call.       *)
(*                                                                         *)
(* dispatch_event_outbox selects its rows before its transaction begins:   *)
(* sqlite3 opens one at the first write only.  Two engines may therefore   *)
(* work on the same rows; the UNIQUE event_id of events and INSERT OR      *)
(* IGNORE are what is left to tell them apart.  A row of an older schema   *)
(* has no event_id and is given a new one by whoever dispatches it.        *)
(***************************************************************************)
EXTENDS Integers, FiniteSets

CONSTANTS
    Engines,       \* processes that flush the outbox
    OldRows,       \* rows without an event_id the migration found
    Limit,         \* dispatch_event_outbox(limit)
    MaxRows,       \* bound: rows of the outbox
    MaxFailures    \* bound: transactions that fail, engines that die

ASSUME OldRowsAssumption == OldRows \in Nat
ASSUME LimitAssumption == Limit \in Nat \ {0}
ASSUME BoundsAssumption == MaxRows \in Nat /\ MaxFailures \in Nat

VARIABLES
    rows,       \* outbox_id of the newest row of event_outbox
    pending,    \* outbox_ids with dispatched = 0
    events,     \* rows of events: the sequence number, the outbox row it came from
    sequence,   \* the last sequence number AUTOINCREMENT gave out
    flushing,   \* engines inside flush_outbox
    picked,     \* what each engine selected, {} when it has nothing in hand
    failures

vars == <<rows, pending, events, sequence, flushing, picked, failures>>

Event == [sequence : Nat, row : Nat]

TypeOK ==
    /\ rows \in Nat
    /\ pending \subseteq 1..rows
    /\ events \subseteq Event
    /\ sequence \in Nat
    /\ flushing \subseteq Engines
    /\ picked \in [Engines -> SUBSET (1..rows)]
    /\ failures \in Nat

Logged == {e.row : e \in events}

Old == 1..OldRows

-----------------------------------------------------------------------------

Init ==
    /\ rows = OldRows
    /\ pending = Old
    /\ events = {}
    /\ sequence = 0
    /\ flushing = {}
    /\ picked = [d \in Engines |-> {}]
    /\ failures = 0

\* _insert_outbox, inside the transaction of the save it belongs to.
InsertOutbox ==
    /\ rows < MaxRows
    /\ rows' = rows + 1
    /\ pending' = pending \cup {rows + 1}
    /\ UNCHANGED <<events, sequence, flushing, picked, failures>>

\* d comes to the end of a step or of recover().  Nothing forces it to.
FlushOutbox(d) ==
    /\ d \notin flushing
    /\ flushing' = flushing \cup {d}
    /\ UNCHANGED <<rows, pending, events, sequence, picked, failures>>

\* The place of row i among the rows of S, from 1.
Place(i, S) == Cardinality({j \in S : j <= i})

\* SELECT ... WHERE dispatched=0 ORDER BY outbox_id LIMIT ?
FirstPending == {i \in pending : Place(i, pending) <= Limit}

\* d selects S, or returns when that is nothing.
Picks(d, S) ==
    /\ d \in flushing
    /\ picked[d] = {}
    /\ picked' = [picked EXCEPT ![d] = S]
    /\ flushing' = IF S = {} THEN flushing \ {d} ELSE flushing
    /\ UNCHANGED <<rows, pending, events, sequence, failures>>

\* Mutant: only a full batch is dispatched.
SelectFullBatch(d) == Picks(d, IF Cardinality(pending) >= Limit THEN FirstPending ELSE {})

Select(d) == Picks(d, FirstPending)

\* Mutant: a plain INSERT, without the UNIQUE event_id.
InsertedAlways(S) == S

\* INSERT OR IGNORE: a row whose event_id is in the log is ignored.
Inserted(S) == {i \in S : i \in Old \/ i \notin Logged}

\* UPDATE event_outbox SET dispatched=1
StillPending(S) == pending \ S

\* Mutant: INSERT OR REPLACE.
CommitReplacing(d) ==
    LET S == picked[d] IN
    /\ S # {}
    /\ events' = {e \in events : e.row \notin S}
                   \cup {[sequence |-> sequence + Place(i, S), row |-> i] : i \in S}
    /\ sequence' = sequence + Cardinality(S)
    /\ pending' = StillPending(S)
    /\ flushing' = flushing \ {d}
    /\ picked' = [picked EXCEPT ![d] = {}]
    /\ UNCHANGED <<rows, failures>>

\* The transaction.  An ignored INSERT uses up a sequence number, too.
Commit(d) ==
    LET S == picked[d] IN
    /\ S # {}
    /\ events' = events \cup {[sequence |-> sequence + Place(i, S), row |-> i] : i \in Inserted(S)}
    /\ sequence' = sequence + Cardinality(S)
    /\ pending' = StillPending(S)
    /\ flushing' = flushing \ {d}
    /\ picked' = [picked EXCEPT ![d] = {}]
    /\ UNCHANGED <<rows, failures>>

\* The transaction fails (the database is locked) and is rolled back, or d dies.
Fail(d) ==
    /\ d \in flushing
    /\ failures < MaxFailures
    /\ failures' = failures + 1
    /\ flushing' = flushing \ {d}
    /\ picked' = [picked EXCEPT ![d] = {}]
    /\ UNCHANGED <<rows, pending, events, sequence>>

Next ==
    \/ InsertOutbox
    \/ \E d \in Engines : FlushOutbox(d)
    \/ \E d \in Engines : Select(d)
    \/ \E d \in Engines : Commit(d)
    \/ \E d \in Engines : Fail(d)

Spec == Init /\ [][Next]_vars

\* An engine inside flush_outbox goes on; no engine is made to call it.
FairSpec == Spec /\ \A d \in Engines : WF_vars(Select(d)) /\ WF_vars(Commit(d))

-----------------------------------------------------------------------------

(***************************************************************************)
(* Whoever dispatches, and however often two engines picked the same rows: *)
(* the log has every row that is no longer pending and no other, one event *)
(* per row, in the order the saves were made.  (For rows with an event_id; *)
(* a row of the older schema may be logged twice by two engines.)          *)
(***************************************************************************)
OnceInOrder ==
    /\ Logged = (1..rows) \ pending
    /\ \A e, f \in events : e.sequence = f.sequence => e = f
    /\ \A e, f \in events : e.row \notin Old /\ f.row \notin Old =>
         /\ e.row = f.row => e = f
         /\ e.row < f.row => e.sequence < f.sequence

(***************************************************************************)
(* The log is only appended to: no event disappears, and none ever appears *)
(* at or before a sequence number a consumer may have acknowledged.        *)
(***************************************************************************)
AppendOnly ==
    [][/\ events \subseteq events'
       /\ \A e \in events, f \in events' \ events : e.sequence < f.sequence]_vars

\* The inductive invariant: the log holds the oldest rows, a selection has no gap
\* above the log, and sequence is at least every number in use.
LogInv ==
    /\ OnceInOrder
    /\ OldRows <= rows
    /\ \A i \in pending : \A j \in i..rows : j \in pending
    /\ \A d \in Engines : \A i \in picked[d] : \A j \in 1..i : j \in picked[d] \cup Logged
    /\ \A e \in events : e.sequence \in 1..sequence

(***************************************************************************)
(* As long as flush_outbox is called again and again, by whichever engine  *)
(* and whatever it saved itself, every row of the outbox reaches the log   *)
(* once the failures stop: rows that a step left behind when it returned   *)
(* early or raised, and rows beyond the limit of one call, too.  That the  *)
(* calls go on is up to the caller: if every later step is denied, waits   *)
(* or settles, no call comes, and the rows stay where they are.            *)
(***************************************************************************)
Delivered ==
    []<>(flushing # {}) => \A i \in 1..MaxRows : i \in pending ~> i \in Logged
=============================================================================
