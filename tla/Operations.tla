----------------------------- MODULE Operations ------------------------------
(***************************************************************************)
(* OperationRuntime (runtime.py) and the operation part of                 *)
(* RecoveryCoordinator (recovery.py): the operations of one task, from     *)
(* prepare through the external effect to verification, and their recovery *)
(* after a crash.                                                          *)
(*                                                                         *)
(* An engine is one single-threaded process.  It works on its own copies   *)
(* of the operations and of the task's budget (mem, started), loaded once  *)
(* at startup; a save writes the whole copy over the row.  Each action     *)
(* below is what happens up to and including one database transaction or   *)
(* one call of a capability, since between two of them the process may die *)
(* and another engine may run.  A failing save raises: the copy has        *)
(* already changed, the row has not, and the caller's step or recover() is *)
(* over.                                                                   *)
(*                                                                         *)
(* The task lease is the abstract one of FencedLease: at most one engine   *)
(* holds it, and it may lapse at any moment.                               *)
(***************************************************************************)
EXTENDS Integers, FiniteSets

CONSTANTS
    Engines,         \* processes that share the database
    Ops,             \* operation ids
    None,            \* no engine, no operation
    MaxOperations,   \* budget.max_operations; negative means unlimited
    Installations,   \* possible sets of operations whose capability is installed
    MaxCrashes       \* bound: crashes of engines

ASSUME NoneAssumption == None \notin Engines /\ None \notin Ops
ASSUME BudgetAssumption == MaxOperations \in Int
ASSUME InstallationsAssumption == Installations \subseteq SUBSET Ops
ASSUME CrashesAssumption == MaxCrashes \in Nat
ASSUME FiniteAssumption == IsFiniteSet(Ops)

VARIABLES
    db,          \* rows of operations: state and result
    last,        \* type of the newest event about each operation in the outbox
    startedDb,   \* budget_operations_started of the task row
    mem,         \* OperationRuntime.operations of each engine
    started,     \* task.budget.operations_started in each engine's copy
    at,          \* where each engine is
    cur,         \* the operation it is working on
    todo,        \* operations its recover() has still to visit
    recovering,  \* engines inside recover()
    installed,   \* OperationRuntime.capabilities, as a set of operations
    holder,      \* the engine with a valid lease of the task
    effects,     \* how often the capability's execute was entered, per operation
    crashes

vars == <<db, last, startedDb, mem, started, at, cur, todo, recovering, installed,
          holder, effects, crashes>>

OperationState == {"ABSENT", "PREPARED", "RUNNING", "OBSERVED", "VERIFYING", "VERIFIED",
                   "FAILED", "UNKNOWN", "RECONCILING", "CANCELLED"}

Terminal == {"VERIFIED", "FAILED", "CANCELLED"}

\* Mutant: an operation the process died in is not visited.
InFlightNotRunning == {"PREPARED", "UNKNOWN", "RECONCILING", "OBSERVED", "VERIFYING"}

\* The states recover() visits.
InFlight == {"PREPARED", "RUNNING", "UNKNOWN", "RECONCILING", "OBSERVED", "VERIFYING"}

Operation == [state : OperationState, result : {"none", "value"}]

Absent == [state |-> "ABSENT", result |-> "none"]

EventType == {"none", "prepared", "started", "unknown", "verify_missing_result",
              "verify_error", "verified", "verification_failed", "abandoned_prepared",
              "reconciling", "reconcile_error", "reconciled"}

Labels == {"down", "idle", "save_prepared", "execute", "start", "effect", "outcome",
           "verify", "verifying", "recover", "reconcile"}

TypeOK ==
    /\ db \in [Ops -> Operation]
    /\ last \in [Ops -> EventType]
    /\ startedDb \in Nat
    /\ mem \in [Engines -> [Ops -> Operation]]
    /\ started \in [Engines -> Nat]
    /\ at \in [Engines -> Labels]
    /\ cur \in [Engines -> Ops \cup {None}]
    /\ \A e \in Engines : cur[e] = None => at[e] \in {"down", "idle", "recover"}
    /\ todo \in [Engines -> SUBSET Ops]
    /\ recovering \subseteq Engines
    /\ installed \in [Engines -> SUBSET Ops]
    /\ holder \in Engines \cup {None}
    /\ effects \in [Ops -> Nat]
    /\ crashes \in Nat

-----------------------------------------------------------------------------

Goto(e, label) == at' = [at EXCEPT ![e] = label]

\* An exception leaves the agent's step, or recover(), at once.
Abort(e) ==
    /\ Goto(e, "idle")
    /\ cur' = [cur EXCEPT ![e] = None]
    /\ todo' = [todo EXCEPT ![e] = {}]
    /\ recovering' = recovering \ {e}

\* The operation is finished for now: back to recover()'s loop, or out of the step.
Return(e) ==
    /\ Goto(e, IF e \in recovering THEN "recover" ELSE "idle")
    /\ cur' = [cur EXCEPT ![e] = None]
    /\ UNCHANGED <<todo, recovering>>

Continue(e, label) ==
    /\ Goto(e, label)
    /\ UNCHANGED <<cur, todo, recovering>>

\* The row is upserted; with an event, the outbox row is in the same transaction.
Stored(o, r, event) ==
    /\ db' = [db EXCEPT ![o] = r]
    /\ last' = IF event = "none" THEN last ELSE [last EXCEPT ![o] = event]

NotStored == UNCHANGED <<db, last>>

\* The engine's copy of o becomes r and is saved (_save) or saved with an event
\* (_record); then either the engine goes on as Then says, or the save raised.
Record(e, o, r, event, Then) ==
    /\ mem' = [mem EXCEPT ![e][o] = r]
    /\ \/ Stored(o, r, event) /\ Then
       \/ NotStored /\ Abort(e)
    /\ UNCHANGED <<startedDb, started, installed, holder, effects, crashes>>

With(r, s) == [r EXCEPT !.state = s]

-----------------------------------------------------------------------------

Init ==
    /\ db = [o \in Ops |-> Absent]
    /\ last = [o \in Ops |-> "none"]
    /\ startedDb = 0
    /\ mem = [e \in Engines |-> [o \in Ops |-> Absent]]
    /\ started = [e \in Engines |-> 0]
    /\ at = [e \in Engines |-> "down"]
    /\ cur = [e \in Engines |-> None]
    /\ todo = [e \in Engines |-> {}]
    /\ recovering = {}
    /\ installed = [e \in Engines |-> {}]
    /\ holder = None
    /\ effects = [o \in Ops |-> 0]
    /\ crashes = 0

\* RecoveryCoordinator.from_store
FromStore(e) ==
    /\ at[e] = "down"
    /\ mem' = [mem EXCEPT ![e] = db]
    /\ started' = [started EXCEPT ![e] = startedDb]
    /\ \E I \in Installations : installed' = [installed EXCEPT ![e] = I]
    /\ Continue(e, "idle")
    /\ UNCHANGED <<db, last, startedDb, holder, effects, crashes>>

Crash(e) ==
    /\ at[e] # "down"
    /\ crashes < MaxCrashes
    /\ crashes' = crashes + 1
    /\ Goto(e, "down")
    /\ mem' = [mem EXCEPT ![e] = [o \in Ops |-> Absent]]
    /\ cur' = [cur EXCEPT ![e] = None]
    /\ todo' = [todo EXCEPT ![e] = {}]
    /\ recovering' = recovering \ {e}
    /\ UNCHANGED <<db, last, startedDb, started, installed, holder, effects>>

\* Environment: the lease table grants the task to e, or the lease lapses.
ClaimLease(e) ==
    /\ at[e] = "idle" /\ holder = None
    /\ holder' = e
    /\ UNCHANGED <<db, last, startedDb, mem, started, at, cur, todo, recovering, installed,
                   effects, crashes>>

LapseLease ==
    /\ holder # None
    /\ holder' = None
    /\ UNCHANGED <<db, last, startedDb, mem, started, at, cur, todo, recovering, installed,
                   effects, crashes>>

\* Any _record of TaskRuntime writes the engine's copy of the budget with the task:
\* outside the runtime, before execute, and when recover() settles controls at its end.
SaveTask(e) ==
    /\ at[e] \in {"idle", "execute"} \/ (at[e] = "recover" /\ todo[e] = {})
    /\ startedDb' = started[e]
    /\ UNCHANGED <<db, last, mem, started, at, cur, todo, recovering, installed, holder,
                   effects, crashes>>

-----------------------------------------------------------------------------

\* TaskBudget.block_reason, its operations part, for a copy that counts n.
\* Mutant: the limit is allowed once more.
WithinBudgetOffByOne(n) == MaxOperations < 0 \/ n <= MaxOperations

WithinBudget(n) == MaxOperations < 0 \/ n < MaxOperations

Fresh(o) == db[o] = Absent /\ \A e \in Engines : mem[e][o] = Absent

\* prepare, up to save_world_revisions.  A lost lease, a spent budget or a passed
\* deadline raise before anything changed.
Prepare(e, o) ==
    /\ at[e] = "idle"
    /\ Fresh(o)
    /\ \A f \in Engines : cur[f] # o
    /\ holder = e
    /\ WithinBudget(started[e])
    /\ started' = [started EXCEPT ![e] = @ + 1]
    /\ \/ /\ Goto(e, "save_prepared")
          /\ cur' = [cur EXCEPT ![e] = o]
          /\ UNCHANGED <<todo, recovering>>
       \/ Abort(e)
    /\ UNCHANGED <<db, last, startedDb, mem, installed, holder, effects, crashes>>

\* prepare, save_task_and_operation_with_outbox_event.
SavePrepared(e) ==
    LET o == cur[e]
        r == [state |-> "PREPARED", result |-> "none"]
    IN
    /\ at[e] = "save_prepared"
    /\ mem' = [mem EXCEPT ![e][o] = r]
    /\ \/ /\ Stored(o, r, "prepared")
          /\ startedDb' = started[e]
          /\ Continue(e, "execute")
       \/ /\ NotStored
          /\ UNCHANGED startedDb
          /\ Abort(e)
    /\ UNCHANGED <<started, installed, holder, effects, crashes>>

\* Between prepare and execute the agent saves the task's phase; execute then checks
\* lease, capability, revisions and locators.  Whatever raises leaves the operation
\* PREPARED.
Validate(e) ==
    /\ at[e] = "execute"
    /\ \/ holder = e /\ cur[e] \in installed[e] /\ Continue(e, "start")
       \/ Abort(e)
    /\ UNCHANGED <<db, last, startedDb, mem, started, installed, holder, effects, crashes>>

\* Mutant: the effect does not wait for the row.
StartUnrecorded(e) ==
    /\ at[e] = "start"
    /\ mem' = [mem EXCEPT ![e][cur[e]] = With(@, "RUNNING")]
    /\ Continue(e, "effect")
    /\ UNCHANGED <<db, last, startedDb, started, installed, holder, effects, crashes>>

Start(e) ==
    /\ at[e] = "start"
    /\ Record(e, cur[e], With(mem[e][cur[e]], "RUNNING"), "started", Continue(e, "effect"))

\* capability.execute is entered: the outside world may change from here on.
Effect(e) ==
    /\ at[e] = "effect"
    /\ effects' = [effects EXCEPT ![cur[e]] = @ + 1]
    /\ Continue(e, "outcome")
    /\ UNCHANGED <<db, last, startedDb, mem, started, installed, holder, crashes>>

\* capability.execute raised.
ExecuteRaised(e) ==
    /\ at[e] = "outcome"
    /\ Record(e, cur[e], With(mem[e][cur[e]], "UNKNOWN"), "unknown", Return(e))

\* capability.execute returned a result, or None.
ExecuteReturned(e) ==
    /\ at[e] = "outcome"
    /\ \E x \in {"none", "value"} :
          Record(e, cur[e], [state |-> "OBSERVED", result |-> x], "none",
                 Continue(e, "verify"))

\* _verify up to VERIFYING, or its early return.
Verify(e) ==
    LET r == mem[e][cur[e]] IN
    /\ at[e] = "verify"
    /\ \/ /\ r.result = "none"
          /\ Record(e, cur[e], With(r, "UNKNOWN"), "verify_missing_result", Return(e))
       \/ /\ r.result # "none"
          /\ Record(e, cur[e], With(r, "VERIFYING"), "none", Continue(e, "verifying"))

\* Mutant: an exception of the verifier counts as a failed check, unrecorded.
VerifyRaisedSilently(e) ==
    /\ at[e] = "verifying"
    /\ Record(e, cur[e], With(mem[e][cur[e]], "FAILED"), "none", Return(e))

\* capability.verify raised: the operation stays VERIFYING.
VerifyRaised(e) ==
    /\ at[e] = "verifying"
    /\ Record(e, cur[e], mem[e][cur[e]], "verify_error", Return(e))

\* capability.verify returned evidence.  A capability is honest: evidence that passes
\* is evidence of an effect that happened.
VerifyReturned(e) ==
    LET o == cur[e] IN
    /\ at[e] = "verifying"
    /\ \/ /\ effects[o] > 0
          /\ Record(e, o, With(mem[e][o], "VERIFIED"), "verified", Return(e))
       \/ Record(e, o, With(mem[e][o], "FAILED"), "verification_failed", Return(e))

-----------------------------------------------------------------------------

BeginRecover(e) ==
    /\ at[e] = "idle"
    /\ Goto(e, "recover")
    /\ todo' = [todo EXCEPT ![e] = {o \in Ops : mem[e][o].state \in InFlight}]
    /\ recovering' = recovering \cup {e}
    /\ UNCHANGED <<db, last, startedDb, mem, started, cur, installed, holder, effects, crashes>>

EndRecover(e) ==
    /\ at[e] = "recover"
    /\ todo[e] = {}
    /\ Abort(e)
    /\ UNCHANGED <<db, last, startedDb, mem, started, installed, holder, effects, crashes>>

\* recover() takes up operation o.
Visit(e, o) ==
    /\ at[e] = "recover"
    /\ o \in todo[e]

Visited(e, o) == todo' = [todo EXCEPT ![e] = @ \ {o}]

\* recover_operation goes on with o at another label.
Enter(e, o, label) ==
    /\ Goto(e, label)
    /\ cur' = [cur EXCEPT ![e] = o]
    /\ Visited(e, o)
    /\ UNCHANGED recovering

\* recover_operation is through with o.
Leave(e, o) ==
    /\ Visited(e, o)
    /\ UNCHANGED <<at, cur, recovering>>

RecoverPrepared(e, o) ==
    /\ Visit(e, o)
    /\ mem[e][o].state = "PREPARED"
    /\ Record(e, o, With(mem[e][o], "CANCELLED"), "abandoned_prepared", Leave(e, o))

\* self.capabilities[op.capability]: a KeyError ends recover() altogether.
RecoverNotInstalled(e, o) ==
    /\ Visit(e, o)
    /\ mem[e][o].state # "PREPARED"
    /\ o \notin installed[e]
    /\ Abort(e)
    /\ UNCHANGED <<db, last, startedDb, mem, started, installed, holder, effects, crashes>>

\* OBSERVED or VERIFYING: verify again, or nothing at all without a result.
RecoverObserved(e, o) ==
    /\ Visit(e, o)
    /\ mem[e][o].state \in {"OBSERVED", "VERIFYING"}
    /\ o \in installed[e]
    /\ IF mem[e][o].result # "none" THEN Enter(e, o, "verify") ELSE Leave(e, o)
    /\ UNCHANGED <<db, last, startedDb, mem, started, installed, holder, effects, crashes>>

\* Mutant: an operation that was RUNNING is executed again.
RecoverByRepeating(e, o) ==
    /\ Visit(e, o)
    /\ mem[e][o].state \in {"RUNNING", "UNKNOWN", "RECONCILING"}
    /\ o \in installed[e]
    /\ Record(e, o, With(mem[e][o], "RUNNING"), "started", Enter(e, o, "effect"))

\* Mutant: the operation stays on the list.
RecoverForever(e, o) ==
    /\ Visit(e, o)
    /\ mem[e][o].state \in {"RUNNING", "UNKNOWN", "RECONCILING"}
    /\ o \in installed[e]
    /\ Record(e, o, With(mem[e][o], "RECONCILING"), "reconciling",
              Goto(e, "reconcile") /\ cur' = [cur EXCEPT ![e] = o] /\ UNCHANGED <<todo, recovering>>)

RecoverUnknown(e, o) ==
    /\ Visit(e, o)
    /\ mem[e][o].state \in {"RUNNING", "UNKNOWN", "RECONCILING"}
    /\ o \in installed[e]
    /\ Record(e, o, With(mem[e][o], "RECONCILING"), "reconciling", Enter(e, o, "reconcile"))

\* resolve_locator or capability.reconcile raised.
ReconcileRaised(e) ==
    /\ at[e] = "reconcile"
    /\ Record(e, cur[e], With(mem[e][cur[e]], "UNKNOWN"), "reconcile_error", Return(e))

\* Mutant: whatever reconcile says counts as success.
ReconcileOptimistic(e) ==
    /\ at[e] = "reconcile"
    /\ Record(e, cur[e], [state |-> "VERIFIED", result |-> "value"], "reconciled", Return(e))

\* Mutant: the answer is verified once more, as after execute.
ReconcileThenVerify(e) ==
    /\ at[e] = "reconcile"
    /\ \E s \in {"VERIFIED", "FAILED"} :
          /\ s = "VERIFIED" => effects[cur[e]] > 0
          /\ Record(e, cur[e], [state |-> s, result |-> "value"], "reconciled",
                    Continue(e, "verify"))

\* capability.reconcile answered, honestly as in VerifyReturned.
ReconcileReturned(e) ==
    /\ at[e] = "reconcile"
    /\ \E x \in {"none", "value"}, s \in {"VERIFIED", "FAILED"} :
          /\ s = "VERIFIED" => effects[cur[e]] > 0
          /\ Record(e, cur[e], [state |-> s, result |-> x], "reconciled", Return(e))

-----------------------------------------------------------------------------

\* What an engine does once it was given something to do.
EngineStep(e) ==
    \/ SavePrepared(e) \/ Validate(e) \/ Start(e) \/ Effect(e)
    \/ ExecuteRaised(e) \/ ExecuteReturned(e)
    \/ Verify(e) \/ VerifyRaised(e) \/ VerifyReturned(e)
    \/ EndRecover(e)
    \/ \E o \in Ops : RecoverPrepared(e, o)
    \/ \E o \in Ops : RecoverNotInstalled(e, o)
    \/ \E o \in Ops : RecoverObserved(e, o)
    \/ \E o \in Ops : RecoverUnknown(e, o)
    \/ ReconcileRaised(e) \/ ReconcileReturned(e)

Next ==
    \/ \E e \in Engines : FromStore(e)
    \/ \E e \in Engines : Crash(e)
    \/ \E e \in Engines : ClaimLease(e)
    \/ LapseLease
    \/ \E e \in Engines : SaveTask(e)
    \/ \E e \in Engines, o \in Ops : Prepare(e, o)
    \/ \E e \in Engines : BeginRecover(e)
    \/ \E e \in Engines : EngineStep(e)

Spec == Init /\ [][Next]_vars

\* A running process goes on; capabilities return or raise.
FairSpec == Spec /\ \A e \in Engines : WF_vars(EngineStep(e))

-----------------------------------------------------------------------------

(***************************************************************************)
(* Write-ahead: whatever crashes and failed saves happen, an operation     *)
(* whose effect may have happened is stored as one whose effect may have   *)
(* happened.  A restarted engine never finds it missing, PREPARED, or      *)
(* abandoned as never executed (runtime.py, execute and recover_operation).*)
(***************************************************************************)
WriteAhead ==
    \A o \in Ops : effects[o] > 0 => db[o].state \notin {"ABSENT", "PREPARED", "CANCELLED"}

(***************************************************************************)
(* The external effect of an operation is attempted at most once: recovery *)
(* asks (reconcile, verify), it does not repeat.                           *)
(***************************************************************************)
EffectAtMostOnce == \A o \in Ops : effects[o] <= 1

(***************************************************************************)
(* VERIFIED is never claimed of an operation that did not run, given       *)
(* capabilities that do not lie.                                           *)
(***************************************************************************)
VerifiedHappened == \A o \in Ops : db[o].state = "VERIFIED" => effects[o] = 1

\* The events that may be the newest one about an operation stored in state s.
EventsOf(s) ==
    CASE s = "ABSENT"                   -> {"none"}
      [] s = "PREPARED"                 -> {"prepared"}
      [] s \in {"RUNNING", "OBSERVED"}  -> {"started"}
      [] s = "VERIFYING"                -> {"started", "verify_error"}
      [] s = "VERIFIED"                 -> {"verified", "reconciled"}
      [] s = "FAILED"                   -> {"verification_failed", "reconciled"}
      [] s = "UNKNOWN"                  -> {"unknown", "verify_missing_result", "reconcile_error"}
      [] s = "RECONCILING"              -> {"reconciling"}
      [] s = "CANCELLED"                -> {"abandoned_prepared"}

(***************************************************************************)
(* The newest event of an operation tells the state of its row, up to the  *)
(* two states the code saves without an event: a consumer of the log that  *)
(* saw every event knows every outcome.                                    *)
(***************************************************************************)
EventTellsState == \A o \in Ops : last[o] \in EventsOf(db[o].state)

(***************************************************************************)
(* Operations that ran are counted in the stored budget, and the count     *)
(* never passes the limit, through crashes and saves that failed after the *)
(* engine had already counted.                                             *)
(***************************************************************************)
BudgetRespected ==
    /\ Cardinality({o \in Ops : effects[o] > 0}) <= startedDb
    /\ MaxOperations >= 0 => startedDb <= MaxOperations

(***************************************************************************)
(* A stored outcome is final.                                              *)
(***************************************************************************)
OutcomeIsFinal ==
    [][\A o \in Ops : db[o].state \in Terminal => db'[o] = db[o]]_vars

\* How far a live engine's copy may be from the row: ahead of it by one failed save
\* or more, never behind, and equal once the row holds an outcome.
CopyOK(e, o) ==
    at[e] # "down" =>
        /\ mem[e][o].state = "PREPARED" => db[o].state \in {"ABSENT", "PREPARED"}
        /\ mem[e][o].state = "OBSERVED" => db[o].state \in {"RUNNING", "OBSERVED"}
        /\ mem[e][o].state = "VERIFYING" => db[o].state \in {"RUNNING", "OBSERVED", "VERIFYING"}
        /\ db[o].state \in Terminal => mem[e][o] = db[o]

\* What an engine knows about its operation at each label.
LabelOK(e) ==
    LET o == cur[e] IN
    /\ at[e] = "save_prepared" => mem[e][o].state = "ABSENT" /\ db[o].state = "ABSENT"
    /\ at[e] \in {"execute", "start"} => mem[e][o].state = "PREPARED"
    /\ at[e] \in {"effect", "outcome"} => mem[e][o].state = "RUNNING" /\ db[o].state = "RUNNING"
    /\ at[e] = "effect" => effects[o] = 0
    /\ at[e] = "verify" => mem[e][o].state \in {"OBSERVED", "VERIFYING"}
    /\ at[e] = "verifying" => mem[e][o].state = "VERIFYING"
    /\ at[e] = "reconcile" => mem[e][o].state = "RECONCILING"

(***************************************************************************)
(* The inductive invariant of a single engine: the copy of an operation is *)
(* never behind its row, and the row is RUNNING before the effect starts.  *)
(***************************************************************************)
OperationInv ==
    /\ WriteAhead /\ EffectAtMostOnce /\ VerifiedHappened /\ EventTellsState
    /\ \A e \in Engines, o \in Ops : CopyOK(e, o)
    /\ \A e \in Engines : LabelOK(e)

(***************************************************************************)
(* A recover() that was not cut short leaves no operation that looks as if *)
(* it were still being executed, and no observed one, unless its result    *)
(* was lost: recover_operation has no branch for that one.  This is about  *)
(* the engine's copies: a row an earlier failed save left behind its copy  *)
(* waits for the next restart.                                             *)
(***************************************************************************)
RecoveredMeansSettled ==
    [][\A e \in Engines : EndRecover(e) =>
          \A o \in Ops :
             /\ mem[e][o].state \notin {"PREPARED", "RUNNING", "RECONCILING"}
             /\ mem[e][o].state = "OBSERVED" => mem[e][o].result = "none"]_vars

(***************************************************************************)
(* recover() ends, whatever the capabilities answer.                       *)
(***************************************************************************)
RecoverEnds == \A e \in Engines : e \in recovering ~> e \notin recovering
=============================================================================
