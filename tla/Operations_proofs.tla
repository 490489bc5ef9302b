-------------------------- MODULE Operations_proofs --------------------------
(***************************************************************************)
(* Proofs about Operations, with engines that crash, restart and fail to   *)
(* save at any point, any number of times, over any set of operations.     *)
(* What ties rows to copies, events and the budget holds for one engine: a *)
(* second one saves over rows it has not read (see the run with two).      *)
(* Types, effects that happen once, VERIFIED, and what recover() leaves in *)
(* its own copies hold for any number of engines.                          *)
(***************************************************************************)
EXTENDS Operations, FiniteSetTheorems, TLAPS

Alone == \A e, f \in Engines : e = f

\* The part of TypeOK about where the engines are.
ControlOK ==
    /\ at \in [Engines -> Labels]
    /\ cur \in [Engines -> Ops \cup {None}]
    /\ \A e \in Engines : cur[e] = None => at[e] \in {"down", "idle", "recover"}
    /\ todo \in [Engines -> SUBSET Ops]
    /\ recovering \subseteq Engines

(***************************************************************************)
(* What a changed copy of one operation means for the copies.              *)
(***************************************************************************)
LEMMA CopyChanged ==
    ASSUME TypeOK, NEW e \in Engines, NEW o \in Ops, NEW r \in Operation,
           mem' = [mem EXCEPT ![e][o] = r]
    PROVE  /\ mem' \in [Engines -> [Ops -> Operation]]
           /\ mem'[e][o] = r
           /\ \A p \in Ops \ {o} : mem'[e][p] = mem[e][p]
BY DEF TypeOK

(***************************************************************************)
(* Changing the state of an operation gives an operation.                  *)
(***************************************************************************)
LEMMA WithType ==
    ASSUME NEW r \in Operation, NEW s \in OperationState
    PROVE  /\ With(r, s) \in Operation
           /\ With(r, s).state = s
           /\ With(r, s).result = r.result
BY DEF With, Operation

(***************************************************************************)
(* A save, stored or not, keeps the types.                                 *)
(***************************************************************************)
LEMMA RecordType ==
    ASSUME TypeOK, NEW e \in Engines, NEW o \in Ops, NEW r \in Operation,
           NEW event \in EventType,
           mem' = [mem EXCEPT ![e][o] = r],
           Stored(o, r, event) \/ NotStored,
           UNCHANGED <<startedDb, started, installed, holder, effects, crashes>>,
           ControlOK'
    PROVE  TypeOK'
<1>1. mem' \in [Engines -> [Ops -> Operation]]
  BY CopyChanged
<1>2. db' \in [Ops -> Operation] /\ last' \in [Ops -> EventType]
  BY DEF Stored, NotStored, TypeOK
<1> QED BY <1>1, <1>2 DEF TypeOK, ControlOK

(***************************************************************************)
(* The moves between labels keep the types of the control variables.       *)
(***************************************************************************)
LEMMA ControlType ==
    ASSUME TypeOK, NEW e \in Engines, NEW o \in Ops,
           \/ Abort(e) \/ Return(e) \/ Leave(e, o)
           \/ \E l \in Labels : Continue(e, l) /\ cur[e] \in Ops
           \/ \E l \in Labels : Enter(e, o, l)
    PROVE  ControlOK'
<1>1. CASE Abort(e)
  BY <1>1 DEF TypeOK, ControlOK, Labels, Goto, Abort
<1>2. CASE Return(e)
  BY <1>2 DEF TypeOK, ControlOK, Labels, Goto, Return
<1>3. CASE Leave(e, o)
  BY <1>3 DEF TypeOK, ControlOK, Leave, Visited
<1>4. CASE \E l \in Labels : Continue(e, l) /\ cur[e] \in Ops
  BY <1>4, NoneAssumption DEF TypeOK, ControlOK, Goto, Continue
<1>5. CASE \E l \in Labels : Enter(e, o, l)
  BY <1>5, NoneAssumption DEF TypeOK, ControlOK, Goto, Enter, Visited
<1> QED BY <1>1, <1>2, <1>3, <1>4, <1>5

(***************************************************************************)
(* Rows, copies, control and budget keep their types, for any number of    *)
(* engines.                                                                *)
(***************************************************************************)
THEOREM TypeCorrect == Spec => []TypeOK
<1>1. Init => TypeOK
  BY NoneAssumption, BudgetAssumption
     DEF Init, TypeOK, Operation, Absent, OperationState, EventType, Labels
<1>2. TypeOK /\ [Next]_vars => TypeOK'
  <2> SUFFICES ASSUME TypeOK, [Next]_vars PROVE TypeOK'
    OBVIOUS
  <2>0. /\ \A f \in Engines : at[f] \notin {"down", "idle", "recover"} => cur[f] \in Ops
        /\ \A f \in Engines, p \in Ops : mem[f][p] \in Operation
        /\ \A r \in Operation, s \in OperationState : With(r, s) \in Operation
    BY WithType DEF TypeOK
  \* An action that leaves rows and copies alone.
  <2>1. ASSUME ControlOK', UNCHANGED <<db, last, mem, installed, crashes>>,
               startedDb' \in Nat, started' \in [Engines -> Nat],
               holder' \in Engines \cup {None}, effects' \in [Ops -> Nat]
        PROVE  TypeOK'
    BY <2>1 DEF TypeOK, ControlOK
  \* An action that ends in a save.
  <2>2. ASSUME NEW e \in Engines, NEW o \in Ops, NEW r \in Operation, NEW l \in Labels,
               NEW event \in EventType,
               \/ Record(e, o, r, event, Return(e))
               \/ Record(e, o, r, event, Leave(e, o))
               \/ Record(e, o, r, event, Continue(e, l)) /\ cur[e] \in Ops
               \/ Record(e, o, r, event, Enter(e, o, l))
        PROVE  TypeOK'
    <3>1. ControlOK'
      BY <2>2, ControlType DEF Record
    <3> QED BY <2>2, <3>1, RecordType DEF Record
  <2> USE DEF OperationState, EventType, Labels
  <2>3. ASSUME NEW e \in Engines, FromStore(e) PROVE TypeOK'
    BY <2>3, InstallationsAssumption DEF FromStore, Continue, Goto, TypeOK
  <2>4. ASSUME NEW e \in Engines, Crash(e) PROVE TypeOK'
    <3>1. [o \in Ops |-> Absent] \in [Ops -> Operation]
      BY DEF Absent, Operation
    <3> QED BY <2>4, <3>1 DEF Crash, Goto, TypeOK
  <2>5. ASSUME NEW e \in Engines, ClaimLease(e) PROVE TypeOK'
    BY <2>5 DEF ClaimLease, TypeOK
  <2>6. CASE LapseLease
    BY <2>6 DEF LapseLease, TypeOK
  <2>7. ASSUME NEW e \in Engines, SaveTask(e) PROVE TypeOK'
    BY <2>7 DEF SaveTask, TypeOK
  <2>8. ASSUME NEW e \in Engines, NEW o \in Ops, Prepare(e, o) PROVE TypeOK'
    <3>1. ControlOK'
      <4>1. CASE Abort(e)
        BY <4>1, ControlType
      <4>2. CASE Goto(e, "save_prepared") /\ cur' = [cur EXCEPT ![e] = o]
                 /\ UNCHANGED <<todo, recovering>>
        BY <4>2, NoneAssumption DEF Goto, ControlOK, TypeOK
      <4> QED BY <2>8, <4>1, <4>2 DEF Prepare
    <3> QED BY <2>1, <2>8, <3>1 DEF Prepare, TypeOK
  <2>9. ASSUME NEW e \in Engines, SavePrepared(e) PROVE TypeOK'
    <3> DEFINE o == cur[e]
               r == [state |-> "PREPARED", result |-> "none"]
    <3>1. o \in Ops /\ r \in Operation
      BY <2>0, <2>9 DEF SavePrepared, Operation
    <3>2. ControlOK'
      BY <2>9, <3>1, ControlType DEF SavePrepared
    <3>3. mem' \in [Engines -> [Ops -> Operation]]
      BY <2>9, <3>1, CopyChanged DEF SavePrepared
    <3>4. /\ db' \in [Ops -> Operation] /\ last' \in [Ops -> EventType] /\ startedDb' \in Nat
          /\ UNCHANGED <<started, installed, holder, effects, crashes>>
      <4>1. CASE Stored(o, r, "prepared") /\ startedDb' = started[e]
        <5>1. db' = [db EXCEPT ![o] = r] /\ last' = [last EXCEPT ![o] = "prepared"]
          BY <4>1 DEF Stored
        <5> HIDE DEF r
        <5> QED BY <2>9, <3>1, <4>1, <5>1 DEF SavePrepared, TypeOK
      <4>2. CASE NotStored /\ UNCHANGED startedDb
        BY <2>9, <4>2 DEF SavePrepared, NotStored, TypeOK
      <4> QED BY <2>9, <4>1, <4>2 DEF SavePrepared
    <3> QED BY <3>2, <3>3, <3>4 DEF TypeOK, ControlOK
  <2>10. ASSUME NEW e \in Engines, Validate(e) PROVE TypeOK'
    <3>1. ControlOK'
      BY <2>0, <2>10, ControlType DEF Validate
    <3> QED BY <2>1, <2>10, <3>1 DEF Validate, TypeOK
  <2>11. ASSUME NEW e \in Engines, Start(e) PROVE TypeOK'
    BY <2>0, <2>2, <2>11 DEF Start
  <2>12. ASSUME NEW e \in Engines, Effect(e) PROVE TypeOK'
    <3>1. ControlOK'
      BY <2>0, <2>12, ControlType DEF Effect
    <3> QED BY <2>1, <2>12, <3>1 DEF Effect, TypeOK
  <2>13. ASSUME NEW e \in Engines, ExecuteRaised(e) PROVE TypeOK'
    BY <2>0, <2>2, <2>13 DEF ExecuteRaised
  <2>14. ASSUME NEW e \in Engines, ExecuteReturned(e) PROVE TypeOK'
    BY <2>0, <2>2, <2>14 DEF ExecuteReturned, Operation
  <2>15. ASSUME NEW e \in Engines, Verify(e) PROVE TypeOK'
    BY <2>0, <2>2, <2>15 DEF Verify
  <2>16. ASSUME NEW e \in Engines, VerifyRaised(e) PROVE TypeOK'
    BY <2>0, <2>2, <2>16 DEF VerifyRaised
  <2>17. ASSUME NEW e \in Engines, VerifyReturned(e) PROVE TypeOK'
    BY <2>0, <2>2, <2>17 DEF VerifyReturned
  <2>18. ASSUME NEW e \in Engines, BeginRecover(e) PROVE TypeOK'
    BY <2>18 DEF BeginRecover, Goto, TypeOK
  <2>19. ASSUME NEW e \in Engines, EndRecover(e) PROVE TypeOK'
    BY <2>19 DEF EndRecover, Abort, Goto, TypeOK
  <2>20. ASSUME NEW e \in Engines, NEW o \in Ops, RecoverPrepared(e, o) PROVE TypeOK'
    BY <2>0, <2>2, <2>20 DEF RecoverPrepared
  <2>21. ASSUME NEW e \in Engines, NEW o \in Ops, RecoverNotInstalled(e, o) PROVE TypeOK'
    BY <2>21 DEF RecoverNotInstalled, Abort, Goto, TypeOK
  <2>22. ASSUME NEW e \in Engines, NEW o \in Ops, RecoverObserved(e, o) PROVE TypeOK'
    <3>1. ControlOK'
      BY <2>22, ControlType DEF RecoverObserved
    <3> QED BY <2>1, <2>22, <3>1 DEF RecoverObserved, TypeOK
  <2>23. ASSUME NEW e \in Engines, NEW o \in Ops, RecoverUnknown(e, o) PROVE TypeOK'
    <3>1. ControlOK'
      BY <2>23, ControlType DEF RecoverUnknown, Record
    <3> QED BY <2>0, <2>23, <3>1, RecordType DEF RecoverUnknown, Record
  <2>24. ASSUME NEW e \in Engines, ReconcileRaised(e) PROVE TypeOK'
    BY <2>0, <2>2, <2>24 DEF ReconcileRaised
  <2>25. ASSUME NEW e \in Engines, ReconcileReturned(e) PROVE TypeOK'
    BY <2>0, <2>2, <2>25 DEF ReconcileReturned, Operation
  <2>26. CASE UNCHANGED vars
    BY <2>26 DEF vars, TypeOK
  <2> QED
    BY <2>3, <2>4, <2>5, <2>6, <2>7, <2>8, <2>9, <2>10, <2>11, <2>12, <2>13, <2>14, <2>15,
       <2>16, <2>17, <2>18, <2>19, <2>20, <2>21, <2>22, <2>23, <2>24, <2>25, <2>26
       DEF Next, EngineStep
<1> QED BY <1>1, <1>2, PTL DEF Spec

-----------------------------------------------------------------------------

(***************************************************************************)
(* A save, stored or not, keeps what OperationInv says of rows and copies, *)
(* if the row held no outcome yet, the new copy is not behind the row, and *)
(* the event fits the new state.                                           *)
(***************************************************************************)
LEMMA RecordRows ==
    ASSUME Alone, TypeOK, OperationInv,
           NEW e \in Engines, NEW o \in Ops, NEW r \in Operation, NEW event \in EventType,
           at[e] # "down",
           mem' = [mem EXCEPT ![e][o] = r],
           Stored(o, r, event) \/ NotStored,
           effects' = effects,
           mem[e][o].state \notin Terminal,
           r.state \in {"ABSENT", "PREPARED", "CANCELLED"} => effects[o] = 0,
           r.state = "VERIFIED" => effects[o] = 1,
           (IF event = "none" THEN last[o] ELSE event) \in EventsOf(r.state),
           r.state = "PREPARED" => db[o].state \in {"ABSENT", "PREPARED"},
           r.state = "OBSERVED" => db[o].state \in {"RUNNING", "OBSERVED"},
           r.state = "VERIFYING" => db[o].state \in {"RUNNING", "OBSERVED", "VERIFYING"}
    PROVE  /\ (WriteAhead /\ EffectAtMostOnce /\ VerifiedHappened /\ EventTellsState)'
           /\ \A f \in Engines, p \in Ops : CopyOK(f, p)'
           /\ \A p \in Ops : db[p].state \in Terminal => db'[p] = db[p]
           /\ db' = [db EXCEPT ![o] = r] \/ db' = db
<1>1. /\ mem'[e][o] = r
      /\ \A p \in Ops \ {o} : mem'[e][p] = mem[e][p]
  BY CopyChanged
<1>2. /\ \A p \in Ops \ {o} : db'[p] = db[p] /\ last'[p] = last[p]
      /\ \/ db'[o] = db[o] /\ last'[o] = last[o]
         \/ db'[o] = r /\ last'[o] \in EventsOf(r.state)
  BY DEF Stored, NotStored, TypeOK
<1>3. db[o].state \notin Terminal
  BY DEF OperationInv, CopyOK
<1>4. (WriteAhead /\ EffectAtMostOnce /\ VerifiedHappened /\ EventTellsState)'
  <2>1. \A p \in Ops : effects[p] \in Nat
    BY DEF TypeOK
  <2>2. WriteAhead' /\ EffectAtMostOnce' /\ VerifiedHappened'
    BY <1>2, <2>1 DEF OperationInv, WriteAhead, EffectAtMostOnce, VerifiedHappened
  <2>3. EventTellsState'
    BY <1>2 DEF OperationInv, EventTellsState
  <2> QED BY <2>2, <2>3
<1>5. ASSUME NEW f \in Engines, NEW p \in Ops PROVE CopyOK(f, p)'
  <2>1. f = e
    BY DEF Alone
  <2>2. CASE p # o
    BY <1>1, <1>2, <2>1, <2>2 DEF OperationInv, CopyOK
  <2>3. CASE p = o
    BY <1>1, <1>2, <1>3, <2>1, <2>3 DEF CopyOK, Terminal
  <2> QED BY <2>2, <2>3
<1>6. \A p \in Ops : db[p].state \in Terminal => db'[p] = db[p]
  BY <1>2, <1>3
<1>7. db' = [db EXCEPT ![o] = r] \/ db' = db
  BY DEF Stored, NotStored
<1> QED BY <1>4, <1>5, <1>6, <1>7

\* What every step of a lone engine keeps: the invariant, and the stored outcomes.
Kept ==
    /\ OperationInv'
    /\ \A p \in Ops : db[p].state \in Terminal => db'[p] = db[p]

(***************************************************************************)
(* A step that writes neither rows nor copies keeps OperationInv if the    *)
(* engine's new label is justified.                                        *)
(***************************************************************************)
LEMMA QuietKeeps ==
    ASSUME OperationInv, UNCHANGED <<db, last, mem, effects>>,
           \A e \in Engines : at[e] = "down" => at'[e] = "down",
           \A e \in Engines : LabelOK(e)'
    PROVE  Kept
BY DEF Kept, OperationInv, WriteAhead, EffectAtMostOnce, VerifiedHappened, EventTellsState,
       CopyOK

(***************************************************************************)
(* At rest there is nothing to justify.                                    *)
(***************************************************************************)
LEMMA RestOK ==
    ASSUME NEW e \in Engines, at'[e] \in {"down", "idle", "recover"}
    PROVE  LabelOK(e)'
BY DEF LabelOK

(***************************************************************************)
(* Abort, Return and Leave bring the engine to rest.                       *)
(***************************************************************************)
LEMMA Rests ==
    ASSUME TypeOK, NEW e \in Engines, NEW o \in Ops,
           Abort(e) \/ Return(e) \/ (Leave(e, o) /\ at[e] = "recover")
    PROVE  at'[e] \in {"idle", "recover"}
BY DEF TypeOK, Abort, Return, Leave, Goto

(***************************************************************************)
(* RecordRows for a save after which the engine's label is justified.      *)
(***************************************************************************)
LEMMA RecordKeeps ==
    ASSUME Alone, TypeOK, OperationInv,
           NEW e \in Engines, NEW o \in Ops, NEW r \in Operation, NEW event \in EventType,
           at[e] # "down",
           mem' = [mem EXCEPT ![e][o] = r],
           Stored(o, r, event) \/ NotStored,
           effects' = effects,
           mem[e][o].state \notin Terminal,
           r.state \in {"ABSENT", "PREPARED", "CANCELLED"} => effects[o] = 0,
           r.state = "VERIFIED" => effects[o] = 1,
           (IF event = "none" THEN last[o] ELSE event) \in EventsOf(r.state),
           r.state = "PREPARED" => db[o].state \in {"ABSENT", "PREPARED"},
           r.state = "OBSERVED" => db[o].state \in {"RUNNING", "OBSERVED"},
           r.state = "VERIFYING" => db[o].state \in {"RUNNING", "OBSERVED", "VERIFYING"},
           LabelOK(e)'
    PROVE  Kept
<1>1. /\ (WriteAhead /\ EffectAtMostOnce /\ VerifiedHappened /\ EventTellsState)'
      /\ \A f \in Engines, p \in Ops : CopyOK(f, p)'
      /\ \A p \in Ops : db[p].state \in Terminal => db'[p] = db[p]
  BY RecordRows
<1>2. \A f \in Engines : LabelOK(f)'
  BY DEF Alone
<1> QED BY <1>1, <1>2 DEF Kept, OperationInv

(***************************************************************************)
(* A save after which the engine rests keeps OperationInv.                 *)
(***************************************************************************)
LEMMA RecordAndRest ==
    ASSUME Alone, TypeOK, OperationInv,
           NEW e \in Engines, NEW o \in Ops, NEW r \in Operation, NEW event \in EventType,
           at[e] # "down",
           \/ Record(e, o, r, event, Return(e))
           \/ Record(e, o, r, event, Leave(e, o)) /\ at[e] = "recover",
           mem[e][o].state \notin Terminal,
           r.state \in {"ABSENT", "PREPARED", "CANCELLED"} => effects[o] = 0,
           r.state = "VERIFIED" => effects[o] = 1,
           event \in EventsOf(r.state), event # "none",
           r.state \notin {"PREPARED", "OBSERVED"},
           r.state = "VERIFYING" => db[o].state \in {"RUNNING", "OBSERVED", "VERIFYING"}
    PROVE  Kept
<1>1. /\ mem' = [mem EXCEPT ![e][o] = r]
      /\ Stored(o, r, event) \/ NotStored
      /\ effects' = effects
      /\ Abort(e) \/ Return(e) \/ (Leave(e, o) /\ at[e] = "recover")
  BY DEF Record
<1>2. LabelOK(e)'
  BY <1>1, Rests, RestOK
<1> QED BY <1>1, <1>2, RecordKeeps

(***************************************************************************)
(* Every step of a lone engine keeps OperationInv and stored outcomes.     *)
(***************************************************************************)
LEMMA StepKeeps ==
    ASSUME Alone, TypeOK, OperationInv, [Next]_vars
    PROVE  Kept
<1>0. /\ \A f \in Engines : at[f] \notin {"down", "idle", "recover"} => cur[f] \in Ops
      /\ \A f \in Engines, p \in Ops : mem[f][p] \in Operation
      /\ \A p \in Ops : effects[p] \in Nat /\ effects[p] <= 1
      /\ \A f \in Engines : LabelOK(f)
      /\ \A f \in Engines, p \in Ops : CopyOK(f, p)
  BY DEF TypeOK, OperationInv, EffectAtMostOnce
<1>1. \A r \in Operation, s \in OperationState :
        /\ With(r, s) \in Operation /\ With(r, s).state = s /\ With(r, s).result = r.result
  BY WithType
<1> USE DEF OperationState, EventType
<1>2. ASSUME NEW e \in Engines, FromStore(e) PROVE Kept
  <2>1. /\ UNCHANGED <<db, last, effects>>
        /\ mem'[e] = db /\ at'[e] = "idle"
    BY <1>2 DEF FromStore, Continue, Goto, TypeOK
  <2>2. \A f \in Engines, p \in Ops : CopyOK(f, p)'
    BY <2>1 DEF Alone, CopyOK
  <2>3. \A f \in Engines : LabelOK(f)'
    BY <2>1, RestOK DEF Alone
  <2> QED BY <2>1, <2>2, <2>3 DEF Kept, OperationInv, WriteAhead, EffectAtMostOnce,
                                  VerifiedHappened, EventTellsState
<1>3. ASSUME NEW e \in Engines, Crash(e) PROVE Kept
  <2>1. UNCHANGED <<db, last, effects>> /\ at'[e] = "down"
    BY <1>3 DEF Crash, Goto, TypeOK
  <2>2. \A f \in Engines, p \in Ops : CopyOK(f, p)'
    BY <2>1 DEF Alone, CopyOK
  <2>3. \A f \in Engines : LabelOK(f)'
    BY <2>1, RestOK DEF Alone
  <2> QED BY <2>1, <2>2, <2>3 DEF Kept, OperationInv, WriteAhead, EffectAtMostOnce,
                                  VerifiedHappened, EventTellsState
<1>4. CASE UNCHANGED <<db, last, mem, effects, at, cur>>
  BY <1>0, <1>4, QuietKeeps DEF LabelOK
<1>5. ASSUME NEW e \in Engines, UNCHANGED <<db, last, mem, effects>>, at[e] # "down",
             at'[e] \in {"idle", "recover"}
      PROVE  Kept
  BY <1>5, RestOK, QuietKeeps DEF Alone
<1>6. ASSUME NEW e \in Engines, NEW o \in Ops, Prepare(e, o) PROVE Kept
  <2>1. at[e] = "idle" /\ db[o] = Absent /\ mem[e][o] = Absent /\ UNCHANGED <<db, last, mem, effects>>
    BY <1>6 DEF Prepare, Fresh
  <2>2. CASE Abort(e)
    BY <1>5, <2>1, <2>2, Rests
  <2>3. CASE Goto(e, "save_prepared") /\ cur' = [cur EXCEPT ![e] = o]
    <3>1. at'[e] = "save_prepared" /\ cur'[e] = o
      BY <2>3 DEF Goto, TypeOK
    <3>2. LabelOK(e)'
      BY <2>1, <3>1 DEF LabelOK, Absent
    <3> QED BY <2>1, <3>2, QuietKeeps DEF Alone
  <2> QED BY <1>6, <2>2, <2>3 DEF Prepare
<1>7. ASSUME NEW e \in Engines, SavePrepared(e) PROVE Kept
  <2> DEFINE o == cur[e]
             r == [state |-> "PREPARED", result |-> "none"]
  <2>1. /\ at[e] = "save_prepared" /\ o \in Ops
        /\ mem[e][o].state = "ABSENT" /\ db[o].state = "ABSENT"
    BY <1>0, <1>7 DEF SavePrepared, LabelOK
  <2>2. r \in Operation /\ r.state = "PREPARED"
    BY DEF Operation
  <2>3. effects[o] = 0
    BY <1>0, <2>1 DEF OperationInv, WriteAhead
  <2>4. /\ mem' = [mem EXCEPT ![e][o] = r]
        /\ Stored(o, r, "prepared") \/ NotStored
        /\ effects' = effects
        /\ Continue(e, "execute") \/ Abort(e)
    BY <1>7 DEF SavePrepared
  <2>5. LabelOK(e)'
    <3>1. CASE Abort(e)
      BY <2>1, <3>1, Rests, RestOK
    <3>2. CASE Continue(e, "execute")
      <4>1. at'[e] = "execute" /\ cur'[e] = o
        BY <3>2 DEF Continue, Goto, TypeOK
      <4>2. mem'[e][o].state = "PREPARED"
        <5> HIDE DEF o, r
        <5> QED BY <2>1, <2>2, <2>4, CopyChanged
      <4> QED BY <4>1, <4>2 DEF LabelOK
    <3> QED BY <2>4, <3>1, <3>2
  <2>6. "prepared" \in EventsOf("PREPARED")
    BY DEF EventsOf
  <2> HIDE DEF o, r
  <2> QED BY <2>1, <2>2, <2>3, <2>4, <2>5, <2>6, RecordKeeps DEF Terminal
<1>8. ASSUME NEW e \in Engines, Validate(e) PROVE Kept
  <2>1. at[e] = "execute" /\ cur[e] \in Ops /\ UNCHANGED <<db, last, mem, effects>>
    BY <1>0, <1>8 DEF Validate
  <2>2. CASE Abort(e)
    BY <1>5, <2>1, <2>2, Rests
  <2>3. CASE Continue(e, "start")
    <3>1. at'[e] = "start" /\ cur' = cur
      BY <2>3 DEF Continue, Goto, TypeOK
    <3>2. LabelOK(e)'
      BY <1>0, <2>1, <3>1 DEF LabelOK
    <3> QED BY <2>1, <3>2, QuietKeeps DEF Alone
  <2> QED BY <1>8, <2>2, <2>3 DEF Validate
<1>9. ASSUME NEW e \in Engines, Start(e) PROVE Kept
  <2> DEFINE o == cur[e]
             r == With(mem[e][o], "RUNNING")
  <2>1. at[e] = "start" /\ o \in Ops /\ mem[e][o].state = "PREPARED"
    BY <1>0, <1>9 DEF Start, LabelOK
  <2>2. r \in Operation /\ r.state = "RUNNING"
    BY <1>0, <1>1, <2>1
  <2>3. db[o].state \in {"ABSENT", "PREPARED"} /\ effects[o] = 0
    BY <1>0, <2>1 DEF CopyOK, OperationInv, WriteAhead
  <2>4. /\ mem' = [mem EXCEPT ![e][o] = r]
        /\ effects' = effects
        /\ \/ Stored(o, r, "started") /\ Continue(e, "effect")
           \/ NotStored /\ Abort(e)
    BY <1>9 DEF Start, Record
  <2>5. LabelOK(e)'
    <3>1. CASE Abort(e)
      BY <2>1, <3>1, Rests, RestOK
    <3>2. CASE Stored(o, r, "started") /\ Continue(e, "effect")
      <4>1. at'[e] = "effect" /\ cur'[e] = o
        BY <3>2 DEF Continue, Goto, TypeOK
      <4> HIDE DEF o, r
      <4>2. mem'[e][o].state = "RUNNING"
        BY <2>1, <2>2, <2>4, CopyChanged
      <4>3. db'[o].state = "RUNNING"
        BY <2>1, <2>2, <3>2 DEF Stored, TypeOK
      <4> QED BY <2>3, <2>4, <4>1, <4>2, <4>3 DEF LabelOK
    <3> QED BY <2>4, <3>1, <3>2
  <2>6. "started" \in EventsOf("RUNNING")
    BY DEF EventsOf
  <2> HIDE DEF o, r
  <2> QED BY <2>1, <2>2, <2>3, <2>4, <2>5, <2>6, RecordKeeps DEF Terminal
<1>10. ASSUME NEW e \in Engines, Effect(e) PROVE Kept
  <2> DEFINE o == cur[e]
  <2>1. /\ at[e] = "effect" /\ o \in Ops
        /\ mem[e][o].state = "RUNNING" /\ db[o].state = "RUNNING" /\ effects[o] = 0
    BY <1>0, <1>10 DEF Effect, LabelOK
  <2>2. /\ UNCHANGED <<db, last, mem>>
        /\ effects'[o] = 1
        /\ \A p \in Ops \ {o} : effects'[p] = effects[p]
        /\ at'[e] = "outcome" /\ cur'[e] = o
    BY <1>10, <2>1 DEF Effect, Continue, Goto, TypeOK
  <2> HIDE DEF o
  <2>3. (WriteAhead /\ EffectAtMostOnce /\ VerifiedHappened /\ EventTellsState)'
    BY <2>1, <2>2 DEF OperationInv, WriteAhead, EffectAtMostOnce, VerifiedHappened,
                      EventTellsState
  <2>4. \A f \in Engines, p \in Ops : CopyOK(f, p)'
    BY <1>0, <2>1, <2>2 DEF Alone, CopyOK
  <2>5. \A f \in Engines : LabelOK(f)'
    BY <2>1, <2>2 DEF Alone, LabelOK
  <2> QED BY <2>2, <2>3, <2>4, <2>5 DEF Kept, OperationInv
<1>11. ASSUME NEW e \in Engines, ExecuteRaised(e) PROVE Kept
  <2>1. at[e] = "outcome" /\ cur[e] \in Ops /\ mem[e][cur[e]].state = "RUNNING"
    BY <1>0, <1>11 DEF ExecuteRaised, LabelOK
  <2>2. "unknown" \in EventsOf("UNKNOWN")
    BY DEF EventsOf
  <2> QED BY <1>0, <1>1, <1>11, <2>1, <2>2, RecordAndRest DEF ExecuteRaised, Terminal
<1>12. ASSUME NEW e \in Engines, ExecuteReturned(e) PROVE Kept
  <2> DEFINE o == cur[e]
  <2>1. /\ at[e] = "outcome" /\ o \in Ops
        /\ mem[e][o].state = "RUNNING" /\ db[o].state = "RUNNING"
    BY <1>0, <1>12 DEF ExecuteReturned, LabelOK
  <2>2. PICK x \in {"none", "value"} :
          Record(e, o, [state |-> "OBSERVED", result |-> x], "none", Continue(e, "verify"))
    BY <1>12 DEF ExecuteReturned
  <2> DEFINE r == [state |-> "OBSERVED", result |-> x]
  <2>3. r \in Operation /\ r.state = "OBSERVED"
    BY DEF Operation
  <2>4. /\ mem' = [mem EXCEPT ![e][o] = r]
        /\ Stored(o, r, "none") \/ NotStored
        /\ effects' = effects
        /\ Continue(e, "verify") \/ Abort(e)
    BY <2>2 DEF Record
  <2>5. LabelOK(e)'
    <3>1. CASE Abort(e)
      BY <2>1, <3>1, Rests, RestOK
    <3>2. CASE Continue(e, "verify")
      <4>1. at'[e] = "verify" /\ cur'[e] = o
        BY <3>2 DEF Continue, Goto, TypeOK
      <4> HIDE DEF o, r
      <4>2. mem'[e][o].state = "OBSERVED"
        BY <2>1, <2>3, <2>4, CopyChanged
      <4> QED BY <4>1, <4>2 DEF LabelOK
    <3> QED BY <2>4, <3>1, <3>2
  <2>6. last[o] \in EventsOf("OBSERVED")
    BY <2>1 DEF OperationInv, EventTellsState, EventsOf
  <2> HIDE DEF o, r
  <2> QED BY <2>1, <2>3, <2>4, <2>5, <2>6, RecordKeeps DEF Terminal
<1>13. ASSUME NEW e \in Engines, Verify(e) PROVE Kept
  <2> DEFINE o == cur[e]
  <2>1. at[e] = "verify" /\ o \in Ops /\ mem[e][o].state \in {"OBSERVED", "VERIFYING"}
    BY <1>0, <1>13 DEF Verify, LabelOK
  <2>2. CASE Record(e, o, With(mem[e][o], "UNKNOWN"), "verify_missing_result", Return(e))
    <3>1. "verify_missing_result" \in EventsOf("UNKNOWN")
      BY DEF EventsOf
    <3> HIDE DEF o
    <3> QED BY <1>0, <1>1, <2>1, <2>2, <3>1, RecordAndRest DEF Terminal
  <2>3. CASE Record(e, o, With(mem[e][o], "VERIFYING"), "none", Continue(e, "verifying"))
    <3> DEFINE r == With(mem[e][o], "VERIFYING")
    <3>1. r \in Operation /\ r.state = "VERIFYING"
      BY <1>0, <1>1, <2>1
    <3>2. /\ mem' = [mem EXCEPT ![e][o] = r]
          /\ Stored(o, r, "none") \/ NotStored
          /\ effects' = effects
          /\ Continue(e, "verifying") \/ Abort(e)
      BY <2>3 DEF Record
    <3>3. LabelOK(e)'
      <4>1. CASE Abort(e)
        BY <2>1, <4>1, Rests, RestOK
      <4>2. CASE Continue(e, "verifying")
        <5>1. at'[e] = "verifying" /\ cur'[e] = o
          BY <4>2 DEF Continue, Goto, TypeOK
        <5> HIDE DEF o, r
        <5>2. mem'[e][o].state = "VERIFYING"
          BY <2>1, <3>1, <3>2, CopyChanged
        <5> QED BY <5>1, <5>2 DEF LabelOK
      <4> QED BY <3>2, <4>1, <4>2
    <3>4. db[o].state \in {"RUNNING", "OBSERVED", "VERIFYING"}
      BY <1>0, <2>1 DEF CopyOK
    <3>5. last[o] \in EventsOf("VERIFYING")
      BY <2>1, <3>4 DEF OperationInv, EventTellsState, EventsOf
    <3> HIDE DEF o, r
    <3> QED BY <2>1, <3>1, <3>2, <3>3, <3>4, <3>5, RecordKeeps DEF Terminal
  <2> QED BY <1>13, <2>2, <2>3 DEF Verify
<1>14. ASSUME NEW e \in Engines, VerifyRaised(e) PROVE Kept
  <2>1. at[e] = "verifying" /\ cur[e] \in Ops /\ mem[e][cur[e]].state = "VERIFYING"
    BY <1>0, <1>14 DEF VerifyRaised, LabelOK
  <2>2. db[cur[e]].state \in {"RUNNING", "OBSERVED", "VERIFYING"}
    BY <1>0, <2>1 DEF CopyOK
  <2>3. "verify_error" \in EventsOf("VERIFYING")
    BY DEF EventsOf
  <2> QED BY <1>0, <1>14, <2>1, <2>2, <2>3, RecordAndRest DEF VerifyRaised, Terminal
<1>15. ASSUME NEW e \in Engines, VerifyReturned(e) PROVE Kept
  <2>1. at[e] = "verifying" /\ cur[e] \in Ops /\ mem[e][cur[e]].state = "VERIFYING"
    BY <1>0, <1>15 DEF VerifyReturned, LabelOK
  <2>2. "verified" \in EventsOf("VERIFIED") /\ "verification_failed" \in EventsOf("FAILED")
    BY DEF EventsOf
  <2>3. CASE effects[cur[e]] > 0 /\
             Record(e, cur[e], With(mem[e][cur[e]], "VERIFIED"), "verified", Return(e))
    BY <1>0, <1>1, <2>1, <2>2, <2>3, RecordAndRest DEF Terminal
  <2>4. CASE Record(e, cur[e], With(mem[e][cur[e]], "FAILED"), "verification_failed", Return(e))
    BY <1>0, <1>1, <2>1, <2>2, <2>4, RecordAndRest DEF Terminal
  <2> QED BY <1>15, <2>3, <2>4 DEF VerifyReturned
<1>16. ASSUME NEW e \in Engines, BeginRecover(e) PROVE Kept
  BY <1>5, <1>16 DEF BeginRecover, Goto, TypeOK
<1>17. ASSUME NEW e \in Engines, EndRecover(e) PROVE Kept
  BY <1>5, <1>17 DEF EndRecover, Abort, Goto, TypeOK
<1>18. ASSUME NEW e \in Engines, NEW o \in Ops, RecoverPrepared(e, o) PROVE Kept
  <2>1. at[e] = "recover" /\ mem[e][o].state = "PREPARED"
    BY <1>18 DEF RecoverPrepared, Visit
  <2>2. effects[o] = 0
    BY <1>0, <2>1 DEF CopyOK, OperationInv, WriteAhead
  <2>3. "abandoned_prepared" \in EventsOf("CANCELLED")
    BY DEF EventsOf
  <2> QED BY <1>0, <1>1, <1>18, <2>1, <2>2, <2>3, RecordAndRest DEF RecoverPrepared, Terminal
<1>19. ASSUME NEW e \in Engines, NEW o \in Ops, RecoverNotInstalled(e, o) PROVE Kept
  BY <1>5, <1>19 DEF RecoverNotInstalled, Visit, Abort, Goto, TypeOK
<1>20. ASSUME NEW e \in Engines, NEW o \in Ops, RecoverObserved(e, o) PROVE Kept
  <2>1. /\ at[e] = "recover" /\ UNCHANGED <<db, last, mem, effects>>
        /\ mem[e][o].state \in {"OBSERVED", "VERIFYING"}
        /\ Enter(e, o, "verify") \/ Leave(e, o)
    BY <1>20 DEF RecoverObserved, Visit
  <2>2. CASE Leave(e, o)
    BY <1>5, <2>1, <2>2, Rests
  <2>3. CASE Enter(e, o, "verify")
    <3>1. at'[e] = "verify" /\ cur'[e] = o
      BY <2>3 DEF Enter, Goto, TypeOK
    <3>2. LabelOK(e)'
      BY <2>1, <3>1 DEF LabelOK
    <3> QED BY <2>1, <3>2, QuietKeeps DEF Alone
  <2> QED BY <2>1, <2>2, <2>3
<1>21. ASSUME NEW e \in Engines, NEW o \in Ops, RecoverUnknown(e, o) PROVE Kept
  <2> DEFINE r == With(mem[e][o], "RECONCILING")
  <2>1. at[e] = "recover" /\ mem[e][o].state \in {"RUNNING", "UNKNOWN", "RECONCILING"}
    BY <1>21 DEF RecoverUnknown, Visit
  <2>2. r \in Operation /\ r.state = "RECONCILING"
    BY <1>0, <1>1
  <2>3. /\ mem' = [mem EXCEPT ![e][o] = r]
        /\ Stored(o, r, "reconciling") \/ NotStored
        /\ effects' = effects
        /\ Enter(e, o, "reconcile") \/ Abort(e)
    BY <1>21 DEF RecoverUnknown, Record
  <2>4. LabelOK(e)'
    <3>1. CASE Abort(e)
      BY <3>1, Rests, RestOK
    <3>2. CASE Enter(e, o, "reconcile")
      <4>1. at'[e] = "reconcile" /\ cur'[e] = o
        BY <3>2 DEF Enter, Goto, TypeOK
      <4> HIDE DEF r
      <4>2. mem'[e][o].state = "RECONCILING"
        BY <2>2, <2>3, CopyChanged
      <4> QED BY <4>1, <4>2 DEF LabelOK
    <3> QED BY <2>3, <3>1, <3>2
  <2>5. "reconciling" \in EventsOf("RECONCILING")
    BY DEF EventsOf
  <2> HIDE DEF r
  <2> QED BY <2>1, <2>2, <2>3, <2>4, <2>5, RecordKeeps DEF Terminal
<1>22. ASSUME NEW e \in Engines, ReconcileRaised(e) PROVE Kept
  <2>1. at[e] = "reconcile" /\ cur[e] \in Ops /\ mem[e][cur[e]].state = "RECONCILING"
    BY <1>0, <1>22 DEF ReconcileRaised, LabelOK
  <2>2. "reconcile_error" \in EventsOf("UNKNOWN")
    BY DEF EventsOf
  <2> QED BY <1>0, <1>1, <1>22, <2>1, <2>2, RecordAndRest DEF ReconcileRaised, Terminal
<1>23. ASSUME NEW e \in Engines, ReconcileReturned(e) PROVE Kept
  <2>1. at[e] = "reconcile" /\ cur[e] \in Ops /\ mem[e][cur[e]].state = "RECONCILING"
    BY <1>0, <1>23 DEF ReconcileReturned, LabelOK
  <2>2. PICK x \in {"none", "value"}, s \in {"VERIFIED", "FAILED"} :
          /\ s = "VERIFIED" => effects[cur[e]] > 0
          /\ Record(e, cur[e], [state |-> s, result |-> x], "reconciled", Return(e))
    BY <1>23 DEF ReconcileReturned
  <2> DEFINE r == [state |-> s, result |-> x]
  <2>3. r \in Operation /\ r.state = s
    BY DEF Operation
  <2>4. "reconciled" \in EventsOf(s)
    BY DEF EventsOf
  <2>5. s = "VERIFIED" => effects[cur[e]] = 1
    BY <1>0, <2>1, <2>2
  <2>6. Record(e, cur[e], r, "reconciled", Return(e))
    BY <2>2
  <2> HIDE DEF r
  <2> QED BY <2>1, <2>3, <2>4, <2>5, <2>6, RecordAndRest DEF Terminal
<1> QED
  BY <1>2, <1>3, <1>4, <1>6, <1>7, <1>8, <1>9, <1>10, <1>11, <1>12, <1>13, <1>14, <1>15,
     <1>16, <1>17, <1>18, <1>19, <1>20, <1>21, <1>22, <1>23
     DEF Next, EngineStep, vars, ClaimLease, LapseLease, SaveTask

(***************************************************************************)
(* The strengthened invariant holds of a single engine.                    *)
(***************************************************************************)
THEOREM InvariantCorrect == Alone /\ Spec => []OperationInv
<1> SUFFICES ASSUME Alone PROVE Spec => []OperationInv
  OBVIOUS
<1>1. Init => OperationInv
  BY DEF Init, OperationInv, WriteAhead, EffectAtMostOnce, VerifiedHappened, EventTellsState,
         EventsOf, CopyOK, LabelOK, Absent
<1>2. TypeOK /\ OperationInv /\ [Next]_vars => OperationInv'
  BY StepKeeps DEF Kept
<1> QED BY <1>1, <1>2, TypeCorrect, PTL DEF Spec

(***************************************************************************)
(* An operation whose effect may have happened is stored as such: after a  *)
(* crash execute() is not taken for something that never began.            *)
(***************************************************************************)
THEOREM WriteAheadCorrect == Alone /\ Spec => []WriteAhead
<1>1. OperationInv => WriteAhead
  BY DEF OperationInv
<1> QED BY <1>1, InvariantCorrect, PTL

(***************************************************************************)
(* The newest event of an operation agrees with its row, whichever saves   *)
(* failed.                                                                 *)
(***************************************************************************)
THEOREM EventsCorrect == Alone /\ Spec => []EventTellsState
<1>1. OperationInv => EventTellsState
  BY DEF OperationInv
<1> QED BY <1>1, InvariantCorrect, PTL

(***************************************************************************)
(* No step of a single engine, a restart or recovery included, changes an  *)
(* operation stored as VERIFIED, FAILED or CANCELLED.                      *)
(***************************************************************************)
THEOREM OutcomeCorrect == Alone /\ Spec => OutcomeIsFinal
<1> SUFFICES ASSUME Alone PROVE Spec => OutcomeIsFinal
  OBVIOUS
<1>1. TypeOK /\ OperationInv /\ [Next]_vars =>
        [\A o \in Ops : db[o].state \in Terminal => db'[o] = db[o]]_vars
  BY StepKeeps DEF Kept
<1>2. Spec => []OperationInv
  BY InvariantCorrect
<1> QED BY <1>1, <1>2, TypeCorrect, PTL DEF Spec, OutcomeIsFinal

-----------------------------------------------------------------------------

\* Operations whose preparation was stored and that were not abandoned.
Known == {o \in Ops : db[o].state \notin {"ABSENT", "CANCELLED"}}

\* What a live engine counted, and which of its operations are counted.
CountOK(e) ==
    /\ startedDb <= started[e]
    /\ MaxOperations >= 0 => started[e] <= MaxOperations
    /\ at[e] = "save_prepared" => startedDb < started[e]
    /\ at[e] \in {"execute", "start"} => cur[e] \in Known
    /\ \A o \in Ops : mem[e][o].state \notin {"ABSENT", "PREPARED", "CANCELLED"} => o \in Known

(***************************************************************************)
(* The inductive invariant behind the budget of a single engine: the row   *)
(* counts every operation it knows of, the copy counts at least as many,   *)
(* and more while a preparation is being saved.                            *)
(***************************************************************************)
BudgetInv ==
    /\ Cardinality(Known) <= startedDb
    /\ MaxOperations >= 0 => startedDb <= MaxOperations
    /\ \A e \in Engines : at[e] # "down" => CountOK(e)

(***************************************************************************)
(* Sets of operations are finite and counted by natural numbers.           *)
(***************************************************************************)
LEMMA Counts ==
    ASSUME NEW S \in SUBSET Ops
    PROVE  /\ IsFiniteSet(S) /\ Cardinality(S) \in Nat
           /\ \A T \in SUBSET S : Cardinality(T) <= Cardinality(S)
<1>1. IsFiniteSet(S)
  BY FiniteAssumption, FS_Subset
<1>2. Cardinality(S) \in Nat
  BY <1>1, FS_CardinalityType
<1>3. \A T \in SUBSET S : Cardinality(T) <= Cardinality(S)
  BY <1>1, FS_Subset
<1> QED BY <1>1, <1>2, <1>3

(***************************************************************************)
(* A step that writes neither rows, copies nor counts keeps BudgetInv, if  *)
(* the operation an engine is about to start is still a known one.         *)
(***************************************************************************)
LEMMA QuietCounts ==
    ASSUME BudgetInv, UNCHANGED <<db, mem, startedDb, started>>,
           \A f \in Engines : at[f] = "down" => at'[f] = "down",
           \A f \in Engines : at'[f] = "save_prepared" => at[f] = "save_prepared",
           \A f \in Engines : at'[f] \in {"execute", "start"} => cur'[f] \in Known
    PROVE  BudgetInv'
<1>1. Known' = Known
  BY DEF Known
<1>2. ASSUME NEW f \in Engines, at'[f] # "down" PROVE CountOK(f)'
  BY <1>1, <1>2 DEF BudgetInv, CountOK
<1> QED BY <1>1, <1>2 DEF BudgetInv

(***************************************************************************)
(* A save of a known operation, or of one that is given up, keeps          *)
(* BudgetInv.                                                              *)
(***************************************************************************)
LEMMA RecordCounts ==
    ASSUME Alone, TypeOK, BudgetInv,
           NEW e \in Engines, NEW o \in Ops, NEW r \in Operation, NEW event \in EventType,
           at[e] # "down",
           mem' = [mem EXCEPT ![e][o] = r],
           Stored(o, r, event) \/ NotStored,
           UNCHANGED <<startedDb, started>>,
           r.state # "ABSENT",
           o \in Known \/ r.state = "CANCELLED",
           at'[e] \notin {"save_prepared", "execute", "start"}
    PROVE  BudgetInv'
<1>1. /\ mem'[e][o] = r
      /\ \A p \in Ops \ {o} : mem'[e][p] = mem[e][p]
  BY CopyChanged
<1>2. /\ \A p \in Ops \ {o} : db'[p] = db[p]
      /\ db'[o] = db[o] \/ db'[o] = r
  BY DEF Stored, NotStored, TypeOK
<1>3. Known' \subseteq Known
  BY <1>2 DEF Known
<1>4. /\ \A p \in Known \ {o} : p \in Known'
      /\ r.state # "CANCELLED" => o \in Known'
  BY <1>2 DEF Known
<1>5. Cardinality(Known') <= startedDb'
  <2>1. Known \in SUBSET Ops /\ Known' \in SUBSET Known /\ Known' \in SUBSET Ops
    BY <1>3 DEF Known
  <2>2. Cardinality(Known') <= Cardinality(Known) /\ Cardinality(Known) \in Nat
        /\ Cardinality(Known') \in Nat
    BY <2>1, Counts
  <2> QED BY <2>2 DEF BudgetInv, TypeOK
<1>6. ASSUME NEW f \in Engines, at'[f] # "down" PROVE CountOK(f)'
  <2>1. f = e
    BY DEF Alone
  <2>2. CountOK(e)
    BY DEF BudgetInv
  <2>3. \A p \in Ops : mem'[e][p].state \notin {"ABSENT", "PREPARED", "CANCELLED"} => p \in Known'
    BY <1>1, <1>4, <2>2 DEF CountOK
  <2> QED BY <2>1, <2>2, <2>3 DEF CountOK
<1> QED BY <1>5, <1>6 DEF BudgetInv

(***************************************************************************)
(* Record, for an engine that goes on to a label without a count to keep.  *)
(***************************************************************************)
LEMMA RecordStepCounts ==
    ASSUME Alone, TypeOK, BudgetInv,
           NEW e \in Engines, NEW o \in Ops, NEW r \in Operation, NEW event \in EventType,
           at[e] # "down",
           \/ Record(e, o, r, event, Return(e))
           \/ Record(e, o, r, event, Leave(e, o)) /\ at[e] = "recover"
           \/ \E l \in {"effect", "verify", "verifying"} : Record(e, o, r, event, Continue(e, l))
           \/ Record(e, o, r, event, Enter(e, o, "reconcile")),
           r.state # "ABSENT",
           o \in Known \/ r.state = "CANCELLED"
    PROVE  BudgetInv'
<1>1. /\ mem' = [mem EXCEPT ![e][o] = r]
      /\ Stored(o, r, event) \/ NotStored
      /\ UNCHANGED <<startedDb, started>>
  BY DEF Record
<1>2. at'[e] \notin {"save_prepared", "execute", "start"}
  <2>1. \/ Abort(e) \/ Return(e) \/ (Leave(e, o) /\ at[e] = "recover")
        \/ \E l \in {"effect", "verify", "verifying"} : Continue(e, l)
        \/ Enter(e, o, "reconcile")
    BY DEF Record
  <2> QED BY <2>1 DEF TypeOK, Abort, Return, Leave, Continue, Enter, Goto
<1> QED BY <1>1, <1>2, RecordCounts

(***************************************************************************)
(* Every step of a lone engine keeps BudgetInv.                            *)
(***************************************************************************)
LEMMA StepCounts ==
    ASSUME Alone, TypeOK, OperationInv, BudgetInv, [Next]_vars
    PROVE  BudgetInv'
<1>0. /\ \A f \in Engines : at[f] \notin {"down", "idle", "recover"} => cur[f] \in Ops
      /\ \A f \in Engines, p \in Ops : mem[f][p] \in Operation
      /\ \A f \in Engines : LabelOK(f)
      /\ startedDb \in Nat /\ \A f \in Engines : started[f] \in Nat
  BY DEF TypeOK, OperationInv
<1>1. \A r \in Operation, s \in OperationState :
        With(r, s) \in Operation /\ With(r, s).state = s
  BY WithType
<1>2. ASSUME NEW e \in Engines, at[e] # "down" PROVE CountOK(e)
  BY <1>2 DEF BudgetInv
\* An operation whose copy is further than PREPARED is known.
<1>3. ASSUME NEW e \in Engines, NEW o \in Ops, at[e] # "down",
             mem[e][o].state \in {"RUNNING", "OBSERVED", "VERIFYING", "UNKNOWN", "RECONCILING"}
      PROVE  o \in Known
  BY <1>2, <1>3 DEF CountOK
<1> USE DEF OperationState, EventType
<1>4. ASSUME NEW e \in Engines, FromStore(e) PROVE BudgetInv'
  <2>1. /\ Known' = Known /\ startedDb' = startedDb
        /\ started'[e] = startedDb /\ mem'[e] = db /\ at'[e] = "idle"
    BY <1>4 DEF FromStore, Known, Continue, Goto, TypeOK
  <2>2. \A f \in Engines : f = e
    BY DEF Alone
  <2>3. CountOK(e)'
    BY <1>0, <2>1 DEF CountOK, BudgetInv, Known
  <2> QED BY <2>1, <2>2, <2>3 DEF BudgetInv
<1>5. ASSUME NEW e \in Engines, Crash(e) PROVE BudgetInv'
  <2>1. Known' = Known /\ startedDb' = startedDb /\ at'[e] = "down"
    BY <1>5 DEF Crash, Known, Goto, TypeOK
  <2> QED BY <2>1 DEF BudgetInv, Alone
<1>6. ASSUME NEW e \in Engines, SaveTask(e) PROVE BudgetInv'
  <2>1. /\ Known' = Known /\ startedDb' = started[e]
        /\ UNCHANGED <<at, cur, mem, started>> /\ at[e] \in {"idle", "execute", "recover"}
    BY <1>6 DEF SaveTask, Known
  <2>2. CountOK(e) /\ startedDb <= started[e]
    BY <1>2, <2>1 DEF CountOK
  <2>3. Cardinality(Known) \in Nat
    BY Counts DEF Known
  <2>4. Cardinality(Known') <= startedDb' /\ (MaxOperations >= 0 => startedDb' <= MaxOperations)
    BY <1>0, <2>1, <2>2, <2>3 DEF BudgetInv, CountOK
  <2>5. CountOK(e)'
    BY <1>0, <2>1, <2>2 DEF CountOK
  <2> QED BY <2>4, <2>5 DEF BudgetInv, Alone
<1>7. ASSUME NEW e \in Engines, NEW o \in Ops, Prepare(e, o) PROVE BudgetInv'
  <2>1. /\ Known' = Known /\ UNCHANGED <<startedDb, mem>>
        /\ started'[e] = started[e] + 1 /\ WithinBudget(started[e])
        /\ at[e] = "idle" /\ at'[e] \in {"save_prepared", "idle"}
    BY <1>7 DEF Prepare, Known, Goto, Abort, TypeOK
  <2>2. CountOK(e)
    BY <1>2, <2>1
  <2>3. MaxOperations >= 0 => started'[e] <= MaxOperations
    BY <1>0, <2>1, BudgetAssumption DEF WithinBudget
  <2>4. CountOK(e)'
    BY <1>0, <2>1, <2>2, <2>3 DEF CountOK
  <2> QED BY <2>1, <2>4 DEF BudgetInv, Alone
<1>8. ASSUME NEW e \in Engines, SavePrepared(e) PROVE BudgetInv'
  <2> DEFINE r == [state |-> "PREPARED", result |-> "none"]
  <2>1. /\ at[e] = "save_prepared" /\ cur[e] \in Ops /\ r \in Operation
        /\ mem' = [mem EXCEPT ![e][cur[e]] = r] /\ started' = started
    BY <1>0, <1>8 DEF SavePrepared, Operation
  <2>2. CountOK(e) /\ startedDb < started[e]
    BY <1>2, <2>1 DEF CountOK
  <2>3. CASE NotStored /\ UNCHANGED startedDb /\ Abort(e)
    <3>1. Known' = Known /\ at'[e] = "idle"
      BY <2>3 DEF NotStored, Known, Abort, Goto, TypeOK
    <3>2. CountOK(e)'
      BY <2>1, <2>2, <2>3, <3>1, CopyChanged DEF CountOK
    <3> QED BY <2>3, <3>1, <3>2 DEF BudgetInv, Alone
  <2>4. CASE Stored(cur[e], r, "prepared") /\ startedDb' = started[e] /\ Continue(e, "execute")
    <3>1. db' = [db EXCEPT ![cur[e]] = r] /\ at'[e] = "execute" /\ cur' = cur
      BY <2>4 DEF Stored, Continue, Goto, TypeOK
    <3>2. Known' = Known \cup {cur[e]}
      BY <2>1, <3>1 DEF Known, TypeOK
    <3>3. IsFiniteSet(Known) /\ Cardinality(Known) \in Nat
      BY Counts DEF Known
    <3>4. Cardinality(Known') <= Cardinality(Known) + 1 /\ Cardinality(Known') \in Nat
      <4>1. Cardinality(Known \cup {cur[e]}) \in {Cardinality(Known), Cardinality(Known) + 1}
        BY <3>3, FS_AddElement
      <4> QED BY <3>2, <3>3, <4>1
    <3>5. Cardinality(Known') <= startedDb' /\ (MaxOperations >= 0 => startedDb' <= MaxOperations)
      BY <1>0, <2>2, <2>4, <3>3, <3>4 DEF BudgetInv, CountOK
    <3>6. CountOK(e)'
      BY <1>0, <2>1, <2>2, <2>4, <3>1, <3>2, CopyChanged DEF CountOK
    <3> QED BY <3>5, <3>6 DEF BudgetInv, Alone
  <2> QED BY <1>8, <2>3, <2>4 DEF SavePrepared
\* Steps that write neither rows, copies nor counts
<1>9. ASSUME \/ \E e \in Engines : ClaimLease(e)
             \/ LapseLease
             \/ UNCHANGED vars
      PROVE  BudgetInv'
  <2>1. UNCHANGED <<db, mem, startedDb, started, at, cur>>
    BY <1>9 DEF ClaimLease, LapseLease, vars
  <2>2. \A f \in Engines : at[f] \in {"execute", "start"} => cur[f] \in Known
    BY <1>2 DEF CountOK
  <2> QED BY <2>1, <2>2, QuietCounts
<1>10. ASSUME NEW e \in Engines,
              \/ Validate(e) \/ Effect(e) \/ BeginRecover(e) \/ EndRecover(e)
              \/ \E o \in Ops : RecoverNotInstalled(e, o) \/ RecoverObserved(e, o)
       PROVE  BudgetInv'
  <2>1. UNCHANGED <<db, mem, startedDb, started>> /\ at[e] # "down"
    BY <1>10 DEF Validate, Effect, BeginRecover, EndRecover, RecoverNotInstalled, RecoverObserved,
                 Visit
  <2>2. \/ at'[e] \in {"idle", "outcome", "recover", "verify"}
        \/ at[e] = "execute" /\ at'[e] = "start" /\ cur' = cur
    BY <1>10 DEF Validate, Effect, BeginRecover, EndRecover, RecoverNotInstalled, RecoverObserved,
                 Visit, Abort, Continue, Enter, Leave, Goto, TypeOK
  <2>3. \A f \in Engines : f = e
    BY DEF Alone
  <2>4. CountOK(e)
    BY <1>2, <2>1
  <2> QED BY <2>1, <2>2, <2>3, <2>4, QuietCounts DEF CountOK
\* Saves
<1>11. ASSUME NEW e \in Engines, Start(e) PROVE BudgetInv'
  <2>1. at[e] = "start" /\ cur[e] \in Ops /\ cur[e] \in Known
    BY <1>0, <1>2, <1>11 DEF Start, CountOK
  <2> QED BY <1>0, <1>1, <1>11, <2>1, RecordStepCounts DEF Start
<1>12. ASSUME NEW e \in Engines, ExecuteRaised(e) \/ ExecuteReturned(e) PROVE BudgetInv'
  <2>1. at[e] = "outcome" /\ cur[e] \in Ops /\ cur[e] \in Known
    BY <1>0, <1>3, <1>12 DEF ExecuteRaised, ExecuteReturned, LabelOK
  <2>2. CASE ExecuteRaised(e)
    BY <1>0, <1>1, <2>1, <2>2, RecordStepCounts DEF ExecuteRaised
  <2>3. CASE ExecuteReturned(e)
    <3>1. PICK x \in {"none", "value"} :
            Record(e, cur[e], [state |-> "OBSERVED", result |-> x], "none", Continue(e, "verify"))
      BY <2>3 DEF ExecuteReturned
    <3>2. [state |-> "OBSERVED", result |-> x] \in Operation
      BY DEF Operation
    <3> QED BY <2>1, <3>1, <3>2, RecordStepCounts
  <2> QED BY <1>12, <2>2, <2>3
<1>13. ASSUME NEW e \in Engines, Verify(e) PROVE BudgetInv'
  <2>1. at[e] = "verify" /\ cur[e] \in Ops /\ cur[e] \in Known
    BY <1>0, <1>3, <1>13 DEF Verify, LabelOK
  <2>2. \/ Record(e, cur[e], With(mem[e][cur[e]], "UNKNOWN"), "verify_missing_result", Return(e))
        \/ Record(e, cur[e], With(mem[e][cur[e]], "VERIFYING"), "none", Continue(e, "verifying"))
    BY <1>13 DEF Verify
  <2> QED BY <1>0, <1>1, <2>1, <2>2, RecordStepCounts
<1>14. ASSUME NEW e \in Engines, VerifyRaised(e) \/ VerifyReturned(e) PROVE BudgetInv'
  <2>1. /\ at[e] = "verifying" /\ cur[e] \in Ops /\ cur[e] \in Known
        /\ mem[e][cur[e]].state = "VERIFYING"
    BY <1>0, <1>3, <1>14 DEF VerifyRaised, VerifyReturned, LabelOK
  <2>2. \/ Record(e, cur[e], mem[e][cur[e]], "verify_error", Return(e))
        \/ Record(e, cur[e], With(mem[e][cur[e]], "VERIFIED"), "verified", Return(e))
        \/ Record(e, cur[e], With(mem[e][cur[e]], "FAILED"), "verification_failed", Return(e))
    BY <1>14 DEF VerifyRaised, VerifyReturned
  <2> QED BY <1>0, <1>1, <2>1, <2>2, RecordStepCounts
<1>15. ASSUME NEW e \in Engines, NEW o \in Ops, RecoverPrepared(e, o) PROVE BudgetInv'
  BY <1>0, <1>1, <1>15, RecordStepCounts DEF RecoverPrepared, Visit
<1>16. ASSUME NEW e \in Engines, NEW o \in Ops, RecoverUnknown(e, o) PROVE BudgetInv'
  <2>1. at[e] = "recover" /\ o \in Known
    BY <1>3, <1>16 DEF RecoverUnknown, Visit
  <2> QED BY <1>0, <1>1, <1>16, <2>1, RecordStepCounts DEF RecoverUnknown
<1>17. ASSUME NEW e \in Engines, ReconcileRaised(e) \/ ReconcileReturned(e) PROVE BudgetInv'
  <2>1. at[e] = "reconcile" /\ cur[e] \in Ops /\ cur[e] \in Known
    BY <1>0, <1>3, <1>17 DEF ReconcileRaised, ReconcileReturned, LabelOK
  <2>2. CASE ReconcileRaised(e)
    BY <1>0, <1>1, <2>1, <2>2, RecordStepCounts DEF ReconcileRaised
  <2>3. CASE ReconcileReturned(e)
    <3>1. PICK x \in {"none", "value"}, s \in {"VERIFIED", "FAILED"} :
            Record(e, cur[e], [state |-> s, result |-> x], "reconciled", Return(e))
      BY <2>3 DEF ReconcileReturned
    <3>2. [state |-> s, result |-> x] \in Operation
      BY DEF Operation
    <3> QED BY <2>1, <3>1, <3>2, RecordStepCounts
  <2> QED BY <1>17, <2>2, <2>3
<1> QED
  BY <1>4, <1>5, <1>6, <1>7, <1>8, <1>9, <1>10, <1>11, <1>12, <1>13, <1>14, <1>15, <1>16, <1>17
     DEF Next, EngineStep

(***************************************************************************)
(* For one engine, operations that ran are counted in the stored budget,   *)
(* and the count never passes its limit, whatever is lost in crashes and   *)
(* failed saves between counting and storing.                              *)
(***************************************************************************)
THEOREM BudgetCorrect == Alone /\ Spec => []BudgetRespected
<1> SUFFICES ASSUME Alone PROVE Spec => []BudgetRespected
  OBVIOUS
<1>1. Init => BudgetInv
  <2> SUFFICES ASSUME Init PROVE BudgetInv
    OBVIOUS
  <2>1. Known = {}
    BY DEF Init, Known, Absent
  <2>2. Cardinality(Known) = 0
    BY <2>1, FS_EmptySet
  <2> QED BY <2>2 DEF Init, BudgetInv
<1>2. TypeOK /\ OperationInv /\ BudgetInv /\ [Next]_vars => BudgetInv'
  BY StepCounts
<1>3. TypeOK /\ OperationInv /\ BudgetInv => BudgetRespected
  <2> SUFFICES ASSUME TypeOK, OperationInv, BudgetInv PROVE BudgetRespected
    OBVIOUS
  <2> DEFINE ran == {o \in Ops : effects[o] > 0}
  <2>1. ran \in SUBSET Known /\ ran \in SUBSET Ops /\ Known \in SUBSET Ops
    BY DEF OperationInv, WriteAhead, Known
  <2>2. /\ Cardinality(ran) <= Cardinality(Known)
        /\ Cardinality(ran) \in Nat /\ Cardinality(Known) \in Nat
    BY <2>1, Counts
  <2> QED BY <2>2 DEF BudgetInv, BudgetRespected, TypeOK
<1>4. Spec => []OperationInv
  BY InvariantCorrect
<1> QED BY <1>1, <1>2, <1>3, <1>4, TypeCorrect, PTL DEF Spec

-----------------------------------------------------------------------------

\* What recover() leaves behind once it is through with an operation.
Settled(r) ==
    /\ r.state \notin {"PREPARED", "RUNNING", "RECONCILING"}
    /\ r.state = "OBSERVED" => r.result = "none"

\* Inside recover() an operation that is not on the list any more is settled, unless
\* it is the one in hand.
RecoverOK(e) ==
    /\ at[e] = "recover" => e \in recovering
    /\ e \in recovering =>
          /\ at[e] \in {"recover", "verify", "verifying", "reconcile"}
          /\ \A o \in Ops \ todo[e] :
                Settled(mem[e][o]) \/ (at[e] \in {"verify", "reconcile"} /\ cur[e] = o)

(***************************************************************************)
(* The inductive invariant behind RecoveredMeansSettled, for any number of *)
(* engines: recover() works on the copies of its own process alone.        *)
(***************************************************************************)
SettledInv == TypeOK /\ \A e \in Engines : RecoverOK(e)

\* Nothing about engine e changes.
Idle(e) ==
    /\ mem'[e] = mem[e] /\ at'[e] = at[e] /\ cur'[e] = cur[e] /\ todo'[e] = todo[e]
    /\ (e \in recovering') = (e \in recovering)

(***************************************************************************)
(* A step of one engine keeps RecoverOK of the others.                     *)
(***************************************************************************)
LEMMA IdleKeeps ==
    ASSUME NEW e \in Engines, RecoverOK(e), Idle(e)
    PROVE  RecoverOK(e)'
BY DEF RecoverOK, Idle

(***************************************************************************)
(* A move between labels concerns one engine, and either ends its          *)
(* recover() or stays in it.                                               *)
(***************************************************************************)
LEMMA Moves ==
    ASSUME TypeOK, NEW e \in Engines, NEW o \in Ops, NEW l \in Labels,
           Abort(e) \/ Return(e) \/ Leave(e, o) \/ Continue(e, l) \/ Enter(e, o, l)
    PROVE  /\ \A f \in Engines \ {e} :
                 /\ at'[f] = at[f] /\ cur'[f] = cur[f] /\ todo'[f] = todo[f]
                 /\ (f \in recovering') = (f \in recovering)
           /\ Abort(e) => at'[e] = "idle" /\ e \notin recovering'
           /\ Return(e) => /\ at'[e] = IF e \in recovering THEN "recover" ELSE "idle"
                           /\ recovering' = recovering /\ todo'[e] = todo[e]
           /\ Leave(e, o) => /\ at'[e] = at[e] /\ recovering' = recovering
                             /\ todo'[e] = todo[e] \ {o}
           /\ Continue(e, l) => /\ at'[e] = l /\ cur'[e] = cur[e]
                                /\ recovering' = recovering /\ todo'[e] = todo[e]
           /\ Enter(e, o, l) => /\ at'[e] = l /\ cur'[e] = o
                                /\ recovering' = recovering /\ todo'[e] = todo[e] \ {o}
<1>1. CASE Abort(e)
  BY <1>1 DEF TypeOK, Abort, Return, Leave, Continue, Enter, Visited, Goto
<1>2. CASE Return(e)
  BY <1>2 DEF TypeOK, Abort, Return, Leave, Continue, Enter, Visited, Goto
<1>3. CASE Leave(e, o)
  BY <1>3 DEF TypeOK, Abort, Return, Leave, Continue, Enter, Visited, Goto
<1>4. CASE Continue(e, l)
  BY <1>4 DEF TypeOK, Abort, Return, Leave, Continue, Enter, Visited, Goto
<1>5. CASE Enter(e, o, l)
  BY <1>5 DEF TypeOK, Abort, Return, Leave, Continue, Enter, Visited, Goto
<1> QED BY <1>1, <1>2, <1>3, <1>4, <1>5

(***************************************************************************)
(* A save inside recover() keeps RecoverOK if what it saves is settled, or *)
(* the operation is in hand afterwards.                                    *)
(***************************************************************************)
LEMMA RecordSettles ==
    ASSUME SettledInv, NEW e \in Engines, NEW o \in Ops, NEW r \in Operation,
           NEW l \in Labels, NEW event \in EventType,
           at[e] # "down", at[e] # "idle",
           at[e] \in {"verify", "reconcile"} => cur[e] = o,
           \/ Record(e, o, r, event, Return(e)) /\ Settled(r)
           \/ Record(e, o, r, event, Leave(e, o)) /\ Settled(r) /\ at[e] = "recover"
           \/ /\ Record(e, o, r, event, Continue(e, l)) /\ cur[e] = o /\ l # "recover"
              /\ e \in recovering => l = "verifying" /\ Settled(r)
           \/ Record(e, o, r, event, Enter(e, o, l)) /\ l = "reconcile"
    PROVE  \A f \in Engines : RecoverOK(f)'
<1>1. /\ mem'[e][o] = r
      /\ \A p \in Ops \ {o} : mem'[e][p] = mem[e][p]
  BY CopyChanged DEF SettledInv, Record
<1>2. ASSUME NEW f \in Engines \ {e} PROVE RecoverOK(f)'
  <2>1. mem'[f] = mem[f]
    BY DEF SettledInv, TypeOK, Record
  <2>2. Abort(e) \/ Return(e) \/ Leave(e, o) \/ Continue(e, l) \/ Enter(e, o, l)
    BY DEF Record
  <2>3. Idle(f)
    BY <2>1, <2>2, Moves DEF SettledInv, Idle
  <2> QED BY <2>3, IdleKeeps DEF SettledInv
<1>3. CASE Abort(e)
  <2>1. at'[e] = "idle" /\ e \notin recovering'
    BY <1>3, Moves DEF SettledInv
  <2> QED BY <1>2, <2>1 DEF RecoverOK
<1>4. CASE Return(e) /\ Settled(r)
  <2>1. /\ at'[e] = IF e \in recovering THEN "recover" ELSE "idle"
        /\ recovering' = recovering /\ todo'[e] = todo[e]
    BY <1>4, Moves DEF SettledInv
  <2>2. RecoverOK(e)'
    BY <1>1, <1>4, <2>1 DEF SettledInv, RecoverOK
  <2> QED BY <1>2, <2>2
<1>5. CASE Leave(e, o) /\ Settled(r) /\ at[e] = "recover"
  <2>1. at'[e] = at[e] /\ recovering' = recovering /\ todo'[e] = todo[e] \ {o}
    BY <1>5, Moves DEF SettledInv
  <2>2. RecoverOK(e)'
    BY <1>1, <1>5, <2>1 DEF SettledInv, RecoverOK
  <2> QED BY <1>2, <2>2
<1>6. CASE /\ Continue(e, l) /\ cur[e] = o /\ l # "recover"
           /\ e \in recovering => l = "verifying" /\ Settled(r)
  <2>1. at'[e] = l /\ cur'[e] = cur[e] /\ recovering' = recovering /\ todo'[e] = todo[e]
    BY <1>6, Moves DEF SettledInv
  <2>2. RecoverOK(e)'
    BY <1>1, <1>6, <2>1 DEF SettledInv, RecoverOK
  <2> QED BY <1>2, <2>2
<1>7. CASE Enter(e, o, l) /\ l = "reconcile"
  <2>1. /\ at'[e] = l /\ cur'[e] = o /\ recovering' = recovering
        /\ todo'[e] = todo[e] \ {o}
    BY <1>7, Moves DEF SettledInv
  <2>2. RecoverOK(e)'
    BY <1>1, <1>7, <2>1 DEF SettledInv, RecoverOK
  <2> QED BY <1>2, <2>2
<1> QED BY <1>3, <1>4, <1>5, <1>6, <1>7 DEF Record

(***************************************************************************)
(* A step of an engine that saves nothing keeps RecoverOK if it ends       *)
(* recover(), or does not, or takes up an observed operation.              *)
(***************************************************************************)
LEMMA QuietSettles ==
    ASSUME SettledInv, NEW e \in Engines, NEW o \in Ops, NEW l \in Labels, mem' = mem,
           \/ Abort(e)
           \/ Leave(e, o) /\ at[e] = "recover" /\ Settled(mem[e][o])
           \/ Continue(e, l) /\ e \notin recovering /\ l # "recover"
           \/ Enter(e, o, l) /\ l = "verify" /\ at[e] = "recover"
    PROVE  \A f \in Engines : RecoverOK(f)'
<1>1. ASSUME NEW f \in Engines \ {e} PROVE RecoverOK(f)'
  <2>1. Idle(f)
    BY Moves DEF SettledInv, Idle
  <2> QED BY <2>1, IdleKeeps DEF SettledInv
<1>2. RecoverOK(e)'
  <2>1. CASE Abort(e)
    BY <2>1, Moves DEF SettledInv, RecoverOK
  <2>2. CASE Leave(e, o) /\ at[e] = "recover" /\ Settled(mem[e][o])
    BY <2>2, Moves DEF SettledInv, RecoverOK
  <2>3. CASE Continue(e, l) /\ e \notin recovering /\ l # "recover"
    BY <2>3, Moves DEF SettledInv, RecoverOK
  <2>4. CASE Enter(e, o, l) /\ l = "verify" /\ at[e] = "recover"
    BY <2>4, Moves DEF SettledInv, RecoverOK
  <2> QED BY <2>1, <2>2, <2>3, <2>4
<1> QED BY <1>1, <1>2

(***************************************************************************)
(* Every step keeps RecoverOK.                                             *)
(***************************************************************************)
LEMMA StepSettles ==
    ASSUME SettledInv, [Next]_vars
    PROVE  \A f \in Engines : RecoverOK(f)'
<1> DEFINE Good == \A f \in Engines : RecoverOK(f)'
<1> SUFFICES Good
  OBVIOUS
<1>0. /\ TypeOK
      /\ \A f \in Engines : at[f] \notin {"down", "idle", "recover"} => cur[f] \in Ops
      /\ \A f \in Engines, p \in Ops : mem[f][p] \in Operation
      /\ \A f \in Engines : /\ at[f] = "recover" => f \in recovering
                            /\ f \in recovering => at[f] \in {"recover", "verify", "verifying",
                                                              "reconcile"}
      /\ \A f \in Engines, p \in Ops :
            f \in recovering /\ at[f] \in {"recover", "verifying"} /\ p \notin todo[f]
               => Settled(mem[f][p])
  BY DEF SettledInv, TypeOK, RecoverOK
<1>1. \A r \in Operation, s \in OperationState :
         /\ With(r, s) \in Operation /\ With(r, s).state = s
         /\ s \in {"UNKNOWN", "VERIFYING", "VERIFIED", "FAILED", "CANCELLED"} => Settled(With(r, s))
  BY WithType DEF Settled
<1> HIDE DEF Good
<1> USE DEF OperationState, EventType, Labels
<1>2. ASSUME UNCHANGED <<mem, at, cur, todo, recovering>> PROVE Good
  BY <1>2, IdleKeeps DEF Good, SettledInv, Idle
<1>3. ASSUME NEW e \in Engines, FromStore(e) PROVE Good
  <2>1. \A f \in Engines \ {e} : Idle(f)
    BY <1>0, <1>3 DEF FromStore, Continue, Goto, TypeOK, Idle
  <2>2. at'[e] = "idle" /\ recovering' = recovering /\ e \notin recovering
    BY <1>0, <1>3 DEF FromStore, Continue, Goto, TypeOK
  <2>3. RecoverOK(e)'
    BY <2>2 DEF RecoverOK
  <2> QED BY <2>1, <2>3, IdleKeeps DEF SettledInv, Good
<1>4. ASSUME NEW e \in Engines, Crash(e) PROVE Good
  <2>1. \A f \in Engines \ {e} : Idle(f)
    BY <1>0, <1>4 DEF Crash, Goto, TypeOK, Idle
  <2>2. at'[e] = "down" /\ e \notin recovering'
    BY <1>0, <1>4 DEF Crash, Goto, TypeOK
  <2>3. RecoverOK(e)'
    BY <2>2 DEF RecoverOK
  <2> QED BY <2>1, <2>3, IdleKeeps DEF SettledInv, Good
<1>5. ASSUME NEW e \in Engines, NEW o \in Ops, Prepare(e, o) PROVE Good
  <2>1. at[e] = "idle" /\ e \notin recovering /\ mem' = mem
    BY <1>0, <1>5 DEF Prepare
  <2>2. CASE Abort(e)
    BY <2>1, <2>2, QuietSettles DEF Good
  <2>3. CASE /\ Goto(e, "save_prepared") /\ cur' = [cur EXCEPT ![e] = o]
             /\ UNCHANGED <<todo, recovering>>
    <3>1. \A f \in Engines \ {e} : Idle(f)
      BY <1>0, <2>1, <2>3 DEF Goto, TypeOK, Idle
    <3>2. at'[e] = "save_prepared"
      BY <1>0, <2>3 DEF Goto, TypeOK
    <3>3. RecoverOK(e)'
      BY <2>1, <2>3, <3>2 DEF RecoverOK
    <3> QED BY <3>1, <3>3, IdleKeeps DEF SettledInv, Good
  <2> QED BY <1>5, <2>2, <2>3 DEF Prepare
<1>6. ASSUME NEW e \in Engines, SavePrepared(e) PROVE Good
  <2> DEFINE r == [state |-> "PREPARED", result |-> "none"]
  <2>1. at[e] = "save_prepared" /\ cur[e] \in Ops /\ e \notin recovering
    BY <1>0, <1>6 DEF SavePrepared
  <2>2. mem' = [mem EXCEPT ![e][cur[e]] = r] /\ (Abort(e) \/ Continue(e, "execute"))
    BY <1>6 DEF SavePrepared
  <2> HIDE DEF r
  <2>3. \A f \in Engines \ {e} : Idle(f)
    BY <1>0, <2>1, <2>2, Moves DEF TypeOK, Idle
  <2>4. at'[e] \in {"idle", "execute"} /\ e \notin recovering'
    BY <1>0, <2>1, <2>2, Moves
  <2>5. RecoverOK(e)'
    BY <2>4 DEF RecoverOK
  <2> QED BY <2>3, <2>5, IdleKeeps DEF SettledInv, Good
<1>7. ASSUME NEW e \in Engines, Validate(e) PROVE Good
  BY <1>0, <1>7, QuietSettles DEF Validate, Good
<1>8. ASSUME NEW e \in Engines, Start(e) PROVE Good
  <2>1. at[e] = "start" /\ cur[e] \in Ops /\ e \notin recovering
    BY <1>0, <1>8 DEF Start
  <2> QED BY <1>0, <1>1, <1>8, <2>1, RecordSettles DEF Start, Good
<1>9. ASSUME NEW e \in Engines, Effect(e) PROVE Good
  BY <1>0, <1>9, QuietSettles DEF Effect, Good
<1>10. ASSUME NEW e \in Engines, ExecuteRaised(e) PROVE Good
  <2>1. at[e] = "outcome" /\ cur[e] \in Ops
    BY <1>0, <1>10 DEF ExecuteRaised
  <2> QED BY <1>0, <1>1, <1>10, <2>1, RecordSettles DEF ExecuteRaised, Good
<1>11. ASSUME NEW e \in Engines, ExecuteReturned(e) PROVE Good
  <2>1. at[e] = "outcome" /\ cur[e] \in Ops /\ e \notin recovering
    BY <1>0, <1>11 DEF ExecuteReturned
  <2>2. PICK x \in {"none", "value"} :
          Record(e, cur[e], [state |-> "OBSERVED", result |-> x], "none", Continue(e, "verify"))
    BY <1>11 DEF ExecuteReturned
  <2>3. [state |-> "OBSERVED", result |-> x] \in Operation
    BY DEF Operation
  <2> QED BY <2>1, <2>2, <2>3, RecordSettles DEF Good
<1>12. ASSUME NEW e \in Engines, Verify(e) PROVE Good
  <2>1. at[e] = "verify" /\ cur[e] \in Ops
    BY <1>0, <1>12 DEF Verify
  <2>2. CASE Record(e, cur[e], With(mem[e][cur[e]], "UNKNOWN"), "verify_missing_result", Return(e))
    BY <1>0, <1>1, <2>1, <2>2, RecordSettles DEF Good
  <2>3. CASE Record(e, cur[e], With(mem[e][cur[e]], "VERIFYING"), "none", Continue(e, "verifying"))
    BY <1>0, <1>1, <2>1, <2>3, RecordSettles DEF Good
  <2> QED BY <1>12, <2>2, <2>3 DEF Verify
<1>13. ASSUME NEW e \in Engines, VerifyRaised(e) PROVE Good
  <2>1. at[e] = "verifying" /\ cur[e] \in Ops /\ mem[e][cur[e]] \in Operation
    BY <1>0, <1>13 DEF VerifyRaised
  <2>2. mem' = mem
    BY <1>0, <1>13, <2>1 DEF VerifyRaised, Record, TypeOK
  <2>3. CASE Abort(e)
    BY <2>1, <2>2, <2>3, QuietSettles DEF Good
  <2>4. CASE Return(e)
    <3>1. \A f \in Engines \ {e} : Idle(f)
      BY <1>0, <2>1, <2>2, <2>4, Moves DEF Idle
    <3>2. /\ at'[e] = IF e \in recovering THEN "recover" ELSE "idle"
          /\ recovering' = recovering /\ todo'[e] = todo[e]
      BY <1>0, <2>1, <2>4, Moves
    <3>3. RecoverOK(e)'
      BY <1>0, <2>1, <2>2, <3>2 DEF RecoverOK
    <3> QED BY <3>1, <3>3, IdleKeeps DEF SettledInv, Good
  <2> QED BY <1>13, <2>3, <2>4 DEF VerifyRaised, Record
<1>14. ASSUME NEW e \in Engines, VerifyReturned(e) PROVE Good
  <2>1. at[e] = "verifying" /\ cur[e] \in Ops
    BY <1>0, <1>14 DEF VerifyReturned
  <2>2. CASE Record(e, cur[e], With(mem[e][cur[e]], "VERIFIED"), "verified", Return(e))
    BY <1>0, <1>1, <2>1, <2>2, RecordSettles DEF Good
  <2>3. CASE Record(e, cur[e], With(mem[e][cur[e]], "FAILED"), "verification_failed", Return(e))
    BY <1>0, <1>1, <2>1, <2>3, RecordSettles DEF Good
  <2> QED BY <1>14, <2>2, <2>3 DEF VerifyReturned
<1>15. ASSUME NEW e \in Engines, BeginRecover(e) PROVE Good
  <2>1. \A f \in Engines \ {e} : Idle(f)
    BY <1>0, <1>15 DEF BeginRecover, Goto, TypeOK, Idle
  <2>2. /\ at'[e] = "recover" /\ e \in recovering' /\ mem'[e] = mem[e]
        /\ todo'[e] = {o \in Ops : mem[e][o].state \in InFlight}
    BY <1>0, <1>15 DEF BeginRecover, Goto, TypeOK
  <2>3. RecoverOK(e)'
    BY <2>2 DEF RecoverOK, Settled, InFlight
  <2> QED BY <2>1, <2>3, IdleKeeps DEF SettledInv, Good
<1>16. ASSUME NEW e \in Engines, EndRecover(e) PROVE Good
  <2>1. mem' = mem /\ Abort(e)
    BY <1>16 DEF EndRecover
  <2>2. \A f \in Engines \ {e} : Idle(f)
    BY <1>0, <2>1 DEF Abort, Goto, Idle, TypeOK
  <2>3. at'[e] = "idle" /\ e \notin recovering'
    BY <1>0, <2>1 DEF Abort, Goto, TypeOK
  <2>4. RecoverOK(e)'
    BY <2>3 DEF RecoverOK
  <2> QED BY <2>2, <2>4, IdleKeeps DEF SettledInv, Good
<1>17. ASSUME NEW e \in Engines, NEW o \in Ops, RecoverPrepared(e, o) PROVE Good
  <2>1. at[e] = "recover"
    BY <1>17 DEF RecoverPrepared, Visit
  <2> QED BY <1>0, <1>1, <1>17, <2>1, RecordSettles DEF RecoverPrepared, Good
<1>18. ASSUME NEW e \in Engines, NEW o \in Ops, RecoverNotInstalled(e, o) PROVE Good
  BY <1>18, QuietSettles DEF RecoverNotInstalled, Good
<1>19. ASSUME NEW e \in Engines, NEW o \in Ops, RecoverObserved(e, o) PROVE Good
  <2>1. at[e] = "recover" /\ mem[e][o].state \in {"OBSERVED", "VERIFYING"} /\ mem' = mem
    BY <1>19 DEF RecoverObserved, Visit
  <2>2. CASE Enter(e, o, "verify")
    BY <2>1, <2>2, QuietSettles DEF Good
  <2>3. CASE mem[e][o].result = "none" /\ Leave(e, o)
    BY <2>1, <2>3, QuietSettles DEF Good, Settled
  <2> QED BY <1>19, <2>2, <2>3 DEF RecoverObserved
<1>20. ASSUME NEW e \in Engines, NEW o \in Ops, RecoverUnknown(e, o) PROVE Good
  <2>1. at[e] = "recover"
    BY <1>20 DEF RecoverUnknown, Visit
  <2> QED BY <1>0, <1>1, <1>20, <2>1, RecordSettles DEF RecoverUnknown, Good
<1>21. ASSUME NEW e \in Engines, ReconcileRaised(e) PROVE Good
  <2>1. at[e] = "reconcile" /\ cur[e] \in Ops
    BY <1>0, <1>21 DEF ReconcileRaised
  <2> QED BY <1>0, <1>1, <1>21, <2>1, RecordSettles DEF ReconcileRaised, Good
<1>22. ASSUME NEW e \in Engines, ReconcileReturned(e) PROVE Good
  <2>1. at[e] = "reconcile" /\ cur[e] \in Ops
    BY <1>0, <1>22 DEF ReconcileReturned
  <2>2. PICK x \in {"none", "value"}, s \in {"VERIFIED", "FAILED"} :
          Record(e, cur[e], [state |-> s, result |-> x], "reconciled", Return(e))
    BY <1>22 DEF ReconcileReturned
  <2>3. [state |-> s, result |-> x] \in Operation /\ Settled([state |-> s, result |-> x])
    BY DEF Operation, Settled
  <2> QED BY <2>1, <2>2, <2>3, RecordSettles DEF Good
<1>23. CASE \/ \E e \in Engines : ClaimLease(e) \/ SaveTask(e)
            \/ LapseLease \/ UNCHANGED vars
  BY <1>2, <1>23 DEF ClaimLease, SaveTask, LapseLease, vars
<1> QED
  BY <1>3, <1>4, <1>5, <1>6, <1>7, <1>8, <1>9, <1>10, <1>11, <1>12, <1>13, <1>14, <1>15,
     <1>16, <1>17, <1>18, <1>19, <1>20, <1>21, <1>22, <1>23
     DEF Next, EngineStep

(***************************************************************************)
(* A recover() that was not cut short leaves no copy that looks as if it   *)
(* were still being executed, and no observed one with a result: with any  *)
(* number of engines on the database, crashing and failing to save at any  *)
(* point.                                                                  *)
(***************************************************************************)
THEOREM RecoveredCorrect == Spec => RecoveredMeansSettled
<1>1. Init => \A e \in Engines : RecoverOK(e)
  BY DEF Init, RecoverOK
<1>2. TypeOK /\ (\A e \in Engines : RecoverOK(e)) /\ [Next]_vars
        => (\A e \in Engines : RecoverOK(e))'
  BY StepSettles DEF SettledInv
<1>3. (\A e \in Engines : RecoverOK(e)) /\ [Next]_vars
        => [\A e \in Engines : EndRecover(e) =>
              \A o \in Ops :
                 /\ mem[e][o].state \notin {"PREPARED", "RUNNING", "RECONCILING"}
                 /\ mem[e][o].state = "OBSERVED" => mem[e][o].result = "none"]_vars
  BY DEF RecoverOK, EndRecover, Settled
<1> QED BY <1>1, <1>2, <1>3, TypeCorrect, PTL DEF Spec, RecoveredMeansSettled

-----------------------------------------------------------------------------
(* Any number of engines: effects happen once.                             *)

\* From prepare until execute of the capability is over.
Acting == {"save_prepared", "execute", "start", "effect", "outcome"}

(***************************************************************************)
(* The inductive invariant behind EffectAtMostOnce and VerifiedHappened.   *)
(* Only the engine that prepared an operation ever executes it, although   *)
(* others may recover it meanwhile; the effect waits for the row, and rows *)
(* do not disappear, so that the id is not prepared again.                 *)
(***************************************************************************)
OnceInv ==
    /\ \A e, f \in Engines : at[e] \in Acting /\ at[f] \in Acting /\ cur[e] = cur[f] => e = f
    /\ \A e \in Engines : at[e] \in Acting \ {"outcome"} => effects[cur[e]] = 0
    /\ \A e \in Engines : at[e] \in Acting \ {"save_prepared"} => db[cur[e]].state # "ABSENT"
    /\ \A e \in Engines : at[e] = "verifying" => mem[e][cur[e]].state = "VERIFYING"
    /\ \A o \in Ops : effects[o] > 0 => db[o].state # "ABSENT"
    /\ EffectAtMostOnce /\ VerifiedHappened

\* No row disappears, and VERIFIED is stored of an effect.
RowsStay ==
    /\ effects' = effects
    /\ \A o \in Ops : db[o].state # "ABSENT" => db'[o].state # "ABSENT"
    /\ VerifiedHappened'

\* No engine begins to act, none goes back in execute, and prepare is passed with a row.
ActsOn ==
    \A f \in Engines :
       /\ at'[f] \in Acting =>
             /\ at[f] \in Acting /\ cur'[f] = cur[f]
             /\ at[f] = "outcome" => at'[f] = "outcome"
             /\ at[f] = "save_prepared" /\ at'[f] # "save_prepared" => db'[cur[f]].state # "ABSENT"
       /\ at'[f] = "verifying" => mem'[f][cur'[f]].state = "VERIFYING"

(***************************************************************************)
(* Steps that neither prepare nor enter a capability keep the invariant.   *)
(***************************************************************************)
LEMMA OnceKept ==
    ASSUME TypeOK, OnceInv, RowsStay, ActsOn
    PROVE  OnceInv'
<1>1. \A e \in Engines : at[e] \in Acting => cur[e] \in Ops
  BY DEF TypeOK, Acting
<1>2. \A e, f \in Engines : at'[e] \in Acting /\ at'[f] \in Acting /\ cur'[e] = cur'[f] => e = f
  BY DEF OnceInv, ActsOn
<1>3. \A e \in Engines : at'[e] \in Acting \ {"outcome"} => effects'[cur'[e]] = 0
  BY DEF OnceInv, ActsOn, RowsStay
<1>4. \A e \in Engines : at'[e] \in Acting \ {"save_prepared"} => db'[cur'[e]].state # "ABSENT"
  BY <1>1 DEF OnceInv, ActsOn, RowsStay
<1>5. \A e \in Engines : at'[e] = "verifying" => mem'[e][cur'[e]].state = "VERIFYING"
  BY DEF ActsOn
<1>6. /\ \A o \in Ops : effects'[o] > 0 => db'[o].state # "ABSENT"
      /\ EffectAtMostOnce' /\ VerifiedHappened'
  BY DEF OnceInv, RowsStay, EffectAtMostOnce
<1> QED BY <1>2, <1>3, <1>4, <1>5, <1>6 DEF OnceInv

(***************************************************************************)
(* A save stores a state, and VERIFIED only of an effect that began.       *)
(***************************************************************************)
LEMMA RecordStays ==
    ASSUME TypeOK, OnceInv, NEW o \in Ops, NEW r \in Operation,
           db' = db \/ db' = [db EXCEPT ![o] = r],
           r.state # "ABSENT", r.state = "VERIFIED" => effects[o] > 0, effects' = effects
    PROVE  RowsStay
<1>1. \A p \in Ops : db'[p] = db[p] \/ (p = o /\ db'[p] = r)
  BY DEF TypeOK
<1>2. effects[o] > 0 => effects[o] = 1
  BY DEF TypeOK, OnceInv, EffectAtMostOnce
<1> QED BY <1>1, <1>2 DEF RowsStay, OnceInv, VerifiedHappened

(***************************************************************************)
(* An engine that rests, or goes on elsewhere, acts on nothing new.        *)
(***************************************************************************)
LEMMA RecordActs ==
    ASSUME TypeOK, OnceInv, RowsStay, NEW e \in Engines, NEW o \in Ops, NEW l \in Labels,
           \A f \in Engines \ {e} : mem'[f] = mem[f],
           \/ Abort(e) \/ Return(e)
           \/ Leave(e, o) /\ at[e] = "recover"
           \/ Enter(e, o, l) /\ l \in {"verify", "reconcile"}
           \/ Continue(e, l) /\ l \notin Acting
              /\ (l = "verifying" => mem'[e][cur[e]].state = "VERIFYING")
           \/ Continue(e, l) /\ at[e] \in Acting
              /\ <<at[e], l>> \in {<<"execute", "start">>, <<"start", "effect">>}
    PROVE  ActsOn
<1>1. \A f \in Engines \ {e} : at'[f] = at[f] /\ cur'[f] = cur[f]
  BY Moves
<1>2. ASSUME NEW f \in Engines \ {e} PROVE
         /\ at'[f] \in Acting =>
             /\ at[f] \in Acting /\ cur'[f] = cur[f]
             /\ at[f] = "outcome" => at'[f] = "outcome"
             /\ at[f] = "save_prepared" /\ at'[f] # "save_prepared" => db'[cur[f]].state # "ABSENT"
         /\ at'[f] = "verifying" => mem'[f][cur'[f]].state = "VERIFYING"
  BY <1>1 DEF OnceInv
<1>3. /\ at'[e] \in Acting =>
             /\ at[e] \in Acting /\ cur'[e] = cur[e]
             /\ at[e] = "outcome" => at'[e] = "outcome"
             /\ at[e] = "save_prepared" /\ at'[e] # "save_prepared" => db'[cur[e]].state # "ABSENT"
      /\ at'[e] = "verifying" => mem'[e][cur'[e]].state = "VERIFYING"
  <2>1. CASE Abort(e)
    <3>1. at'[e] = "idle"
      BY <2>1, Moves
    <3> QED BY <3>1 DEF Acting
  <2>2. CASE Return(e)
    <3>1. at'[e] \in {"idle", "recover"}
      BY <2>2, Moves
    <3> QED BY <3>1 DEF Acting
  <2>3. CASE Leave(e, o) /\ at[e] = "recover"
    <3>1. at'[e] = "recover"
      BY <2>3, Moves
    <3> QED BY <3>1 DEF Acting
  <2>4. CASE Enter(e, o, l) /\ l \in {"verify", "reconcile"}
    <3>1. at'[e] \in {"verify", "reconcile"}
      BY <2>4, Moves
    <3> QED BY <3>1 DEF Acting
  <2>5. CASE Continue(e, l)
    <3>1. at'[e] = l /\ cur'[e] = cur[e]
      BY <2>5, Moves
    <3>2. \/ l \notin Acting /\ (l = "verifying" => mem'[e][cur[e]].state = "VERIFYING")
          \/ at[e] = "execute" /\ l = "start"
          \/ at[e] = "start" /\ l = "effect"
          \/ Abort(e) \/ Return(e) \/ (Leave(e, o) /\ at[e] = "recover")
          \/ Enter(e, o, l) /\ l \in {"verify", "reconcile"}
      OBVIOUS
    <3> QED BY <2>1, <2>2, <2>3, <2>4, <3>1, <3>2 DEF Acting
  <2> QED BY <2>1, <2>2, <2>3, <2>4, <2>5
<1> QED BY <1>2, <1>3 DEF ActsOn

(***************************************************************************)
(* Rows and effects that nobody touches.                                   *)
(***************************************************************************)
LEMMA QuietStays ==
    ASSUME OnceInv, UNCHANGED <<db, effects>>
    PROVE  RowsStay
BY DEF OnceInv, RowsStay, VerifiedHappened

(***************************************************************************)
(* Every step keeps the invariant.                                         *)
(***************************************************************************)
LEMMA StepOnce ==
    ASSUME TypeOK, OnceInv, [Next]_vars
    PROVE  OnceInv'
<1> USE DEF OperationState, EventType, Labels
<1>0. /\ \A f \in Engines : at[f] \notin {"down", "idle", "recover"} => cur[f] \in Ops
      /\ \A f \in Engines, p \in Ops : mem[f][p] \in Operation
      /\ \A r \in Operation, s \in OperationState :
            With(r, s) \in Operation /\ With(r, s).state = s
  BY WithType DEF TypeOK
\* A save.
<1>1. ASSUME NEW e \in Engines, NEW o \in Ops, NEW r \in Operation, NEW event \in EventType,
             NEW l \in Labels, r.state # "ABSENT", r.state = "VERIFIED" => effects[o] > 0,
             \/ Record(e, o, r, event, Return(e))
             \/ Record(e, o, r, event, Leave(e, o)) /\ at[e] = "recover"
             \/ Record(e, o, r, event, Enter(e, o, l)) /\ l = "reconcile"
             \/ /\ Record(e, o, r, event, Continue(e, l)) /\ cur[e] = o
                /\ \/ l \notin Acting /\ (l = "verifying" => r.state = "VERIFYING")
                   \/ at[e] = "start" /\ l = "effect"
      PROVE  OnceInv'
  <2>1. mem' = [mem EXCEPT ![e][o] = r]
    BY <1>1 DEF Record
  <2>2. mem'[e][o] = r /\ \A f \in Engines \ {e} : mem'[f] = mem[f]
    BY <2>1, CopyChanged DEF TypeOK
  <2>3. RowsStay
    BY <1>1, RecordStays DEF Record, Stored, NotStored
  <2>4. ActsOn
    BY <1>1, <2>2, <2>3, RecordActs DEF Record, Acting
  <2> QED BY <2>3, <2>4, OnceKept
\* A move.
<1>2. ASSUME NEW e \in Engines, NEW o \in Ops, NEW l \in Labels, UNCHANGED <<db, mem, effects>>,
             \/ Abort(e)
             \/ Leave(e, o) /\ at[e] = "recover"
             \/ Enter(e, o, l) /\ l = "verify"
             \/ Continue(e, l) /\ at[e] = "execute" /\ l = "start"
      PROVE  OnceInv'
  <2>1. RowsStay
    BY <1>2, QuietStays
  <2>2. ActsOn
    BY <1>2, <2>1, RecordActs DEF Acting
  <2> QED BY <2>1, <2>2, OnceKept
\* A step that touches no row and takes its engine, if any, to a place of rest.
<1>3. ASSUME UNCHANGED <<db, effects>>,
             \A f \in Engines : \/ at'[f] \in {"down", "idle", "recover"}
                                \/ at'[f] = at[f] /\ cur'[f] = cur[f] /\ mem'[f] = mem[f]
      PROVE  OnceInv'
  <2>1. ActsOn
    BY <1>3 DEF ActsOn, Acting, OnceInv
  <2> QED BY <1>3, <2>1, QuietStays, OnceKept
<1>4. ASSUME NEW e \in Engines, FromStore(e) PROVE OnceInv'
  BY <1>3, <1>4 DEF FromStore, Continue, Goto, TypeOK
<1>5. ASSUME NEW e \in Engines, Crash(e) PROVE OnceInv'
  BY <1>3, <1>5 DEF Crash, Goto, TypeOK
<1>6. ASSUME NEW e \in Engines, BeginRecover(e) PROVE OnceInv'
  BY <1>3, <1>6 DEF BeginRecover, Goto, TypeOK
<1>7. ASSUME NEW e \in Engines, EndRecover(e) PROVE OnceInv'
  BY <1>3, <1>7 DEF EndRecover, Abort, Goto, TypeOK
<1>8. CASE (\E e \in Engines : ClaimLease(e) \/ SaveTask(e)) \/ LapseLease \/ UNCHANGED vars
  BY <1>3, <1>8 DEF ClaimLease, SaveTask, LapseLease, vars
<1>9. ASSUME NEW e \in Engines, NEW o \in Ops, Prepare(e, o) PROVE OnceInv'
  <2>1. CASE Abort(e)
    BY <1>2, <1>9, <2>1 DEF Prepare
  <2>2. CASE /\ Goto(e, "save_prepared") /\ cur' = [cur EXCEPT ![e] = o]
             /\ UNCHANGED <<todo, recovering>>
    <3>1. /\ at'[e] = "save_prepared" /\ cur'[e] = o
          /\ \A f \in Engines \ {e} : at'[f] = at[f] /\ cur'[f] = cur[f]
          /\ UNCHANGED <<db, mem, effects>> /\ db[o] = Absent /\ \A f \in Engines : cur[f] # o
      BY <1>9, <2>2 DEF Prepare, Fresh, Goto, TypeOK
    <3>2. effects[o] = 0
      BY <3>1 DEF OnceInv, Absent, TypeOK
    <3>3. \A f, g \in Engines :
             at'[f] \in Acting /\ at'[g] \in Acting /\ cur'[f] = cur'[g] => f = g
      BY <3>1 DEF OnceInv
    <3>4. \A f \in Engines :
             /\ at'[f] \in Acting \ {"outcome"} => effects'[cur'[f]] = 0
             /\ at'[f] \in Acting \ {"save_prepared"} => db'[cur'[f]].state # "ABSENT"
             /\ at'[f] = "verifying" => mem'[f][cur'[f]].state = "VERIFYING"
      BY <3>1, <3>2 DEF OnceInv
    <3>5. /\ \A p \in Ops : effects'[p] > 0 => db'[p].state # "ABSENT"
          /\ EffectAtMostOnce' /\ VerifiedHappened'
      BY <3>1 DEF OnceInv, EffectAtMostOnce, VerifiedHappened
    <3> QED BY <3>3, <3>4, <3>5 DEF OnceInv
  <2> QED BY <1>9, <2>1, <2>2 DEF Prepare
<1>10. ASSUME NEW e \in Engines, SavePrepared(e) PROVE OnceInv'
  <2> DEFINE o == cur[e]
             r == [state |-> "PREPARED", result |-> "none"]
  <2>1. o \in Ops /\ r \in Operation /\ r.state = "PREPARED" /\ at[e] = "save_prepared"
    BY <1>0, <1>10 DEF SavePrepared, Operation
  <2>2. /\ mem' = [mem EXCEPT ![e][o] = r] /\ effects' = effects
        /\ \/ db' = [db EXCEPT ![o] = r] /\ Continue(e, "execute")
           \/ db' = db /\ Abort(e)
    BY <1>10 DEF SavePrepared, Stored, NotStored
  <2> HIDE DEF r
  <2>3. RowsStay
    BY <2>1, <2>2, RecordStays
  <2>4. \A f \in Engines \ {e} : mem'[f] = mem[f]
    BY <2>1, <2>2 DEF TypeOK
  <2>5. CASE Abort(e)
    BY <2>1, <2>3, <2>4, <2>5, RecordActs, OnceKept
  <2>6. CASE db' = [db EXCEPT ![o] = r] /\ Continue(e, "execute")
    <3>1. /\ at'[e] = "execute" /\ cur'[e] = cur[e]
          /\ \A f \in Engines \ {e} : at'[f] = at[f] /\ cur'[f] = cur[f]
      BY <2>1, <2>6, Moves
    <3>2. db'[o].state # "ABSENT"
      BY <2>1, <2>6 DEF TypeOK
    <3>3. ActsOn
      BY <2>1, <2>4, <3>1, <3>2 DEF ActsOn, OnceInv, Acting
    <3> QED BY <2>3, <3>3, OnceKept
  <2> QED BY <2>2, <2>5, <2>6
<1>11. ASSUME NEW e \in Engines, Validate(e) PROVE OnceInv'
  <2>1. cur[e] \in Ops /\ at[e] = "execute"
    BY <1>0, <1>11 DEF Validate
  <2> QED BY <1>2, <1>11, <2>1 DEF Validate
<1>12. ASSUME NEW e \in Engines, Start(e) PROVE OnceInv'
  <2>1. cur[e] \in Ops /\ at[e] = "start"
    BY <1>0, <1>12 DEF Start
  <2> QED BY <1>0, <1>1, <1>12, <2>1 DEF Start
<1>13. ASSUME NEW e \in Engines, Effect(e) PROVE OnceInv'
  <2> DEFINE o == cur[e]
  <2>1. /\ at[e] = "effect" /\ o \in Ops /\ UNCHANGED <<db, mem>>
        /\ effects' = [effects EXCEPT ![o] = @ + 1] /\ Continue(e, "outcome")
    BY <1>0, <1>13 DEF Effect
  <2>2. /\ at'[e] = "outcome" /\ cur' = cur
        /\ \A f \in Engines \ {e} : at'[f] = at[f]
    BY <2>1 DEF Continue, Goto, TypeOK
  <2>3. /\ effects[o] = 0 /\ db[o].state # "ABSENT"
        /\ \A f \in Engines \ {e} : at[f] \in Acting => cur[f] # o
    BY <2>1 DEF OnceInv, Acting
  <2>4. effects'[o] = 1 /\ \A p \in Ops \ {o} : effects'[p] = effects[p]
    BY <2>1, <2>3 DEF TypeOK
  <2>5. \A f, g \in Engines :
           at'[f] \in Acting /\ at'[g] \in Acting /\ cur'[f] = cur'[g] => f = g
    BY <2>2, <2>3 DEF OnceInv
  <2>6. \A f \in Engines : at'[f] \in Acting \ {"outcome"} => effects'[cur'[f]] = 0
    <3>1. \A f \in Engines : at[f] \in Acting => cur[f] \in Ops
      BY <1>0 DEF Acting
    <3> QED BY <2>2, <2>3, <2>4, <3>1 DEF OnceInv
  <2>7. \A f \in Engines :
           /\ at'[f] \in Acting \ {"save_prepared"} => db'[cur'[f]].state # "ABSENT"
           /\ at'[f] = "verifying" => mem'[f][cur'[f]].state = "VERIFYING"
    BY <2>1, <2>2, <2>3 DEF OnceInv
  <2>8. /\ \A p \in Ops : effects'[p] > 0 => db'[p].state # "ABSENT"
        /\ EffectAtMostOnce' /\ VerifiedHappened'
    BY <2>1, <2>3, <2>4 DEF OnceInv, EffectAtMostOnce, VerifiedHappened
  <2> QED BY <2>5, <2>6, <2>7, <2>8 DEF OnceInv
<1>14. ASSUME NEW e \in Engines, ExecuteRaised(e) PROVE OnceInv'
  <2>1. cur[e] \in Ops
    BY <1>0, <1>14 DEF ExecuteRaised
  <2> QED BY <1>0, <1>1, <1>14, <2>1 DEF ExecuteRaised
<1>15. ASSUME NEW e \in Engines, ExecuteReturned(e) PROVE OnceInv'
  <2>1. cur[e] \in Ops
    BY <1>0, <1>15 DEF ExecuteReturned
  <2>2. PICK x \in {"none", "value"} :
          Record(e, cur[e], [state |-> "OBSERVED", result |-> x], "none", Continue(e, "verify"))
    BY <1>15 DEF ExecuteReturned
  <2>3. [state |-> "OBSERVED", result |-> x] \in Operation
    BY DEF Operation
  <2> QED BY <1>1, <2>1, <2>2, <2>3 DEF Acting
<1>16. ASSUME NEW e \in Engines, Verify(e) PROVE OnceInv'
  <2>1. cur[e] \in Ops
    BY <1>0, <1>16 DEF Verify
  <2>2. CASE Record(e, cur[e], With(mem[e][cur[e]], "UNKNOWN"), "verify_missing_result", Return(e))
    BY <1>0, <1>1, <2>1, <2>2
  <2>3. CASE Record(e, cur[e], With(mem[e][cur[e]], "VERIFYING"), "none", Continue(e, "verifying"))
    BY <1>0, <1>1, <2>1, <2>3 DEF Acting
  <2> QED BY <1>16, <2>2, <2>3 DEF Verify
<1>17. ASSUME NEW e \in Engines, VerifyRaised(e) PROVE OnceInv'
  <2>1. cur[e] \in Ops /\ mem[e][cur[e]] \in Operation /\ mem[e][cur[e]].state = "VERIFYING"
    BY <1>0, <1>17 DEF VerifyRaised, OnceInv
  <2> QED BY <1>1, <1>17, <2>1 DEF VerifyRaised
<1>18. ASSUME NEW e \in Engines, VerifyReturned(e) PROVE OnceInv'
  <2>1. cur[e] \in Ops
    BY <1>0, <1>18 DEF VerifyReturned
  <2>2. CASE /\ effects[cur[e]] > 0
             /\ Record(e, cur[e], With(mem[e][cur[e]], "VERIFIED"), "verified", Return(e))
    BY <1>0, <1>1, <2>1, <2>2
  <2>3. CASE Record(e, cur[e], With(mem[e][cur[e]], "FAILED"), "verification_failed", Return(e))
    BY <1>0, <1>1, <2>1, <2>3
  <2> QED BY <1>18, <2>2, <2>3 DEF VerifyReturned
<1>19. ASSUME NEW e \in Engines, NEW o \in Ops, RecoverPrepared(e, o) PROVE OnceInv'
  BY <1>0, <1>1, <1>19 DEF RecoverPrepared, Visit
<1>20. ASSUME NEW e \in Engines, NEW o \in Ops, RecoverNotInstalled(e, o) PROVE OnceInv'
  BY <1>2, <1>20 DEF RecoverNotInstalled
<1>21. ASSUME NEW e \in Engines, NEW o \in Ops, RecoverObserved(e, o) PROVE OnceInv'
  BY <1>2, <1>21 DEF RecoverObserved, Visit
<1>22. ASSUME NEW e \in Engines, NEW o \in Ops, RecoverUnknown(e, o) PROVE OnceInv'
  BY <1>0, <1>1, <1>22 DEF RecoverUnknown
<1>23. ASSUME NEW e \in Engines, ReconcileRaised(e) PROVE OnceInv'
  <2>1. cur[e] \in Ops
    BY <1>0, <1>23 DEF ReconcileRaised
  <2> QED BY <1>0, <1>1, <1>23, <2>1 DEF ReconcileRaised
<1>24. ASSUME NEW e \in Engines, ReconcileReturned(e) PROVE OnceInv'
  <2>1. cur[e] \in Ops
    BY <1>0, <1>24 DEF ReconcileReturned
  <2>2. PICK x \in {"none", "value"}, s \in {"VERIFIED", "FAILED"} :
          /\ s = "VERIFIED" => effects[cur[e]] > 0
          /\ Record(e, cur[e], [state |-> s, result |-> x], "reconciled", Return(e))
    BY <1>24 DEF ReconcileReturned
  <2>3. [state |-> s, result |-> x] \in Operation
    BY DEF Operation
  <2> QED BY <1>1, <2>1, <2>2, <2>3
<1> QED
  BY <1>4, <1>5, <1>6, <1>7, <1>8, <1>9, <1>10, <1>11, <1>12, <1>13, <1>14, <1>15, <1>16,
     <1>17, <1>18, <1>19, <1>20, <1>21, <1>22, <1>23, <1>24 DEF Next, EngineStep

(***************************************************************************)
(* For any number of engines, whoever holds the lease and whoever          *)
(* recovers: the strengthened invariant of effects holds.                  *)
(***************************************************************************)
THEOREM OnceCorrect == Spec => []OnceInv
<1>1. Init => OnceInv
  BY DEF Init, OnceInv, EffectAtMostOnce, VerifiedHappened, Acting, Absent
<1>2. TypeOK /\ OnceInv /\ [Next]_vars => OnceInv'
  BY StepOnce
<1> QED BY <1>1, <1>2, TypeCorrect, PTL DEF Spec

(***************************************************************************)
(* The effect of an operation is attempted at most once, by execute() of   *)
(* the engine that prepared it and never again by recover_operation() of   *)
(* any engine.                                                             *)
(***************************************************************************)
THEOREM EffectsCorrect == Spec => []EffectAtMostOnce
<1>1. OnceInv => EffectAtMostOnce
  BY DEF OnceInv
<1> QED BY <1>1, OnceCorrect, PTL

(***************************************************************************)
(* VERIFIED is only stored of an operation that ran, by whatever engine.   *)
(***************************************************************************)
THEOREM VerifiedCorrect == Spec => []VerifiedHappened
<1>1. OnceInv => VerifiedHappened
  BY DEF OnceInv
<1> QED BY <1>1, OnceCorrect, PTL
=============================================================================
