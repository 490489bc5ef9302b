-------------------------- MODULE TaskAgent_proofs ---------------------------
(***************************************************************************)
(* Proofs about TaskAgent for any number of engines over one table of      *)
(* tasks, any actions and any policy.  What is said about requests to stop *)
(* and about tasks that ended is proved for one engine: a second engine    *)
(* saves copies that do not know of them.                                  *)
(***************************************************************************)
EXTENDS TaskAgent, TLAPS

Places == {"down", "idle", "recover"}

\* The step an engine is in.
Contexts == [task : Tasks \cup {None}, action : Actions \cup {None},
             leased : BOOLEAN, resource : BOOLEAN]

RowsOK == row \in [Tasks -> Task] /\ mem \in [Engines -> [Tasks -> Task]]

\* An engine's place and context fit together: a step with a resource lease is past
\* the policy's decision.
PlaceOK(e) ==
    /\ at[e] \notin Places => ctx[e].task \in Tasks
    /\ at[e] \notin Places \cup {"think"} => ctx[e].action \in Actions
    /\ ctx[e].resource => at[e] \notin Places \cup {"think", "authorize"}

ControlOK ==
    /\ at \in [Engines -> Labels] /\ ctx \in [Engines -> Contexts]
    /\ \A e \in Engines : PlaceOK(e)

\* The task of a step is one the engine has.
HasTask(e) == at[e] \notin Places => mem[e][ctx[e].task].state # "ABSENT"

WorldOK ==
    /\ required \in BOOLEAN
    /\ stale \in [Engines -> SUBSET Domains]
    /\ entity \in [Engines -> {"same", "changed", "unsaved"}]

HistoryOK ==
    /\ stopped \subseteq Tasks /\ ended \subseteq Tasks /\ reopened \subseteq Tasks
    /\ after \in [Tasks -> 0..2]

\* A resource lease that is not left behind belongs to the step its engine is in.
LeasesOK ==
    /\ resource \in [Tasks -> Engines \cup {None}]
    /\ leaked \subseteq Tasks
    /\ \A t \in Tasks, e \in Engines :
          resource[t] = e /\ t \notin leaked => ctx[e].task = t /\ ctx[e].resource

(***************************************************************************)
(* The inductive invariant: the types, what is known at each place of a    *)
(* step, states that meet what was asked for, and owners of leases.        *)
(***************************************************************************)
AgentInv ==
    /\ RowsOK /\ ControlOK /\ WorldOK /\ HistoryOK /\ LeasesOK
    /\ \A e \in Engines : HasTask(e)
    /\ StateMeetsDesired

-----------------------------------------------------------------------------

\* A copy of a task the engine has, in a state somebody asked for.
Good(m) == m \in Task /\ m.state # "ABSENT" /\ StateMeets(m)

(***************************************************************************)
(* wait, update_runtime_state, evaluate_goal, settle_control and queue     *)
(* make good copies of good copies.                                        *)
(***************************************************************************)
LEMMA GoodCopies ==
    ASSUME NEW m, Good(m)
    PROVE  /\ \A s \in {"WAITING", "RUNNING", "BLOCKED", "COMPLETED"} :
                /\ Good([m EXCEPT !.state = s])
                /\ \A p \in TaskPhase : Good([m EXCEPT !.state = s, !.phase = p])
           /\ \A p \in TaskPhase : Good([m EXCEPT !.phase = p])
           /\ Good(Settled(m))
           /\ Good(Queued(m))
<1> USE DEF Good, Task, StateMeets, TaskState
<1>1. ASSUME NEW s \in {"WAITING", "RUNNING", "BLOCKED", "COMPLETED"}
      PROVE  /\ Good([m EXCEPT !.state = s])
             /\ \A p \in TaskPhase : Good([m EXCEPT !.state = s, !.phase = p])
  OBVIOUS
<1>2. ASSUME NEW p \in TaskPhase PROVE Good([m EXCEPT !.phase = p])
  OBVIOUS
<1>3. Good(Settled(m))
  BY DEF Settled, Stopping, Stops
<1>4. Good(Queued(m))
  BY DEF Queued
<1> QED BY <1>1, <1>2, <1>3, <1>4

(***************************************************************************)
(* control makes a good copy of a good copy.                               *)
(***************************************************************************)
LEMMA GoodControl ==
    ASSUME NEW m, Good(m), m.state \notin Terminal,
           NEW d \in {"PAUSED", "RUNNING", "CANCELLED"}
    PROVE  Good([m EXCEPT !.state = Controlled(@, d), !.desired = d])
<1> USE DEF Good, Task, StateMeets, TaskState, Controlled, Terminal
<1>1. CASE d = "PAUSED"
  BY <1>1
<1>2. CASE d = "CANCELLED"
  BY <1>2
<1>3. CASE d = "RUNNING"
  BY <1>3
<1> QED BY <1>1, <1>2, <1>3

(***************************************************************************)
(* What _record leaves behind: rows and copies keep their types and meet   *)
(* what was asked for, and no copy disappears.                             *)
(***************************************************************************)
RowsKept ==
    /\ RowsOK' /\ StateMeetsDesired'
    /\ \A f \in Engines, u \in Tasks : mem[f][u].state # "ABSENT" => mem'[f][u].state # "ABSENT"

\* A good copy is saved, or its save raised.
LEMMA RecordKept ==
    ASSUME RowsOK, StateMeetsDesired, NEW e \in Engines, NEW t \in Tasks, NEW m, Good(m),
           mem' = [mem EXCEPT ![e][t] = m],
           row' = [row EXCEPT ![t] = m] \/ row' = row
    PROVE  RowsKept /\ mem'[e][t] = m
<1>1. RowsOK'
  BY DEF RowsOK, Good
<1>2. /\ mem'[e][t] = m
      /\ \A f \in Engines, u \in Tasks : mem'[f][u] = mem[f][u] \/ mem'[f][u] = m
      /\ \A u \in Tasks : row'[u] = row[u] \/ row'[u] = m
  BY DEF RowsOK
<1>3. StateMeetsDesired'
  BY <1>2 DEF StateMeetsDesired, Good
<1>4. \A f \in Engines, u \in Tasks : mem[f][u].state # "ABSENT" => mem'[f][u].state # "ABSENT"
  BY <1>2 DEF Good
<1> QED BY <1>1, <1>2, <1>3, <1>4 DEF RowsKept

(***************************************************************************)
(* Rows and copies that nobody writes.                                     *)
(***************************************************************************)
LEMMA QuietRows ==
    ASSUME RowsOK, StateMeetsDesired, UNCHANGED <<row, mem>>
    PROVE  RowsKept
BY DEF RowsOK, StateMeetsDesired, RowsKept

\* What Record and RecordChange have in common.
Saved(e, t, m) ==
    \/ UNCHANGED <<row, mem, stale>>
    \/ /\ mem' = [mem EXCEPT ![e][t] = m]
       /\ row' = [row EXCEPT ![t] = m] \/ row' = row
       /\ Bump(e, "tasks")

(***************************************************************************)
(* A method that saves a good copy, or finds nothing to change.            *)
(***************************************************************************)
LEMMA SavedKept ==
    ASSUME AgentInv, NEW e \in Engines, NEW t \in Tasks, NEW m, Good(m), Saved(e, t, m)
    PROVE  RowsKept /\ stale' \in [Engines -> SUBSET Domains]
<1>1. RowsOK /\ StateMeetsDesired /\ stale \in [Engines -> SUBSET Domains]
  BY DEF AgentInv, WorldOK
<1>2. CASE UNCHANGED <<row, mem, stale>>
  BY <1>1, <1>2, QuietRows
<1>3. CASE ~UNCHANGED <<row, mem, stale>>
  <2>1. /\ mem' = [mem EXCEPT ![e][t] = m]
        /\ row' = [row EXCEPT ![t] = m] \/ row' = row
        /\ stale' = [stale EXCEPT ![e] = @ \cup {"tasks", "global_revision"}]
    BY <1>3 DEF Saved, Bump
  <2>2. RowsKept
    BY <1>1, <2>1, RecordKept
  <2>3. stale' \in [Engines -> SUBSET Domains]
    BY <1>1, <2>1 DEF Domains
  <2> QED BY <2>2, <2>3
<1> QED BY <1>2, <1>3

(***************************************************************************)
(* Goto, Leave and Stay: places and contexts keep their types, an engine   *)
(* inside a step keeps its task, and only Leave ends a step.               *)
(***************************************************************************)
Moved ==
    /\ ControlOK'
    /\ \A f \in Engines : at'[f] \notin Places =>
          at[f] \notin Places /\ ctx'[f].task = ctx[f].task
    /\ \A f \in Engines : ctx[f].resource =>
          ctx'[f].resource /\ ctx'[f].task = ctx[f].task

\* The step ends, through finally when it has a resource lease.
LEMMA LeaveMoves ==
    ASSUME ControlOK, NEW e \in Engines, Leave(e)
    PROVE  Moved
<1>1. NoStep \in Contexts
  BY DEF NoStep, Contexts
<1>2. CASE ctx[e].resource
  <2>1. at' = [at EXCEPT ![e] = "finally"] /\ ctx' = ctx
    BY <1>2 DEF Leave
  <2> QED BY <1>2, <2>1 DEF Moved, ControlOK, PlaceOK, Labels, Places
<1>3. CASE ~ctx[e].resource
  <2>1. at' = [at EXCEPT ![e] = "idle"] /\ ctx' = [ctx EXCEPT ![e] = NoStep]
    BY <1>3 DEF Leave
  <2>2. ~NoStep.resource
    BY DEF NoStep
  <2> QED BY <1>1, <1>3, <2>1, <2>2 DEF Moved, ControlOK, PlaceOK, Labels, Places
<1> QED BY <1>2, <1>3

\* A call from outside, or inside the model or capability, leaves the step where it is.
LEMMA StayMoves ==
    ASSUME ControlOK, Stay
    PROVE  Moved
BY DEF Stay, Moved, ControlOK, PlaceOK

\* The step goes on behind the policy's decision.
LEMMA GotoMoves ==
    ASSUME ControlOK, NEW e \in Engines, at[e] \notin Places \cup {"think"},
           NEW l \in {"prepare", "executing", "execute", "effect", "settle"}, Goto(e, l)
    PROVE  Moved
BY DEF Goto, Moved, ControlOK, PlaceOK, Labels, Places

\* The history variables keep their types.
LEMMA HistoryTyped ==
    ASSUME HistoryOK, UNCHANGED <<stopped, after>>,
           Ends \/ UNCHANGED ended,
           (\E e \in Engines, t \in Tasks : Reopens(e, t)) \/ UNCHANGED reopened
    PROVE  HistoryOK'
<1>1. ended' \subseteq Tasks
  BY DEF HistoryOK, Ends
<1>2. reopened' \subseteq Tasks
  BY DEF HistoryOK, Reopens
<1> QED BY <1>1, <1>2 DEF HistoryOK

(***************************************************************************)
(* The parts of a step that takes and gives back no resource lease.        *)
(***************************************************************************)
LEMMA StepKept ==
    ASSUME AgentInv, RowsKept, Moved, HistoryOK',
           stale' \in [Engines -> SUBSET Domains],
           UNCHANGED <<required, entity, resource, leaked>>
    PROVE  AgentInv'
<1>1. WorldOK'
  BY DEF AgentInv, WorldOK
<1>2. LeasesOK'
  BY DEF AgentInv, LeasesOK, Moved
<1>3. ASSUME NEW f \in Engines PROVE HasTask(f)'
  BY <1>3 DEF AgentInv, HasTask, Moved, RowsKept, ControlOK, PlaceOK
<1> QED BY <1>1, <1>2, <1>3 DEF AgentInv, RowsKept, Moved

\* A copy the engine has is a good one.
LEMMA LoadedGood ==
    ASSUME AgentInv, NEW e \in Engines, NEW t \in Tasks, mem[e][t].state # "ABSENT"
    PROVE  Good(mem[e][t])
BY DEF AgentInv, RowsOK, StateMeetsDesired, Good

\* So is that of the step it is in.
LEMMA StepGood ==
    ASSUME AgentInv, NEW e \in Engines, at[e] \notin Places
    PROVE  ctx[e].task \in Tasks /\ Good(mem[e][ctx[e].task])
BY LoadedGood DEF AgentInv, ControlOK, PlaceOK, HasTask

(***************************************************************************)
(* A method that saves a good copy, then moves, keeps the invariant.       *)
(***************************************************************************)
LEMMA SaveAndMove ==
    ASSUME AgentInv, NEW e \in Engines, NEW t \in Tasks, NEW m, Good(m), Saved(e, t, m),
           Moved, HistoryOK', UNCHANGED <<required, entity, resource, leaked>>
    PROVE  AgentInv'
BY SavedKept, StepKept

(***************************************************************************)
(* A move that saves nothing keeps the invariant.                          *)
(***************************************************************************)
LEMMA MoveOnly ==
    ASSUME AgentInv, Moved, UNCHANGED <<row, mem, required, stale, entity, resource, history>>
    PROVE  AgentInv'
<1>1. RowsKept
  BY QuietRows DEF AgentInv
<1>2. HistoryOK'
  BY DEF AgentInv, HistoryOK, history
<1> QED BY <1>1, <1>2, StepKept DEF AgentInv, WorldOK, history

-----------------------------------------------------------------------------
(* Calls from outside the step.                                            *)

\* create keeps the invariant.
LEMMA CreateKeeps ==
    ASSUME AgentInv, NEW e \in Engines, NEW t \in Tasks, Create(e, t)
    PROVE  AgentInv'
<1> DEFINE m == [Absent EXCEPT !.state = "CREATED"]
<1>1. Good(m)
  BY DEF Good, Absent, Task, TaskState, TaskPhase, StateMeets
<1>2. Saved(e, t, m) /\ Stay /\ UNCHANGED <<required, entity, resource, history>>
  BY DEF Create, Record, Saved
<1>3. Moved
  BY <1>2, StayMoves DEF AgentInv
<1>4. HistoryOK'
  BY <1>2 DEF AgentInv, HistoryOK, history
<1> HIDE DEF m
<1> QED BY <1>1, <1>2, <1>3, <1>4, SaveAndMove DEF history

\* queue keeps the invariant.
LEMMA QueueKeeps ==
    ASSUME AgentInv, NEW e \in Engines, NEW t \in Tasks, Queue(e, t)
    PROVE  AgentInv'
<1>1. Good(Queued(mem[e][t]))
  BY LoadedGood, GoodCopies DEF Queue, Loaded
<1>2. Saved(e, t, Queued(mem[e][t])) /\ Stay /\ Ends
  BY DEF Queue, Record, Saved
<1>3. Moved
  BY <1>2, StayMoves DEF AgentInv
<1>4. HistoryOK'
  BY <1>2 DEF AgentInv, HistoryOK, Queue, Ends
<1> QED BY <1>1, <1>2, <1>3, <1>4, SaveAndMove DEF Queue

\* control keeps the invariant.
LEMMA ControlKeeps ==
    ASSUME AgentInv, NEW e \in Engines, NEW t \in Tasks,
           NEW d \in {"PAUSED", "RUNNING", "CANCELLED"}, Control(e, t, d)
    PROVE  AgentInv'
<1> DEFINE m == [mem[e][t] EXCEPT !.state = Controlled(@, d), !.desired = d]
<1>1. Good(m)
  BY LoadedGood, GoodControl DEF Control, Loaded
<1>2. Saved(e, t, m) /\ Stay /\ Ends
  BY DEF Control, Record, Saved
<1>3. Moved
  BY <1>2, StayMoves DEF AgentInv
<1>4. stopped' \subseteq Tasks
  BY DEF AgentInv, HistoryOK, Control, Record
<1>5. after' \in [Tasks -> 0..2]
  BY DEF AgentInv, HistoryOK, Control
<1>6. HistoryOK'
  BY <1>2, <1>4, <1>5 DEF AgentInv, HistoryOK, Control, Ends
<1> HIDE DEF m
<1> QED BY <1>1, <1>2, <1>3, <1>6, SaveAndMove DEF Control

\* evaluate_goal keeps the invariant.
LEMMA EvaluateGoalKeeps ==
    ASSUME AgentInv, NEW e \in Engines, NEW t \in Tasks, EvaluateGoal(e, t)
    PROVE  AgentInv'
<1>1. PICK m \in {[mem[e][t] EXCEPT !.state = "COMPLETED"],
                  [mem[e][t] EXCEPT !.state = "RUNNING", !.phase = "REPLANNING"]} :
         Saved(e, t, m)
  BY DEF EvaluateGoal, Record, Saved
<1>2. Good(m)
  <2>1. Good(mem[e][t])
    BY LoadedGood DEF EvaluateGoal, Loaded
  <2>2. Good([mem[e][t] EXCEPT !.state = "COMPLETED"])
    BY <2>1, GoodCopies
  <2>3. Good([mem[e][t] EXCEPT !.state = "RUNNING", !.phase = "REPLANNING"])
    BY <2>1, GoodCopies DEF TaskPhase
  <2> QED BY <2>2, <2>3
<1>3. Stay
  BY DEF EvaluateGoal, Record
<1>4. Moved
  BY <1>3, StayMoves DEF AgentInv
<1>5. HistoryOK'
  BY HistoryTyped DEF AgentInv, EvaluateGoal
<1> QED BY <1>1, <1>2, <1>4, <1>5, SaveAndMove DEF EvaluateGoal

\* register, observe and build_manifest keep the invariant.
LEMMA WorldKeeps ==
    ASSUME AgentInv, NEW e \in Engines, Stay,
           Register(e) \/ BuildManifest(e) \/ \E d \in Observed : Observe(e, d)
    PROVE  AgentInv'
<1>1. UNCHANGED <<row, mem, required, resource, history>>
  BY DEF Register, BuildManifest, Observe
<1>2. RowsKept /\ Moved
  BY <1>1, QuietRows, StayMoves DEF AgentInv
<1>3. stale' \in [Engines -> SUBSET Domains]
  <2>1. \/ stale' = stale
        \/ stale' = [stale EXCEPT ![e] = {}]
        \/ \E d \in Domains : stale' = [stale EXCEPT ![e] = @ \cup {d, "global_revision"}]
    BY ObservedAssumption DEF Register, BuildManifest, Observe, Bump, Domains
  <2> QED BY <2>1 DEF AgentInv, WorldOK, Domains
<1>4. entity' \in [Engines -> {"same", "changed", "unsaved"}]
  BY DEF AgentInv, WorldOK, Register, BuildManifest, Observe
<1>5. WorldOK' /\ HistoryOK'
  BY <1>1, <1>3, <1>4 DEF AgentInv, WorldOK, HistoryOK, history
<1>6. LeasesOK'
  BY <1>1 DEF AgentInv, LeasesOK, Stay, history
<1>7. \A f \in Engines : HasTask(f)'
  BY <1>1 DEF AgentInv, HasTask, Stay
<1> QED BY <1>2, <1>5, <1>6, <1>7 DEF AgentInv, RowsKept, Moved

\* from_store keeps the invariant.
LEMMA FromStoreKeeps ==
    ASSUME AgentInv, NEW e \in Engines, FromStore(e)
    PROVE  AgentInv'
<1>1. /\ mem' = [mem EXCEPT ![e] = row] /\ at' = [at EXCEPT ![e] = "idle"] /\ at[e] = "down"
      /\ UNCHANGED <<ctx, row, required, resource, history>>
  BY DEF FromStore, Goto
<1>2. RowsOK' /\ StateMeetsDesired'
  BY <1>1 DEF AgentInv, RowsOK, StateMeetsDesired
<1>3. ControlOK'
  BY <1>1 DEF AgentInv, ControlOK, PlaceOK, Labels, Places
<1>4. WorldOK'
  BY <1>1 DEF AgentInv, WorldOK, FromStore
<1>5. HistoryOK' /\ LeasesOK'
  BY <1>1 DEF AgentInv, HistoryOK, LeasesOK, history
<1>6. \A f \in Engines : HasTask(f)'
  BY <1>1 DEF AgentInv, HasTask, Places, ControlOK, RowsOK
<1> QED BY <1>2, <1>3, <1>4, <1>5, <1>6 DEF AgentInv

\* A crash leaves the leases of its engine behind and keeps the invariant.
LEMMA CrashKeeps ==
    ASSUME AgentInv, NEW e \in Engines, Crash(e)
    PROVE  AgentInv'
<1>1. /\ mem' = [mem EXCEPT ![e] = [t \in Tasks |-> Absent]]
      /\ at' = [at EXCEPT ![e] = "down"] /\ ctx' = [ctx EXCEPT ![e] = NoStep]
      /\ leaked' = leaked \cup {t \in Tasks : resource[t] = e}
      /\ UNCHANGED <<row, required, stale, entity, resource, stopped, after, ended, reopened>>
  BY DEF Crash
<1>2. Absent \in Task /\ StateMeets(Absent)
  BY DEF Absent, Task, TaskState, TaskPhase, StateMeets
<1>3. RowsOK' /\ StateMeetsDesired'
  BY <1>1, <1>2 DEF AgentInv, RowsOK, StateMeetsDesired
<1>4. NoStep \in Contexts /\ ~NoStep.resource
  BY DEF NoStep, Contexts
<1>5. ControlOK'
  BY <1>1, <1>4 DEF AgentInv, ControlOK, PlaceOK, Labels, Places
<1>6. WorldOK' /\ HistoryOK'
  BY <1>1 DEF AgentInv, WorldOK, HistoryOK
<1>7. LeasesOK'
  BY <1>1 DEF AgentInv, LeasesOK, ControlOK
<1>8. \A f \in Engines : HasTask(f)'
  BY <1>1 DEF AgentInv, HasTask, Places, ControlOK, RowsOK
<1> QED BY <1>3, <1>5, <1>6, <1>7, <1>8 DEF AgentInv

\* recover() keeps the invariant.
LEMMA RecoverKeeps ==
    ASSUME AgentInv, NEW e \in Engines,
           BeginRecover(e) \/ EndRecover(e) \/ \E t \in Tasks : RecoverTask(e, t)
    PROVE  AgentInv'
<1>1. CASE BeginRecover(e)
  <2>1. /\ at' = [at EXCEPT ![e] = "recover"] /\ ctx' = ctx /\ at[e] = "idle"
        /\ UNCHANGED <<row, mem, required, stale, entity, resource, history>>
    BY <1>1 DEF BeginRecover, Goto
  <2>2. Moved
    BY <2>1 DEF AgentInv, Moved, ControlOK, PlaceOK, Labels, Places
  <2> QED BY <2>1, <2>2, MoveOnly
<1>2. CASE EndRecover(e)
  BY <1>2, LeaveMoves, MoveOnly DEF EndRecover, AgentInv
<1>3. ASSUME NEW t \in Tasks, RecoverTask(e, t) PROVE AgentInv'
  <2>1. Saved(e, t, Settled(mem[e][t])) /\ (Stay \/ Leave(e))
    BY <1>3 DEF RecoverTask, Settle, RecordChange, Record, Saved
  <2>2. Good(Settled(mem[e][t]))
    BY <1>3, LoadedGood, GoodCopies DEF RecoverTask, Loaded
  <2>3. Moved
    BY <2>1, StayMoves, LeaveMoves DEF AgentInv
  <2>4. HistoryOK'
    BY <1>3, HistoryTyped DEF AgentInv, RecoverTask, Settle
  <2> QED BY <1>3, <2>1, <2>2, <2>3, <2>4, SaveAndMove DEF RecoverTask
<1> QED BY <1>1, <1>2, <1>3

-----------------------------------------------------------------------------
(* The agent's step.                                                       *)

\* A step that settles a request, or is refused, or begins, keeps the invariant.
LEMMA BeginStepKeeps ==
    ASSUME AgentInv, NEW e \in Engines, NEW t \in Tasks, NEW l \in BOOLEAN, Step(e, t, l)
    PROVE  AgentInv'
<1>1. at[e] = "idle" /\ Good(mem[e][t]) /\ UNCHANGED <<required, entity, resource, leaked>>
  BY LoadedGood DEF Step, Loaded
<1>2. HistoryOK'
  BY HistoryTyped DEF Step, AgentInv, Wait, Settle
<1>3. CASE Wait(e, t, Stay)
  <2>1. Saved(e, t, [mem[e][t] EXCEPT !.state = "WAITING"]) /\ Stay
    BY <1>3 DEF Wait, Record, Saved
  <2>2. Good([mem[e][t] EXCEPT !.state = "WAITING"]) /\ Moved
    BY <1>1, <2>1, GoodCopies, StayMoves DEF AgentInv
  <2> QED BY <1>1, <1>2, <2>1, <2>2, SaveAndMove
<1>4. CASE Settle(e, t, Stay, Stay)
  <2>1. Saved(e, t, Settled(mem[e][t])) /\ Stay
    BY <1>4 DEF Settle, RecordChange, Record, Saved
  <2>2. Good(Settled(mem[e][t])) /\ Moved
    BY <1>1, <2>1, GoodCopies, StayMoves DEF AgentInv
  <2> QED BY <1>1, <1>2, <2>1, <2>2, SaveAndMove
<1>5. ASSUME RecordChange(e, t, [mem[e][t] EXCEPT !.state = "RUNNING", !.phase = "THINKING"],
                /\ at' = [at EXCEPT ![e] = "think"]
                /\ ctx' = [ctx EXCEPT ![e] = [task |-> t, action |-> None,
                                              leased |-> l, resource |-> FALSE]],
                Stay)
      PROVE  AgentInv'
  <2> DEFINE m == [mem[e][t] EXCEPT !.state = "RUNNING", !.phase = "THINKING"]
             c == [task |-> t, action |-> None, leased |-> l, resource |-> FALSE]
  <2>1. Saved(e, t, m)
    BY <1>5 DEF RecordChange, Record, Saved
  <2>2. Good(m)
    BY <1>1, GoodCopies DEF TaskPhase
  <2>3. CASE Stay
    <3>1. Moved
      BY <2>3, StayMoves DEF AgentInv
    <3> HIDE DEF m
    <3> QED BY <1>1, <1>2, <2>1, <2>2, <3>1, SaveAndMove
  <2>4. CASE at' = [at EXCEPT ![e] = "think"] /\ ctx' = [ctx EXCEPT ![e] = c]
    <3>1. c \in Contexts /\ c.task = t /\ ~c.resource
      BY DEF Contexts
    <3> HIDE DEF c, m
    <3>2. RowsKept /\ stale' \in [Engines -> SUBSET Domains]
      BY <2>1, <2>2, SavedKept
    <3>3. ControlOK'
      BY <1>1, <2>4, <3>1 DEF AgentInv, ControlOK, PlaceOK, Labels, Places
    <3>4. ~ctx[e].resource
      BY <1>1 DEF AgentInv, ControlOK, PlaceOK, Places
    <3>5. LeasesOK'
      BY <1>1, <2>4, <3>4 DEF AgentInv, LeasesOK, ControlOK
    <3>6. mem[e][t].state # "ABSENT"
      BY <1>1 DEF Good
    <3>7. ASSUME NEW f \in Engines PROVE HasTask(f)'
      BY <2>4, <3>1, <3>2, <3>6 DEF AgentInv, HasTask, RowsKept, ControlOK, PlaceOK
    <3>8. WorldOK'
      BY <1>1, <3>2 DEF AgentInv, WorldOK
    <3> QED BY <1>2, <3>2, <3>3, <3>5, <3>7, <3>8 DEF AgentInv, RowsKept
  <2> QED BY <1>5, <2>3, <2>4 DEF RecordChange, Record
<1> QED BY <1>3, <1>4, <1>5 DEF Step

\* An exception ends the step: nothing is saved.
LEMMA RaisedKeeps ==
    ASSUME AgentInv, NEW e \in Engines,
           ProposeRaised(e) \/ Raise(e) \/ OutcomeRaised(e)
    PROVE  AgentInv'
<1>1. Leave(e) /\ UNCHANGED <<row, mem, required, stale, entity, resource, history>>
  BY DEF ProposeRaised, Raise, OutcomeRaised
<1> QED BY <1>1, LeaveMoves, MoveOnly DEF AgentInv

\* The model's proposal keeps the invariant.
LEMMA ProposeKeeps ==
    ASSUME AgentInv, NEW e \in Engines, NEW a \in Actions, Propose(e, a)
    PROVE  AgentInv'
<1> DEFINE t == ctx[e].task
           m == [mem[e][t] EXCEPT !.phase = "AUTHORIZING"]
<1>1. at[e] = "think" /\ t \in Tasks /\ Good(mem[e][t])
  BY StepGood DEF Propose, Places
<1>2. Good(m)
  BY <1>1, GoodCopies DEF TaskPhase
<1>3. Saved(e, t, m)
  BY DEF Propose, RecordChange, Record, Saved
<1>4. HistoryOK'
  BY <1>1, HistoryTyped DEF Propose, AgentInv
<1>5. Moved
  <2>1. CASE Leave(e)
    BY <2>1, LeaveMoves DEF AgentInv
  <2>2. CASE at' = [at EXCEPT ![e] = "authorize"]
             /\ ctx' = [ctx EXCEPT ![e].action = a]
    <3>1. ctx[e] \in Contexts /\ ~ctx[e].resource
      BY <1>1 DEF AgentInv, ControlOK, PlaceOK, Places
    <3> DEFINE c == [ctx[e] EXCEPT !.action = a]
    <3>2. c \in Contexts /\ c.task = t /\ c.action = a /\ c.resource = ctx[e].resource
      BY <3>1 DEF Contexts
    <3>3. ctx' = [ctx EXCEPT ![e] = c]
      BY <2>2 DEF AgentInv, ControlOK
    <3> HIDE DEF c
    <3> QED BY <1>1, <2>2, <3>1, <3>2, <3>3 DEF AgentInv, Moved, ControlOK, PlaceOK, Labels, Places
  <2> QED BY <2>1, <2>2 DEF Propose, RecordChange, Record
<1> HIDE DEF m
<1> QED BY <1>1, <1>2, <1>3, <1>4, <1>5, SaveAndMove DEF Propose

\* The policy's decision and the resource lease keep the invariant.
LEMMA AuthorizeKeeps ==
    ASSUME AgentInv, NEW e \in Engines, Authorize(e)
    PROVE  AgentInv'
<1> DEFINE t == ctx[e].task
<1>1. at[e] = "authorize" /\ t \in Tasks /\ Good(mem[e][t])
  BY StepGood DEF Authorize, Places
<1>2. UNCHANGED <<required, entity, stopped, after, leaked>>
  BY DEF Authorize
<1>3. HistoryOK'
  BY <1>1, <1>2, HistoryTyped DEF Authorize, AgentInv, Update, Wait
<1>4. ASSUME NEW s \in {"BLOCKED", "WAITING"}, UNCHANGED resource,
             \/ Update(e, t, [mem[e][t] EXCEPT !.state = s], Leave(e))
             \/ Wait(e, t, Leave(e)) /\ s = "WAITING"
      PROVE  AgentInv'
  <2> DEFINE m == [mem[e][t] EXCEPT !.state = s]
  <2>1. Saved(e, t, m) /\ Leave(e)
    BY <1>4 DEF Update, Wait, RecordChange, Record, Saved
  <2>2. Good(m) /\ Moved
    BY <1>1, <2>1, GoodCopies, LeaveMoves DEF AgentInv
  <2> HIDE DEF m
  <2> QED BY <1>1, <1>2, <1>3, <1>4, <2>1, <2>2, SaveAndMove
<1>5. CASE \/ Goto(e, "prepare") /\ UNCHANGED <<row, mem, stale, reopened, resource>>
           \/ Leave(e) /\ UNCHANGED <<row, mem, stale, reopened, resource>>
  <2>1. Moved
    BY <1>1, <1>5, GotoMoves, LeaveMoves DEF AgentInv, Places
  <2>2. RowsKept
    BY <1>5, QuietRows DEF AgentInv
  <2> QED BY <1>2, <1>3, <1>5, <2>1, <2>2, StepKept DEF AgentInv, WorldOK
<1>6. CASE /\ resource[t] = None
           /\ resource' = [resource EXCEPT ![t] = e]
           /\ at' = [at EXCEPT ![e] = "prepare"]
           /\ ctx' = [ctx EXCEPT ![e].resource = TRUE]
           /\ UNCHANGED <<row, mem, stale, reopened>>
  <2>1. ctx[e] \in Contexts /\ ~ctx[e].resource /\ ctx[e].action \in Actions
    BY <1>1 DEF AgentInv, ControlOK, PlaceOK, Places
  <2>2. /\ ctx'[e] \in Contexts /\ ctx'[e].task = t /\ ctx'[e].resource
        /\ ctx'[e].action = ctx[e].action
        /\ \A f \in Engines \ {e} : ctx'[f] = ctx[f] /\ at'[f] = at[f]
        /\ at'[e] = "prepare"
        /\ at' \in [Engines -> Labels] /\ ctx' \in [Engines -> Contexts]
    BY <1>6, <2>1 DEF AgentInv, ControlOK, Contexts, Labels
  <2>3. ControlOK'
    BY <1>1, <2>1, <2>2 DEF AgentInv, ControlOK, PlaceOK, Places
  <2>4. LeasesOK'
    <3>1. resource' \in [Tasks -> Engines \cup {None}] /\ leaked' \subseteq Tasks
      BY <1>2, <1>6 DEF AgentInv, LeasesOK
    <3>2. ASSUME NEW u \in Tasks, NEW f \in Engines, resource'[u] = f, u \notin leaked'
          PROVE  ctx'[f].task = u /\ ctx'[f].resource
      <4>1. CASE u = t
        BY <1>1, <1>6, <2>2, <3>2, <4>1 DEF AgentInv, LeasesOK
      <4>2. CASE u # t
        <5>1. resource[u] = f /\ u \notin leaked
          BY <1>2, <1>6, <3>2, <4>2 DEF AgentInv, LeasesOK
        <5>2. ctx[f].task = u /\ ctx[f].resource
          BY <5>1 DEF AgentInv, LeasesOK
        <5> QED BY <2>1, <2>2, <5>2
      <4> QED BY <4>1, <4>2
    <3> QED BY <3>1, <3>2 DEF LeasesOK
  <2>5. RowsOK' /\ StateMeetsDesired' /\ WorldOK'
    BY <1>2, <1>6 DEF AgentInv, RowsOK, StateMeetsDesired, WorldOK
  <2>6. ASSUME NEW f \in Engines PROVE HasTask(f)'
    BY <1>1, <1>6, <2>2 DEF AgentInv, HasTask, Good, Places
  <2> QED BY <1>3, <2>3, <2>4, <2>5, <2>6 DEF AgentInv
<1> QED BY <1>4, <1>5, <1>6 DEF Authorize

\* prepare and the lease checks keep the invariant.
LEMMA PrepareKeeps ==
    ASSUME AgentInv, NEW e \in Engines, Prepare(e) \/ Refused(e)
    PROVE  AgentInv'
<1> DEFINE t == ctx[e].task
<1>1. at[e] \in {"prepare", "execute"} /\ t \in Tasks /\ Good(mem[e][t])
  BY StepGood DEF Prepare, Refused, Places
<1>2. HistoryOK'
  BY <1>1, HistoryTyped DEF Prepare, Refused, AgentInv, Wait
<1>3. UNCHANGED <<required, entity, resource, leaked>>
  BY DEF Prepare, Refused
<1>4. CASE Prepare(e)
  <2>1. Saved(e, t, mem[e][t]) /\ (Goto(e, "executing") \/ Leave(e))
    BY <1>4 DEF Prepare, Record, Saved
  <2>2. Moved
    BY <1>1, <2>1, GotoMoves, LeaveMoves DEF AgentInv, Places
  <2> QED BY <1>1, <1>2, <1>3, <2>1, <2>2, SaveAndMove
<1>5. CASE Refused(e)
  <2>1. Saved(e, t, [mem[e][t] EXCEPT !.state = "WAITING"]) /\ Leave(e)
    BY <1>5 DEF Refused, Wait, Record, Saved
  <2>2. Good([mem[e][t] EXCEPT !.state = "WAITING"]) /\ Moved
    BY <1>1, <2>1, GoodCopies, LeaveMoves DEF AgentInv
  <2> QED BY <1>1, <1>2, <1>3, <2>1, <2>2, SaveAndMove
<1> QED BY <1>4, <1>5

\* The saves around execute keep the invariant.
LEMMA ExecuteKeeps ==
    ASSUME AgentInv, NEW e \in Engines,
           Executing(e) \/ Outcome(e) \/ SettleStep(e)
    PROVE  AgentInv'
<1> DEFINE t == ctx[e].task
<1>1. at[e] \in {"executing", "effect", "settle"} /\ t \in Tasks /\ Good(mem[e][t])
  BY StepGood DEF Executing, Outcome, SettleStep, Places
<1>2. HistoryOK'
  BY <1>1, HistoryTyped DEF Executing, Outcome, SettleStep, AgentInv, Update, Settle
<1>3. UNCHANGED <<required, entity, resource, leaked>>
  BY DEF Executing, Outcome, SettleStep
<1>4. CASE Executing(e)
  <2>1. Saved(e, t, [mem[e][t] EXCEPT !.phase = "EXECUTING"]) /\ (Goto(e, "execute") \/ Leave(e))
    BY <1>4 DEF Executing, Update, RecordChange, Record, Saved
  <2>2. Good([mem[e][t] EXCEPT !.phase = "EXECUTING"])
    BY <1>1, GoodCopies DEF TaskPhase
  <2>3. Moved
    BY <1>1, <2>1, GotoMoves, LeaveMoves DEF AgentInv, Places
  <2> QED BY <1>1, <1>2, <1>3, <2>1, <2>2, <2>3, SaveAndMove
<1>5. CASE Outcome(e)
  <2>1. PICK o \in {[state |-> "WAITING", phase |-> "VERIFYING"],
                    [state |-> "RUNNING", phase |-> "OBSERVING"],
                    [state |-> "RUNNING", phase |-> "REPLANNING"]} :
          Update(e, t, Follows(mem[e][t], o), Goto(e, "settle"))
    BY <1>5 DEF Outcome
  <2>2. Saved(e, t, Follows(mem[e][t], o)) /\ (Goto(e, "settle") \/ Leave(e))
    BY <2>1 DEF Update, RecordChange, Record, Saved
  <2>3. o.state \in {"WAITING", "RUNNING"} /\ o.phase \in TaskPhase
    BY DEF TaskPhase
  <2>4. Good(Follows(mem[e][t], o))
    BY <1>1, <2>3, GoodCopies DEF Follows
  <2>5. Moved
    BY <1>1, <2>2, GotoMoves, LeaveMoves DEF AgentInv, Places
  <2> QED BY <1>1, <1>2, <1>3, <2>2, <2>4, <2>5, SaveAndMove
<1>6. CASE SettleStep(e)
  <2>1. Saved(e, t, Settled(mem[e][t])) /\ Leave(e)
    BY <1>6 DEF SettleStep, Settle, RecordChange, Record, Saved
  <2>2. Good(Settled(mem[e][t])) /\ Moved
    BY <1>1, <2>1, GoodCopies, LeaveMoves DEF AgentInv
  <2> QED BY <1>1, <1>2, <1>3, <2>1, <2>2, SaveAndMove
<1> QED BY <1>4, <1>5, <1>6

\* The effect begins.
LEMMA EffectKeeps ==
    ASSUME AgentInv, NEW e \in Engines, Execute(e)
    PROVE  AgentInv'
<1>1. at[e] = "execute" /\ Goto(e, "effect")
      /\ UNCHANGED <<row, mem, required, stale, entity, resource, stopped, ended, reopened, leaked>>
  BY DEF Execute
<1>2. Moved
  BY <1>1, GotoMoves DEF AgentInv, Places
<1>3. after' \in [Tasks -> 0..2]
  <2> DEFINE t == ctx[e].task
             n == IF t \in stopped /\ after[t] < 2 THEN after[t] + 1 ELSE after[t]
  <2>1. after' = [after EXCEPT ![t] = n]
    BY DEF Execute
  <2>2. after \in [Tasks -> 0..2] /\ stopped \subseteq Tasks
    BY DEF AgentInv, HistoryOK
  <2>3. ASSUME t \in Tasks PROVE n \in 0..2
    BY <2>2, <2>3
  <2> QED BY <2>1, <2>2, <2>3
<1>4. HistoryOK'
  BY <1>1, <1>3 DEF AgentInv, HistoryOK
<1>5. RowsKept
  BY <1>1, QuietRows DEF AgentInv
<1> QED BY <1>1, <1>2, <1>4, <1>5, StepKept DEF AgentInv, WorldOK

\* A lease is given back, left behind by a failing release, or lapses.
LEMMA LeasesKeep ==
    ASSUME AgentInv, (\E e \in Engines : Finally(e)) \/ (\E t \in Tasks : LapseResource(t))
    PROVE  AgentInv'
<1>1. ASSUME NEW e \in Engines, Finally(e) PROVE AgentInv'
  <2> DEFINE t == ctx[e].task
  <2>1. /\ at[e] = "finally" /\ t \in Tasks
        /\ at' = [at EXCEPT ![e] = "idle"] /\ ctx' = [ctx EXCEPT ![e] = NoStep]
        /\ UNCHANGED <<row, mem, required, stale, entity, stopped, after, ended, reopened>>
    BY <1>1, StepGood DEF Finally, Places
  <2>2. NoStep \in Contexts /\ ~NoStep.resource
    BY DEF NoStep, Contexts
  <2>3. ControlOK'
    BY <2>1, <2>2 DEF AgentInv, ControlOK, PlaceOK, Labels, Places
  <2>4. LeasesOK'
    <3>1. resource' \in [Tasks -> Engines \cup {None}] /\ leaked' \subseteq Tasks
      BY <1>1, <2>1 DEF Finally, AgentInv, LeasesOK
    <3>2. ASSUME NEW u \in Tasks, NEW f \in Engines, resource'[u] = f, u \notin leaked'
          PROVE  ctx'[f].task = u /\ ctx'[f].resource
      <4>1. resource[u] = f /\ u \notin leaked
        BY <1>1, <2>1, <3>2, AgentNoneAssumption DEF Finally, AgentInv, LeasesOK
      <4>2. ctx[f].task = u /\ ctx[f].resource
        BY <4>1 DEF AgentInv, LeasesOK
      <4>3. f # e
        BY <1>1, <2>1, <3>2, <4>1, <4>2, AgentNoneAssumption DEF Finally, AgentInv, LeasesOK
      <4> QED BY <2>1, <4>2, <4>3 DEF AgentInv, ControlOK
    <3> QED BY <3>1, <3>2 DEF LeasesOK
  <2>5. RowsOK' /\ StateMeetsDesired' /\ WorldOK' /\ HistoryOK'
    BY <2>1 DEF AgentInv, RowsOK, StateMeetsDesired, WorldOK, HistoryOK
  <2>6. \A f \in Engines : HasTask(f)'
    BY <2>1 DEF AgentInv, HasTask, Places, ControlOK
  <2> QED BY <2>3, <2>4, <2>5, <2>6 DEF AgentInv
<1>2. ASSUME NEW t \in Tasks, LapseResource(t) PROVE AgentInv'
  <2>1. /\ resource' = [resource EXCEPT ![t] = None] /\ leaked' = leaked \ {t}
        /\ UNCHANGED <<row, mem, at, ctx, required, stale, entity, stopped, after, ended, reopened>>
    BY <1>2 DEF LapseResource
  <2>2. LeasesOK'
    BY <2>1, AgentNoneAssumption DEF AgentInv, LeasesOK
  <2>3. RowsOK' /\ StateMeetsDesired' /\ WorldOK' /\ HistoryOK' /\ ControlOK'
    BY <2>1 DEF AgentInv, RowsOK, StateMeetsDesired, WorldOK, HistoryOK, ControlOK, PlaceOK
  <2>4. \A f \in Engines : HasTask(f)'
    BY <2>1 DEF AgentInv, HasTask
  <2> QED BY <2>2, <2>3, <2>4 DEF AgentInv
<1> QED BY <1>1, <1>2

-----------------------------------------------------------------------------

(***************************************************************************)
(* The strengthened invariant holds, for any number of engines.            *)
(***************************************************************************)
THEOREM InvariantCorrect == Spec => []AgentInv
<1>1. Init => AgentInv
  <2> SUFFICES ASSUME Init PROVE AgentInv
    OBVIOUS
  <2>1. Absent \in Task /\ StateMeets(Absent)
    BY DEF Absent, Task, TaskState, TaskPhase, StateMeets
  <2>2. NoStep \in Contexts /\ ~NoStep.resource
    BY DEF NoStep, Contexts
  <2>3. RowsOK /\ StateMeetsDesired
    BY <2>1 DEF Init, RowsOK, StateMeetsDesired
  <2>4. ControlOK /\ \A e \in Engines : HasTask(e)
    BY <2>2 DEF Init, ControlOK, PlaceOK, HasTask, Labels, Places
  <2>5. WorldOK /\ HistoryOK /\ LeasesOK
    BY AgentNoneAssumption DEF Init, WorldOK, HistoryOK, LeasesOK
  <2> QED BY <2>3, <2>4, <2>5 DEF AgentInv
<1>2. AgentInv /\ [Next]_vars => AgentInv'
  <2> SUFFICES ASSUME AgentInv, [Next]_vars PROVE AgentInv'
    OBVIOUS
  <2>1. ASSUME NEW e \in Engines, EngineStep(e) PROVE AgentInv'
    BY <2>1, RaisedKeeps, ProposeKeeps, AuthorizeKeeps, PrepareKeeps, ExecuteKeeps, EffectKeeps,
       LeasesKeep, RecoverKeeps DEF EngineStep
  <2>2. ASSUME NEW e \in Engines, NEW i \in Intents, NEW x \in Tasks \cup {None},
               ControlIntent(e, i, x)
        PROVE  AgentInv'
    <3>1. PICK t \in Tasks, d \in {"PAUSED", "RUNNING", "CANCELLED"} : Control(e, t, d)
      BY <2>2 DEF ControlIntent, Candidates, Intents
    <3> QED BY <3>1, ControlKeeps
  <2>3. ASSUME NEW e \in Engines,
               Register(e) \/ BuildManifest(e) \/ \E d \in Observed : Observe(e, d)
        PROVE  AgentInv'
    BY <2>3, WorldKeeps DEF Register, BuildManifest, Observe
  <2>4. CASE UNCHANGED vars
    <3>1. Stay /\ UNCHANGED <<row, mem, required, stale, entity, resource, history>>
      BY <2>4 DEF vars, code, Stay, history
    <3> QED BY <3>1, StayMoves, MoveOnly DEF AgentInv
  <2> QED
    BY <2>1, <2>2, <2>3, <2>4, FromStoreKeeps, CrashKeeps, RecoverKeeps, CreateKeeps, QueueKeeps,
       EvaluateGoalKeeps, BeginStepKeeps, LeasesKeep DEF Next
<1> QED BY <1>1, <1>2, PTL DEF Spec

(***************************************************************************)
(* Every step of the agent knows its task, and from the policy's decision  *)
(* on its action; rows, copies and history keep their types.               *)
(***************************************************************************)
THEOREM TypeCorrect == Spec => []TypeOK
<1>1. AgentInv => TypeOK
  <2> SUFFICES ASSUME AgentInv PROVE TypeOK
    OBVIOUS
  <2>1. ctx \in [Engines -> [task : Tasks \cup {None}, action : Actions \cup {None},
                             leased : BOOLEAN, resource : BOOLEAN]]
    BY DEF AgentInv, ControlOK, Contexts
  <2>2. \A e \in Engines :
          /\ at[e] \notin {"down", "idle", "recover"} =>
               ctx[e].task \in Tasks /\ mem[e][ctx[e].task].state # "ABSENT"
          /\ at[e] \notin {"down", "idle", "recover", "think"} => ctx[e].action \in Actions
    BY DEF AgentInv, ControlOK, PlaceOK, HasTask, Places
  <2> QED BY <2>1, <2>2 DEF TypeOK, AgentInv, RowsOK, ControlOK, WorldOK, HistoryOK, LeasesOK
<1> QED BY <1>1, InvariantCorrect, PTL

(***************************************************************************)
(* No row and no copy is paused, cancelled or queued against the request   *)
(* it holds, however many engines save their whole copies over the rows.   *)
(***************************************************************************)
THEOREM StatesMeetRequests == Spec => []StateMeetsDesired
<1>1. AgentInv => StateMeetsDesired
  BY DEF AgentInv
<1> QED BY <1>1, InvariantCorrect, PTL

(***************************************************************************)
(* Every way out of a step gives its resource lease back: one that is held *)
(* and was not left behind belongs to a step under way.                    *)
(***************************************************************************)
THEOREM ResourcesReturned == Spec => []ResourceReturned
<1>1. AgentInv => ResourceReturned
  <2> SUFFICES ASSUME AgentInv, NEW t \in Tasks, resource[t] # None, t \notin leaked
               PROVE  \E e \in Engines : ctx[e].task = t /\ ctx[e].resource
    BY DEF ResourceReturned
  <2>1. resource[t] \in Engines
    BY DEF AgentInv, LeasesOK
  <2> QED BY <2>1 DEF AgentInv, LeasesOK
<1> QED BY <1>1, InvariantCorrect, PTL

-----------------------------------------------------------------------------
(* What an effect may begin on.                                            *)

\* Past prepare, where the domain tasks has moved.
Prepared == {"executing", "execute"}

\* A replaced object is one the manifest's revisions do not match any more, and so is
\* everything once the operation is prepared.
FreshOK(e) ==
    /\ entity[e] = "changed" => "workspace" \in stale[e]
    /\ at[e] \in Prepared => {"tasks", "global_revision"} \subseteq stale[e]

\* Revisions move on, and no engine gets past prepare.
Grows ==
    \A f \in Engines : /\ stale[f] \subseteq stale'[f] /\ entity'[f] = entity[f]
                       /\ at'[f] \in Prepared => at[f] \in Prepared

(***************************************************************************)
(* Revisions only move away from the manifest.                             *)
(***************************************************************************)
LEMMA GrowsFresh ==
    ASSUME \A f \in Engines : FreshOK(f), Grows
    PROVE  \A f \in Engines : FreshOK(f)'
BY DEF Grows, FreshOK

(***************************************************************************)
(* A save moves the revisions of its engine, or changes nothing.           *)
(***************************************************************************)
LEMMA SavedGrows ==
    ASSUME AgentInv, NEW e \in Engines, NEW t \in Tasks, NEW m, Saved(e, t, m)
    PROVE  \A f \in Engines : stale[f] \subseteq stale'[f]
<1>1. stale' = stale \/ stale' = [stale EXCEPT ![e] = @ \cup {"tasks", "global_revision"}]
  BY DEF Saved, Bump
<1> QED BY <1>1 DEF AgentInv, WorldOK

(***************************************************************************)
(* Only Goto leads past prepare.                                           *)
(***************************************************************************)
LEMMA NotPrepared ==
    ASSUME AgentInv, NEW e \in Engines,
           \/ Leave(e) \/ Stay
           \/ \E l \in Labels \ Prepared : at' = [at EXCEPT ![e] = l]
           \/ at[e] \in Prepared /\ Goto(e, "execute")
    PROVE  \A f \in Engines : at'[f] \in Prepared => at[f] \in Prepared
BY DEF AgentInv, ControlOK, Prepared, Leave, Stay, Goto

(***************************************************************************)
(* Every step keeps FreshOK.                                               *)
(***************************************************************************)
LEMMA StepFresh ==
    ASSUME AgentInv, \A f \in Engines : FreshOK(f), [Next]_vars
    PROVE  \A f \in Engines : FreshOK(f)'
<1> DEFINE Ok == \A f \in Engines : FreshOK(f)'
<1> SUFFICES Ok
  OBVIOUS
<1>0. stale \in [Engines -> SUBSET Domains] /\ at \in [Engines -> Labels]
      /\ entity \in [Engines -> {"same", "changed", "unsaved"}]
  BY DEF AgentInv, WorldOK, ControlOK
\* A save, then a move.
<1>1. ASSUME NEW e \in Engines, NEW t \in Tasks, NEW m, Saved(e, t, m), UNCHANGED entity,
             \/ Leave(e) \/ Stay
             \/ \E l \in Labels \ Prepared : at' = [at EXCEPT ![e] = l]
             \/ at[e] \in Prepared /\ Goto(e, "execute")
      PROVE  Ok
  BY <1>1, SavedGrows, NotPrepared, GrowsFresh DEF Grows
\* A move alone.
<1>2. ASSUME NEW e \in Engines, UNCHANGED <<stale, entity>>,
             Leave(e) \/ Stay \/ \E l \in Labels \ Prepared : at' = [at EXCEPT ![e] = l]
      PROVE  Ok
  BY <1>2, NotPrepared, GrowsFresh DEF Grows
<1> HIDE DEF Ok
<1>3. ASSUME NEW e \in Engines, FromStore(e) \/ BuildManifest(e) PROVE Ok
  <2>1. /\ stale' = [stale EXCEPT ![e] = {}] /\ entity' = [entity EXCEPT ![e] = "same"]
        /\ at' = [at EXCEPT ![e] = "idle"] \/ (at' = at /\ at[e] = "idle")
    BY <1>3 DEF FromStore, BuildManifest, Goto, Stay
  <2> QED BY <1>0, <2>1 DEF Ok, FreshOK, Prepared
<1>4. ASSUME NEW e \in Engines, Register(e) PROVE Ok
  <2>1. at' = at
    BY <1>4 DEF Register, Stay
  <2>2. CASE Bump(e, "workspace") /\ entity' = [entity EXCEPT ![e] = "changed"]
    BY <1>0, <2>1, <2>2 DEF Bump, Ok, FreshOK
  <2>3. CASE /\ entity' = [entity EXCEPT ![e] = IF @ = "changed" THEN @ ELSE "unsaved"]
             /\ UNCHANGED stale
    BY <1>0, <2>1, <2>3 DEF Ok, FreshOK
  <2> QED BY <1>4, <2>2, <2>3 DEF Register
<1>5. ASSUME NEW e \in Engines, NEW d \in Observed, Observe(e, d) PROVE Ok
  BY <1>0, <1>5 DEF Observe, Bump, Stay, Ok, FreshOK
<1>6. ASSUME NEW e \in Engines, Prepare(e) PROVE Ok
  <2>1. /\ stale' = [stale EXCEPT ![e] = @ \cup {"tasks", "global_revision"}]
        /\ entity' = entity
    BY <1>6 DEF Prepare, Record, Bump
  <2>2. \A f \in Engines \ {e} : at'[f] = at[f]
    BY <1>0, <1>6 DEF Prepare, Record, Goto, Leave
  <2> QED BY <1>0, <2>1, <2>2 DEF Ok, FreshOK
<1> USE DEF Labels, Prepared
<1>7. ASSUME NEW e \in Engines, NEW t \in Tasks, Create(e, t) PROVE Ok
  <2>1. Saved(e, t, [Absent EXCEPT !.state = "CREATED"]) /\ Stay /\ UNCHANGED entity
    BY <1>7 DEF Create, Record, Saved
  <2> QED BY <1>1, <2>1
<1>8. ASSUME NEW e \in Engines, NEW t \in Tasks, Queue(e, t) PROVE Ok
  <2>1. Saved(e, t, Queued(mem[e][t])) /\ Stay /\ UNCHANGED entity
    BY <1>8 DEF Queue, Record, Saved
  <2> QED BY <1>1, <2>1
<1>9. ASSUME NEW e \in Engines, NEW i \in Intents, NEW x \in Tasks \cup {None},
             ControlIntent(e, i, x)
      PROVE  Ok
  <2>1. PICK t \in Tasks, d \in {"PAUSED", "RUNNING", "CANCELLED"} : Control(e, t, d)
    BY <1>9 DEF ControlIntent, Candidates, Intents
  <2>2. /\ Saved(e, t, [mem[e][t] EXCEPT !.state = Controlled(@, d), !.desired = d])
        /\ Stay /\ UNCHANGED entity
    BY <2>1 DEF Control, Record, Saved
  <2> QED BY <1>1, <2>2
<1>10. ASSUME NEW e \in Engines, NEW t \in Tasks, EvaluateGoal(e, t) PROVE Ok
  <2>1. PICK m \in {[mem[e][t] EXCEPT !.state = "COMPLETED"],
                    [mem[e][t] EXCEPT !.state = "RUNNING", !.phase = "REPLANNING"]} :
           Saved(e, t, m)
    BY <1>10 DEF EvaluateGoal, Record, Saved
  <2>2. Stay /\ UNCHANGED entity
    BY <1>10 DEF EvaluateGoal, Record
  <2> QED BY <1>1, <2>1, <2>2
<1>11. ASSUME NEW e \in Engines, NEW t \in Tasks, NEW l \in BOOLEAN, Step(e, t, l) PROVE Ok
  <2>1. PICK m \in {[mem[e][t] EXCEPT !.state = "WAITING"], Settled(mem[e][t]),
                    [mem[e][t] EXCEPT !.state = "RUNNING", !.phase = "THINKING"]} :
           Saved(e, t, m)
    BY <1>11 DEF Step, Wait, Settle, RecordChange, Record, Saved
  <2>2. (Stay \/ at' = [at EXCEPT ![e] = "think"]) /\ UNCHANGED entity
    BY <1>11 DEF Step, Wait, Settle, RecordChange, Record
  <2> QED BY <1>1, <2>1, <2>2
<1>12. ASSUME NEW e \in Engines, NEW a \in Actions, Propose(e, a) PROVE Ok
  <2> DEFINE t == ctx[e].task
  <2>1. t \in Tasks
    BY <1>12, StepGood DEF Propose, Places
  <2>2. /\ Saved(e, t, [mem[e][t] EXCEPT !.phase = "AUTHORIZING"]) /\ UNCHANGED entity
        /\ Leave(e) \/ at' = [at EXCEPT ![e] = "authorize"]
    BY <1>12 DEF Propose, RecordChange, Record, Saved
  <2> QED BY <1>1, <2>1, <2>2
<1>13. ASSUME NEW e \in Engines, Authorize(e) PROVE Ok
  <2> DEFINE t == ctx[e].task
  <2>1. t \in Tasks /\ UNCHANGED entity
    BY <1>13, StepGood DEF Authorize, Places
  <2>2. CASE UNCHANGED stale /\ (Leave(e) \/ at' = [at EXCEPT ![e] = "prepare"])
    BY <1>2, <2>1, <2>2
  <2>3. ASSUME NEW s \in {"BLOCKED", "WAITING"},
               \/ Update(e, t, [mem[e][t] EXCEPT !.state = s], Leave(e))
               \/ Wait(e, t, Leave(e)) /\ s = "WAITING"
        PROVE  Ok
    <3>1. Saved(e, t, [mem[e][t] EXCEPT !.state = s]) /\ Leave(e)
      BY <2>3 DEF Update, Wait, RecordChange, Record, Saved
    <3> QED BY <1>1, <2>1, <3>1
  <2> QED BY <1>13, <2>2, <2>3 DEF Authorize, Goto
<1>14. ASSUME NEW e \in Engines, Refused(e) PROVE Ok
  <2> DEFINE t == ctx[e].task
  <2>1. t \in Tasks
    BY <1>14, StepGood DEF Refused, Places
  <2>2. Saved(e, t, [mem[e][t] EXCEPT !.state = "WAITING"]) /\ Leave(e) /\ UNCHANGED entity
    BY <1>14 DEF Refused, Wait, Record, Saved
  <2> QED BY <1>1, <2>1, <2>2
<1>15. ASSUME NEW e \in Engines, Executing(e) PROVE Ok
  <2> DEFINE t == ctx[e].task
  <2>1. t \in Tasks
    BY <1>15, StepGood DEF Executing, Places
  <2>2. /\ Saved(e, t, [mem[e][t] EXCEPT !.phase = "EXECUTING"]) /\ UNCHANGED entity
        /\ Leave(e) \/ (at[e] \in Prepared /\ Goto(e, "execute"))
    BY <1>15 DEF Executing, Update, RecordChange, Record, Saved
  <2> QED BY <1>1, <2>1, <2>2
<1>16. ASSUME NEW e \in Engines, Execute(e) PROVE Ok
  BY <1>2, <1>16 DEF Execute, Goto
<1>17. ASSUME NEW e \in Engines, Outcome(e) PROVE Ok
  <2> DEFINE t == ctx[e].task
  <2>1. t \in Tasks
    BY <1>17, StepGood DEF Outcome, Places
  <2>2. PICK o : Saved(e, t, Follows(mem[e][t], o)) /\ (Goto(e, "settle") \/ Leave(e))
    BY <1>17 DEF Outcome, Update, RecordChange, Record, Saved
  <2>3. UNCHANGED entity
    BY <1>17 DEF Outcome
  <2> QED BY <1>1, <2>1, <2>2, <2>3 DEF Goto
<1>18. ASSUME NEW e \in Engines, SettleStep(e) PROVE Ok
  <2> DEFINE t == ctx[e].task
  <2>1. t \in Tasks
    BY <1>18, StepGood DEF SettleStep, Places
  <2>2. Saved(e, t, Settled(mem[e][t])) /\ Leave(e) /\ UNCHANGED entity
    BY <1>18 DEF SettleStep, Settle, RecordChange, Record, Saved
  <2> QED BY <1>1, <2>1, <2>2
<1>19. ASSUME NEW e \in Engines, NEW t \in Tasks, RecoverTask(e, t) PROVE Ok
  <2>1. Saved(e, t, Settled(mem[e][t])) /\ (Stay \/ Leave(e)) /\ UNCHANGED entity
    BY <1>19 DEF RecoverTask, Settle, RecordChange, Record, Saved
  <2> QED BY <1>1, <2>1
<1>20. ASSUME NEW e \in Engines,
              \/ Crash(e) \/ BeginRecover(e) \/ EndRecover(e) \/ ProposeRaised(e) \/ Raise(e)
              \/ OutcomeRaised(e) \/ Finally(e)
       PROVE  Ok
  <2>1. /\ UNCHANGED <<stale, entity>>
        /\ Leave(e) \/ \E l \in Labels \ Prepared : at' = [at EXCEPT ![e] = l]
    BY <1>20 DEF Crash, BeginRecover, EndRecover, ProposeRaised, Raise, OutcomeRaised, Finally, Goto
  <2> QED BY <1>2, <2>1
<1>21. CASE (\E t \in Tasks : LapseResource(t)) \/ UNCHANGED vars
  <2>1. UNCHANGED <<stale, entity, at>>
    BY <1>21 DEF LapseResource, vars, code
  <2> QED BY <2>1, GrowsFresh DEF Grows, Ok
<1> QED
  BY <1>3, <1>4, <1>5, <1>6, <1>7, <1>8, <1>9, <1>10, <1>11, <1>12, <1>13, <1>14, <1>15, <1>16,
     <1>17, <1>18, <1>19, <1>20, <1>21 DEF Next, EngineStep

(***************************************************************************)
(* Only Execute enters the capability.                                     *)
(***************************************************************************)
LEMMA OnlyExecute ==
    ASSUME AgentInv, [Next]_vars, NEW e \in Engines, at[e] # "effect", at'[e] = "effect"
    PROVE  Execute(e)
<1>1. at \in [Engines -> Labels]
  BY DEF AgentInv, ControlOK
<1>2. ASSUME NEW f \in Engines, Leave(f) \/ Stay PROVE FALSE
  BY <1>1, <1>2 DEF Leave, Stay
<1>3. ASSUME NEW f \in Engines, NEW l, at' = [at EXCEPT ![f] = l], l # "effect" PROVE FALSE
  BY <1>1, <1>3
<1>4. ASSUME UNCHANGED vars \/ \E t \in Tasks : LapseResource(t) PROVE FALSE
  BY <1>4 DEF vars, code, LapseResource
<1>5. ASSUME NEW f \in Engines,
             \/ FromStore(f) \/ Crash(f) \/ BeginRecover(f) \/ Register(f) \/ BuildManifest(f)
             \/ \E d \in Observed : Observe(f, d)
      PROVE  FALSE
  BY <1>2, <1>3, <1>5 DEF FromStore, Crash, BeginRecover, Register, BuildManifest, Observe, Goto
<1>6. ASSUME NEW f \in Engines, NEW t \in Tasks,
             Create(f, t) \/ Queue(f, t) \/ EvaluateGoal(f, t) \/ RecoverTask(f, t)
      PROVE  FALSE
  BY <1>2, <1>6 DEF Create, Queue, EvaluateGoal, RecoverTask, Settle, RecordChange, Record
<1>7. ASSUME NEW f \in Engines, NEW i \in Intents, NEW x \in Tasks \cup {None},
             ControlIntent(f, i, x)
      PROVE  FALSE
  BY <1>2, <1>7 DEF ControlIntent, Control, Record
<1>8. ASSUME NEW f \in Engines, NEW t \in Tasks, NEW l \in BOOLEAN, Step(f, t, l) PROVE FALSE
  <2>1. Stay \/ at' = [at EXCEPT ![f] = "think"]
    BY <1>8 DEF Step, Wait, Settle, RecordChange, Record
  <2> QED BY <1>2, <1>3, <2>1
<1>9. ASSUME NEW f \in Engines,
             \/ ProposeRaised(f) \/ (\E a \in Actions : Propose(f, a)) \/ Authorize(f)
             \/ Prepare(f) \/ Refused(f) \/ Raise(f)
      PROVE  FALSE
  <2>1. Leave(f) \/ \E l \in {"authorize", "prepare", "executing"} : at' = [at EXCEPT ![f] = l]
    BY <1>9 DEF ProposeRaised, Propose, Authorize, Prepare, Refused, Raise, Update, Wait,
                RecordChange, Record, Goto
  <2> QED BY <1>2, <1>3, <2>1
<1>10. ASSUME NEW f \in Engines,
              \/ Executing(f) \/ Outcome(f) \/ OutcomeRaised(f) \/ SettleStep(f) \/ Finally(f)
              \/ EndRecover(f)
       PROVE  FALSE
  <2>1. Leave(f) \/ \E l \in {"execute", "settle", "idle"} : at' = [at EXCEPT ![f] = l]
    BY <1>10 DEF Executing, Outcome, OutcomeRaised, SettleStep, Finally, EndRecover, Update,
                 Settle, RecordChange, Record, Goto
  <2> QED BY <1>2, <1>3, <2>1
<1>11. ASSUME NEW f \in Engines, Execute(f) PROVE Execute(e)
  <2>1. at' = [at EXCEPT ![f] = "effect"]
    BY <1>11 DEF Execute, Goto
  <2>2. f = e
    BY <1>1, <2>1
  <2> QED BY <1>11, <2>2
<1> QED BY <1>4, <1>5, <1>6, <1>7, <1>8, <1>9, <1>10, <1>11 DEF Next, EngineStep

(***************************************************************************)
(* An effect whose action names the workspace revision begins only on      *)
(* objects the model saw, and an action that names tasks or                *)
(* global_revision never begins: with any number of engines, whatever is   *)
(* registered or observed while the model thinks.                          *)
(***************************************************************************)
THEOREM EffectsFresh == Spec => EffectFresh
<1>1. Init => \A e \in Engines : FreshOK(e)
  BY DEF Init, FreshOK, Prepared
<1>2. AgentInv /\ (\A e \in Engines : FreshOK(e)) /\ [Next]_vars
        => (\A e \in Engines : FreshOK(e))'
  BY StepFresh
<1>3. AgentInv /\ (\A e \in Engines : FreshOK(e)) /\ [Next]_vars
        => [\A e \in Engines : at[e] # "effect" /\ at'[e] = "effect" =>
               /\ "workspace" \in ctx[e].action.domains => entity[e] # "changed"
               /\ {"tasks", "global_revision"} \cap ctx[e].action.domains = {}]_vars
  <2> SUFFICES ASSUME AgentInv, \A f \in Engines : FreshOK(f), [Next]_vars,
                      NEW e \in Engines, at[e] # "effect", at'[e] = "effect"
               PROVE  /\ "workspace" \in ctx[e].action.domains => entity[e] # "changed"
                      /\ {"tasks", "global_revision"} \cap ctx[e].action.domains = {}
    OBVIOUS
  <2>1. at[e] = "execute" /\ stale[e] \cap ctx[e].action.domains = {}
    BY OnlyExecute DEF Execute, RevisionsMatch
  <2> QED BY <2>1 DEF FreshOK, Prepared
<1> QED BY <1>1, <1>2, <1>3, InvariantCorrect, PTL DEF Spec, EffectFresh

-----------------------------------------------------------------------------
(* One engine: requests to stop and terminal tasks.                        *)

Alone == \A e, f \in Engines : e = f

\* The places of a step before its effect.
Before == {"think", "authorize", "prepare", "executing", "execute"}

\* An accepted request is in the row and in the copy of a live engine, so that no later
\* step passes it; once an effect began after it, no step that may begin another is left.
RequestOK(t) ==
    /\ t \in stopped => /\ row[t].desired \in Stops
                        /\ \A e \in Engines : at[e] # "down" => mem[e][t].desired \in Stops
    /\ after[t] # 0 => /\ after[t] = 1 /\ t \in stopped
                       /\ \A e \in Engines : at[e] \in Before => ctx[e].task # t

\* A task that ended is terminal in the copy of a live engine too, where queue and
\* control look.
EndOK(t) ==
    /\ row[t].state \in Terminal => t \in ended
    /\ t \in ended \ reopened =>
          /\ row[t].state \in Terminal
          /\ \A e \in Engines : at[e] # "down" => mem[e][t].state \in Terminal

(***************************************************************************)
(* The inductive invariant of a single engine.                             *)
(***************************************************************************)
StopInv == \A t \in Tasks : RequestOK(t) /\ EndOK(t)

\* No engine comes up, and a step goes on with its task or begins on one without a
\* request to stop.
Onward ==
    \A f \in Engines :
       /\ at'[f] # "down" => at[f] # "down"
       /\ at'[f] \in Before => \/ at[f] \in Before /\ ctx'[f].task = ctx[f].task
                               \/ ~Stopping(mem[f][ctx'[f].task]) /\ at[f] = "idle"

\* Nothing that a row or a live copy holds changes, and no request comes or goes.
Calm ==
    /\ UNCHANGED <<row, stopped, after, reopened>>
    /\ Ends \/ UNCHANGED ended
    /\ \A f \in Engines : at'[f] # "down" => mem'[f] = mem[f]

\* A method of TaskRuntime other than create, queue and control saves a copy, or finds
\* nothing to change: the request stays what it was.
Ordinary(e, t, m) ==
    /\ at[e] # "down"
    /\ Saved(e, t, m)
    /\ m.desired = mem[e][t].desired
    /\ UNCHANGED <<stopped, after>>
    /\ Ends
    /\ Reopens(e, t) \/ (UNCHANGED reopened /\ m.state = mem[e][t].state)

(***************************************************************************)
(* The moves of a live engine.                                             *)
(***************************************************************************)
LEMMA MovesOnward ==
    ASSUME AgentInv, NEW e \in Engines, at[e] # "down",
           \/ Leave(e) \/ Stay
           \/ /\ \E l \in Labels \ Before : at' = [at EXCEPT ![e] = l]
              /\ ctx' = ctx \/ ctx' = [ctx EXCEPT ![e] = NoStep]
           \/ at[e] \in Before /\ \E l \in Labels : Goto(e, l)
    PROVE  Onward
<1>1. at \in [Engines -> Labels] /\ ctx \in [Engines -> Contexts]
  BY DEF AgentInv, ControlOK
<1>2. CASE Stay
  BY <1>2 DEF Stay, Onward
<1>3. CASE Leave(e)
  <2>1. /\ at'[e] \in {"idle", "finally"}
        /\ \A f \in Engines \ {e} : at'[f] = at[f] /\ ctx'[f] = ctx[f]
    BY <1>1, <1>3 DEF Leave
  <2> QED BY <2>1 DEF Onward, Before
<1>4. CASE at[e] \in Before /\ \E l \in Labels : Goto(e, l)
  BY <1>1, <1>4 DEF Goto, Onward
<1>5. CASE /\ \E l \in Labels \ Before : at' = [at EXCEPT ![e] = l]
           /\ ctx' = ctx \/ ctx' = [ctx EXCEPT ![e] = NoStep]
  <2>1. /\ at'[e] \notin Before
        /\ \A f \in Engines \ {e} : at'[f] = at[f] /\ ctx'[f] = ctx[f]
    BY <1>1, <1>5
  <2> QED BY <2>1 DEF Onward
<1> QED BY <1>2, <1>3, <1>4, <1>5

(***************************************************************************)
(* An effect that began after a request stays the only one, if steps only  *)
(* go on or begin without a request.                                       *)
(***************************************************************************)
LEMMA NoSecondEffect ==
    ASSUME StopInv, Onward, NEW t \in Tasks, after[t] # 0, NEW f \in Engines, at'[f] \in Before
    PROVE  ctx'[f].task # t
<1>1. t \in stopped /\ (at[f] \in Before => ctx[f].task # t)
  BY DEF StopInv, RequestOK
<1>2. at[f] = "idle" => Stopping(mem[f][t])
  BY <1>1 DEF StopInv, RequestOK, Stopping
<1> QED BY <1>1, <1>2 DEF Onward

(***************************************************************************)
(* Calm steps keep the invariant.                                          *)
(***************************************************************************)
LEMMA CalmKeeps ==
    ASSUME StopInv, Calm, Onward
    PROVE  StopInv'
<1>1. ASSUME NEW t \in Tasks PROVE RequestOK(t)'
  BY NoSecondEffect DEF StopInv, RequestOK, Calm, Onward
<1>2. ended' = ended
  BY DEF StopInv, EndOK, Calm, Ends
<1>3. ASSUME NEW t \in Tasks PROVE EndOK(t)'
  BY <1>2 DEF StopInv, EndOK, Calm, Onward
<1> QED BY <1>1, <1>3 DEF StopInv

(***************************************************************************)
(* What a save does to rows and copies.                                    *)
(***************************************************************************)
LEMMA SavedRows ==
    ASSUME AgentInv, NEW e \in Engines, NEW t \in Tasks, NEW m, Saved(e, t, m)
    PROVE  /\ \A u \in Tasks \ {t} : row'[u] = row[u] /\ mem'[e][u] = mem[e][u]
           /\ \/ row'[t] = row[t] /\ mem'[e][t] = mem[e][t]
              \/ row'[t] \in {row[t], m} /\ mem'[e][t] = m
<1>1. row \in [Tasks -> Task] /\ mem \in [Engines -> [Tasks -> Task]]
  BY DEF AgentInv, RowsOK
<1> QED BY <1>1 DEF Saved

(***************************************************************************)
(* The other methods keep the invariant: what they save holds the request  *)
(* of the copy, and a terminal copy they change is counted as reopened.    *)
(***************************************************************************)
LEMMA OrdinaryKeeps ==
    ASSUME Alone, AgentInv, StopInv, Onward,
           NEW e \in Engines, NEW t \in Tasks, NEW m, Ordinary(e, t, m)
    PROVE  StopInv'
<1>1. \A f \in Engines : f = e
  BY DEF Alone
<1>2. /\ \A u \in Tasks \ {t} : row'[u] = row[u] /\ mem'[e][u] = mem[e][u]
      /\ \/ row'[t] = row[t] /\ mem'[e][t] = mem[e][t]
         \/ row'[t] \in {row[t], m} /\ mem'[e][t] = m
  BY SavedRows DEF Ordinary
<1>3. at[e] # "down" /\ stopped' = stopped /\ after' = after /\ m.desired = mem[e][t].desired
  BY DEF Ordinary
<1>4. ASSUME NEW u \in Tasks PROVE RequestOK(u)'
  <2>1. u \in stopped => row[u].desired \in Stops /\ mem[e][u].desired \in Stops
    BY <1>3 DEF StopInv, RequestOK
  <2>2. u \in stopped => row'[u].desired \in Stops /\ mem'[e][u].desired \in Stops
    BY <1>2, <1>3, <2>1
  <2>3. after[u] # 0 => /\ after[u] = 1 /\ u \in stopped
                        /\ \A f \in Engines : at'[f] \in Before => ctx'[f].task # u
    BY NoSecondEffect DEF StopInv, RequestOK
  <2> QED BY <1>1, <1>3, <2>2, <2>3 DEF RequestOK
<1>5. ASSUME NEW u \in Tasks PROVE EndOK(u)'
  <2>1. ended' = ended \cup {v \in Tasks : row'[v].state \in Terminal}
    BY DEF Ordinary, Ends
  <2>2. /\ reopened \subseteq reopened'
        /\ \/ t \in reopened'
           \/ mem[e][t].state \in Terminal => mem'[e][t].state \in Terminal
    BY <1>2 DEF Ordinary, Reopens
  <2>3. /\ row[u].state \in Terminal => u \in ended
        /\ u \in ended \ reopened => row[u].state \in Terminal /\ mem[e][u].state \in Terminal
    BY <1>3 DEF StopInv, EndOK
  <2>4. ASSUME u \in ended' \ reopened'
        PROVE  row'[u].state \in Terminal /\ mem'[e][u].state \in Terminal
    <3>1. CASE u # t
      BY <1>2, <2>1, <2>2, <2>3, <2>4, <3>1
    <3>2. CASE u = t /\ row'[t] = row[t] /\ mem'[e][t] = mem[e][t]
      BY <2>1, <2>2, <2>3, <2>4, <3>2
    <3>3. CASE u = t /\ row'[t] \in {row[t], m} /\ mem'[e][t] = m
      BY <2>1, <2>2, <2>3, <2>4, <3>3
    <3> QED BY <1>2, <3>1, <3>2, <3>3
  <2> QED BY <1>1, <2>1, <2>4 DEF EndOK
<1> QED BY <1>4, <1>5 DEF StopInv

(***************************************************************************)
(* from_store keeps the invariant: the copy is the row.                    *)
(***************************************************************************)
LEMMA LoadKeeps ==
    ASSUME Alone, AgentInv, StopInv, NEW e \in Engines, FromStore(e)
    PROVE  StopInv'
<1>1. /\ mem'[e] = row /\ at'[e] = "idle"
      /\ UNCHANGED <<row, stopped, after, ended, reopened>>
  BY DEF FromStore, Goto, history, AgentInv, RowsOK, ControlOK
<1>2. \A f \in Engines : f = e
  BY DEF Alone
<1> QED BY <1>1, <1>2 DEF StopInv, RequestOK, EndOK, Before

(***************************************************************************)
(* create keeps the invariant: nobody asked a new task to stop.            *)
(***************************************************************************)
LEMMA CreateStops ==
    ASSUME Alone, AgentInv, StopInv, NEW e \in Engines, NEW t \in Tasks, Create(e, t)
    PROVE  StopInv'
<1> DEFINE m == [Absent EXCEPT !.state = "CREATED"]
<1>1. /\ Saved(e, t, m) /\ Stay /\ at[e] # "down" /\ row[t] = Absent
      /\ UNCHANGED <<stopped, after, ended, reopened>>
  BY DEF Create, Record, Saved, Reentrant, history
<1>2. t \notin stopped /\ after[t] = 0 /\ t \notin ended \ reopened
  BY <1>1 DEF StopInv, RequestOK, EndOK, Absent, Stops, Terminal
<1>3. m.state \notin Terminal
  BY DEF Absent, Terminal
<1> HIDE DEF m
<1>4. /\ \A u \in Tasks \ {t} : row'[u] = row[u] /\ mem'[e][u] = mem[e][u]
      /\ row'[t] \in {row[t], m}
  BY <1>1, SavedRows
<1>5. \A f \in Engines : f = e
  BY DEF Alone
<1>6. ASSUME NEW u \in Tasks PROVE RequestOK(u)' /\ EndOK(u)'
  <2>1. CASE u = t
    BY <1>1, <1>2, <1>3, <1>4, <2>1 DEF StopInv, RequestOK, EndOK
  <2>2. CASE u # t
    BY <1>1, <1>4, <1>5, <2>2 DEF StopInv, RequestOK, EndOK, Stay
  <2> QED BY <2>1, <2>2
<1> QED BY <1>6 DEF StopInv

(***************************************************************************)
(* queue and control keep the invariant: the request is taken back, or is  *)
(* in the copy, and in the row once it was accepted; a terminal copy is    *)
(* left alone.                                                             *)
(***************************************************************************)
LEMMA ControlStops ==
    ASSUME Alone, AgentInv, StopInv, NEW e \in Engines, NEW t \in Tasks,
           NEW d \in {"PAUSED", "RUNNING", "CANCELLED"}, NEW m, m.desired = d,
           Saved(e, t, m), mem' = [mem EXCEPT ![e][t] = m], Stay, Ends, at[e] # "down",
           mem[e][t].state \notin Terminal, UNCHANGED reopened,
           \/ d \notin Stops /\ stopped' = stopped \ {t}
           \/ d \in Stops /\ stopped' = stopped \cup {t} /\ row' = [row EXCEPT ![t] = m]
           \/ d \in Stops /\ stopped' = stopped,
           after' = IF t \in stopped' THEN after ELSE [after EXCEPT ![t] = 0]
    PROVE  StopInv'
<1>1. /\ \A u \in Tasks \ {t} : row'[u] = row[u] /\ mem'[e][u] = mem[e][u]
      /\ row'[t] \in {row[t], m} /\ mem'[e][t] = m
      /\ t \in stopped' => row'[t] = m \/ t \in stopped
  <2>1. row \in [Tasks -> Task] /\ mem \in [Engines -> [Tasks -> Task]]
    BY DEF AgentInv, RowsOK
  <2> QED BY <2>1, SavedRows
<1>2. \A f \in Engines : f = e
  BY DEF Alone
<1>3. t \notin ended \ reopened
  BY DEF StopInv, EndOK
<1>4. /\ \A u \in Tasks \ {t} : after'[u] = after[u] /\ (u \in stopped' <=> u \in stopped)
      /\ t \in stopped' => d \in Stops /\ after'[t] = after[t]
      /\ t \notin stopped' => after'[t] = 0
  BY DEF AgentInv, HistoryOK
<1>5. at' = at /\ ctx' = ctx
  BY DEF Stay
<1>6. ASSUME NEW u \in Tasks PROVE RequestOK(u)'
  <2>1. CASE u # t
    BY <1>1, <1>2, <1>4, <1>5, <2>1 DEF StopInv, RequestOK
  <2>2. CASE u = t
    BY <1>1, <1>2, <1>4, <1>5, <2>2 DEF StopInv, RequestOK
  <2> QED BY <2>1, <2>2
<1>7. ASSUME NEW u \in Tasks PROVE EndOK(u)'
  <2>1. ended' = ended \cup {v \in Tasks : row'[v].state \in Terminal}
    BY DEF Ends
  <2>2. CASE u # t
    BY <1>1, <1>2, <1>5, <2>1, <2>2 DEF StopInv, EndOK
  <2>3. CASE u = t
    <3>1. u \in ended' \ reopened' => row'[t] = m /\ m.state \in Terminal
      BY <1>1, <1>3, <2>1, <2>3 DEF StopInv, EndOK
    <3> QED BY <1>1, <1>2, <2>1, <2>3, <3>1 DEF EndOK
  <2> QED BY <2>2, <2>3
<1> QED BY <1>6, <1>7 DEF StopInv

(***************************************************************************)
(* An effect begins: it is the first since the request, and its step is    *)
(* past the places from which another could begin.                         *)
(***************************************************************************)
LEMMA ExecuteStops ==
    ASSUME Alone, AgentInv, StopInv, NEW e \in Engines, Execute(e)
    PROVE  StopInv'
<1> DEFINE t == ctx[e].task
<1>1. /\ at[e] = "execute" /\ at' = [at EXCEPT ![e] = "effect"] /\ ctx' = ctx
      /\ UNCHANGED <<row, mem, stopped, ended, reopened>>
      /\ after' = [after EXCEPT ![t] = IF t \in stopped /\ @ < 2 THEN @ + 1 ELSE @]
  BY DEF Execute, Goto
<1>2. t \in Tasks
  BY <1>1, StepGood DEF Places
<1>3. \A f \in Engines : f = e
  BY DEF Alone
<1>4. after[t] = 0
  BY <1>1, <1>2 DEF StopInv, RequestOK, Before
<1>5. at'[e] = "effect"
  BY <1>1 DEF AgentInv, ControlOK
<1>6. /\ \A u \in Tasks \ {t} : after'[u] = after[u]
      /\ after'[t] = IF t \in stopped THEN 1 ELSE 0
  BY <1>1, <1>2, <1>4 DEF AgentInv, HistoryOK
<1>7. ASSUME NEW u \in Tasks PROVE RequestOK(u)'
  BY <1>1, <1>3, <1>5, <1>6 DEF StopInv, RequestOK, Before
<1>8. ASSUME NEW u \in Tasks PROVE EndOK(u)'
  BY <1>1, <1>3, <1>5 DEF StopInv, EndOK
<1> QED BY <1>7, <1>8 DEF StopInv

(***************************************************************************)
(* Every step of a lone engine keeps the invariant.                        *)
(***************************************************************************)
LEMMA StepStops ==
    ASSUME Alone, AgentInv, StopInv, [Next]_vars
    PROVE  StopInv'
<1> USE DEF Labels, Before
\* The part of RecordChange and Reopens that the methods share.
<1>1. ASSUME NEW e \in Engines, NEW t \in Tasks, NEW m, Saved(e, t, m), at[e] # "down",
             m.desired = mem[e][t].desired, UNCHANGED <<stopped, after>>, Ends,
             Reopens(e, t) \/ (UNCHANGED reopened /\ m.state = mem[e][t].state),
             \/ Leave(e) \/ Stay
             \/ at[e] \in Before /\ \E l \in Labels : Goto(e, l)
      PROVE  StopInv'
  BY <1>1, MovesOnward, OrdinaryKeeps DEF Ordinary
\* Methods keep the request of a copy.
<1>2. ASSUME NEW e \in Engines, NEW t \in Tasks
      PROVE  /\ mem[e][t] \in Task
             /\ \A s : [mem[e][t] EXCEPT !.state = s].desired = mem[e][t].desired
             /\ \A p : [mem[e][t] EXCEPT !.phase = p].desired = mem[e][t].desired
             /\ \A s, p : [mem[e][t] EXCEPT !.state = s, !.phase = p].desired = mem[e][t].desired
             /\ Settled(mem[e][t]).desired = mem[e][t].desired
             /\ \A o : Follows(mem[e][t], o).desired = mem[e][t].desired
  <2>1. mem[e][t] \in Task
    BY DEF AgentInv, RowsOK
  <2> QED BY <2>1 DEF Task, Settled, Follows
<1>3. ASSUME NEW e \in Engines, NEW t \in Tasks, Queue(e, t) PROVE StopInv'
  <2> DEFINE m == Queued(mem[e][t])
  <2>1. m.desired = "RUNNING"
    BY <1>2 DEF Queued, Task
  <2>2. /\ Saved(e, t, m) /\ mem' = [mem EXCEPT ![e][t] = m] /\ Stay /\ Ends /\ at[e] # "down"
        /\ mem[e][t].state \notin Terminal /\ UNCHANGED reopened
        /\ stopped' = stopped \ {t} /\ after' = [after EXCEPT ![t] = 0]
    BY <1>3 DEF Queue, Record, Saved, Reentrant, MayQueue
  <2> HIDE DEF m
  <2> QED BY <2>1, <2>2, ControlStops DEF Stops
<1>4. ASSUME NEW e \in Engines, NEW i \in Intents, NEW x \in Tasks \cup {None},
             ControlIntent(e, i, x)
      PROVE  StopInv'
  <2>1. PICK t \in Tasks, d \in {"PAUSED", "RUNNING", "CANCELLED"} : Control(e, t, d)
    BY <1>4 DEF ControlIntent, Candidates, Intents
  <2> DEFINE m == [mem[e][t] EXCEPT !.state = Controlled(@, d), !.desired = d]
  <2>2. m.desired = d
    BY <1>2 DEF Task
  <2>3. /\ Saved(e, t, m) /\ mem' = [mem EXCEPT ![e][t] = m] /\ Stay /\ Ends /\ at[e] # "down"
        /\ mem[e][t].state \notin Terminal /\ UNCHANGED reopened
        /\ after' = IF t \in stopped' THEN after ELSE [after EXCEPT ![t] = 0]
    BY <1>4, <2>1 DEF Control, Record, Saved, ControlIntent, Reentrant
  <2>4. \/ d \notin Stops /\ stopped' = stopped \ {t}
        \/ d \in Stops /\ stopped' = stopped \cup {t} /\ row' = [row EXCEPT ![t] = m]
        \/ d \in Stops /\ stopped' = stopped
    BY <2>1 DEF Control, Record
  <2> HIDE DEF m
  <2> QED BY <2>2, <2>3, <2>4, ControlStops
<1>5. ASSUME NEW e \in Engines, NEW t \in Tasks, EvaluateGoal(e, t) PROVE StopInv'
  <2>1. PICK m \in {[mem[e][t] EXCEPT !.state = "COMPLETED"],
                    [mem[e][t] EXCEPT !.state = "RUNNING", !.phase = "REPLANNING"]} :
           Saved(e, t, m)
    BY <1>5 DEF EvaluateGoal, Record, Saved
  <2>2. m.desired = mem[e][t].desired
    <3>1. mem[e][t] \in Task
      BY <1>2
    <3> QED BY <3>1 DEF Task
  <2>3. Stay /\ Ends /\ Reopens(e, t) /\ UNCHANGED <<stopped, after>> /\ at[e] # "down"
    BY <1>5 DEF EvaluateGoal, Record, Reentrant
  <2> QED BY <1>1, <2>1, <2>2, <2>3
<1>6. ASSUME NEW e \in Engines, NEW t \in Tasks, NEW l \in BOOLEAN, Step(e, t, l) PROVE StopInv'
  <2>1. at[e] = "idle" /\ Ends /\ Reopens(e, t) /\ UNCHANGED <<stopped, after>>
    BY <1>6 DEF Step, Wait, Settle
  <2>2. CASE Wait(e, t, Stay)
    <3>1. Saved(e, t, [mem[e][t] EXCEPT !.state = "WAITING"]) /\ Stay
      BY <2>2 DEF Wait, Record, Saved
    <3> QED BY <1>1, <1>2, <2>1, <3>1
  <2>3. CASE Settle(e, t, Stay, Stay)
    <3>1. Saved(e, t, Settled(mem[e][t])) /\ Stay
      BY <2>3 DEF Settle, RecordChange, Record, Saved
    <3> QED BY <1>1, <1>2, <2>1, <3>1
  <2>4. ASSUME ~Stopping(mem[e][t]),
               RecordChange(e, t, [mem[e][t] EXCEPT !.state = "RUNNING", !.phase = "THINKING"],
                  /\ at' = [at EXCEPT ![e] = "think"]
                  /\ ctx' = [ctx EXCEPT ![e] = [task |-> t, action |-> None,
                                                leased |-> l, resource |-> FALSE]],
                  Stay)
        PROVE  StopInv'
    <3> DEFINE m == [mem[e][t] EXCEPT !.state = "RUNNING", !.phase = "THINKING"]
               c == [task |-> t, action |-> None, leased |-> l, resource |-> FALSE]
    <3>1. Saved(e, t, m) /\ m.desired = mem[e][t].desired
      BY <1>2, <2>4 DEF RecordChange, Record, Saved
    <3>2. Stay \/ (at' = [at EXCEPT ![e] = "think"] /\ ctx' = [ctx EXCEPT ![e] = c])
      BY <2>4 DEF RecordChange, Record
    <3>3. c.task = t
      OBVIOUS
    <3> HIDE DEF m, c
    <3>4. Onward
      <4>1. CASE Stay
        BY <2>1, <4>1, MovesOnward
      <4>2. CASE at' = [at EXCEPT ![e] = "think"] /\ ctx' = [ctx EXCEPT ![e] = c]
        BY <2>1, <2>4, <3>3, <4>2 DEF AgentInv, ControlOK, Onward
      <4> QED BY <3>2, <4>1, <4>2
    <3> QED BY <2>1, <3>1, <3>4, OrdinaryKeeps DEF Ordinary
  <2> QED BY <1>6, <2>2, <2>3, <2>4 DEF Step
<1>7. ASSUME NEW e \in Engines, NEW a \in Actions, Propose(e, a) PROVE StopInv'
  <2> DEFINE t == ctx[e].task
             m == [mem[e][t] EXCEPT !.phase = "AUTHORIZING"]
  <2>1. /\ at[e] = "think" /\ t \in Tasks /\ Ends /\ Reopens(e, t)
        /\ UNCHANGED <<stopped, after>>
    BY <1>7, StepGood DEF Propose, Places
  <2>2. Saved(e, t, m) /\ m.desired = mem[e][t].desired
    BY <1>2, <1>7, <2>1 DEF Propose, RecordChange, Record, Saved
  <2>3. Leave(e) \/ (at' = [at EXCEPT ![e] = "authorize"]
                     /\ ctx' = [ctx EXCEPT ![e].action = a])
    BY <1>7 DEF Propose, RecordChange, Record
  <2> HIDE DEF m
  <2>4. Onward
    <3>1. CASE Leave(e)
      BY <2>1, <3>1, MovesOnward
    <3>2. CASE at' = [at EXCEPT ![e] = "authorize"] /\ ctx' = [ctx EXCEPT ![e].action = a]
      <4>1. /\ ctx'[e].task = t
            /\ \A f \in Engines \ {e} : at'[f] = at[f] /\ ctx'[f] = ctx[f]
        BY <3>2 DEF AgentInv, ControlOK, Contexts
      <4>2. at'[e] = "authorize"
        BY <3>2 DEF AgentInv, ControlOK
      <4> QED BY <2>1, <4>1, <4>2 DEF Onward
    <3> QED BY <2>3, <3>1, <3>2
  <2> QED BY <2>1, <2>2, <2>4, OrdinaryKeeps DEF Ordinary
<1>8. ASSUME NEW e \in Engines, Authorize(e) PROVE StopInv'
  <2> DEFINE t == ctx[e].task
  <2>1. at[e] = "authorize" /\ t \in Tasks /\ Ends /\ UNCHANGED <<stopped, after>>
    BY <1>8, StepGood DEF Authorize, Places
  <2>2. CASE UNCHANGED <<row, mem, reopened>> /\ (Leave(e) \/ Goto(e, "prepare"))
    <3>1. Onward
      BY <2>1, <2>2, MovesOnward
    <3> QED BY <2>1, <2>2, <3>1, CalmKeeps DEF Calm
  <2>3. CASE /\ UNCHANGED <<row, mem, reopened>>
             /\ at' = [at EXCEPT ![e] = "prepare"]
             /\ ctx' = [ctx EXCEPT ![e].resource = TRUE]
    <3>1. /\ ctx'[e].task = t /\ at'[e] = "prepare"
          /\ \A f \in Engines \ {e} : at'[f] = at[f] /\ ctx'[f] = ctx[f]
      BY <2>3 DEF AgentInv, ControlOK, Contexts
    <3>2. Onward
      BY <2>1, <3>1 DEF Onward
    <3> QED BY <2>1, <2>3, <3>2, CalmKeeps DEF Calm
  <2>4. ASSUME NEW s \in {"BLOCKED", "WAITING"},
               \/ Update(e, t, [mem[e][t] EXCEPT !.state = s], Leave(e))
               \/ Wait(e, t, Leave(e)) /\ s = "WAITING"
        PROVE  StopInv'
    <3> DEFINE m == [mem[e][t] EXCEPT !.state = s]
    <3>1. Saved(e, t, m) /\ Leave(e) /\ Reopens(e, t)
      BY <2>4 DEF Update, Wait, RecordChange, Record, Saved
    <3>2. m.desired = mem[e][t].desired
      BY <1>2, <2>1
    <3> HIDE DEF m
    <3> QED BY <1>1, <2>1, <3>1, <3>2
  <2> QED BY <1>8, <2>2, <2>3, <2>4 DEF Authorize
<1>9. ASSUME NEW e \in Engines, Prepare(e) PROVE StopInv'
  <2> DEFINE t == ctx[e].task
  <2>1. /\ at[e] = "prepare" /\ t \in Tasks /\ Ends /\ UNCHANGED <<stopped, after, reopened>>
        /\ Saved(e, t, mem[e][t]) /\ (Goto(e, "executing") \/ Leave(e))
    BY <1>9, StepGood DEF Prepare, Record, Saved, Places
  <2> QED BY <1>1, <2>1
<1>10. ASSUME NEW e \in Engines, Refused(e) PROVE StopInv'
  <2> DEFINE t == ctx[e].task
  <2>1. /\ at[e] \in {"prepare", "execute"} /\ t \in Tasks /\ Ends /\ Reopens(e, t)
        /\ UNCHANGED <<stopped, after>>
        /\ Saved(e, t, [mem[e][t] EXCEPT !.state = "WAITING"]) /\ Leave(e)
    BY <1>10, StepGood DEF Refused, Wait, Record, Saved, Places
  <2> QED BY <1>1, <1>2, <2>1
<1>11. ASSUME NEW e \in Engines, Executing(e) PROVE StopInv'
  <2> DEFINE t == ctx[e].task
  <2>1. /\ at[e] = "executing" /\ t \in Tasks /\ Ends /\ Reopens(e, t)
        /\ UNCHANGED <<stopped, after>>
        /\ Saved(e, t, [mem[e][t] EXCEPT !.phase = "EXECUTING"])
        /\ Leave(e) \/ Goto(e, "execute")
    BY <1>11, StepGood DEF Executing, Update, RecordChange, Record, Saved, Places
  <2> QED BY <1>1, <1>2, <2>1
<1>12. ASSUME NEW e \in Engines, Outcome(e) PROVE StopInv'
  <2> DEFINE t == ctx[e].task
  <2>1. at[e] = "effect" /\ t \in Tasks /\ Ends /\ Reopens(e, t) /\ UNCHANGED <<stopped, after>>
    BY <1>12, StepGood DEF Outcome, Update, Places
  <2>2. PICK o : Saved(e, t, Follows(mem[e][t], o)) /\ (Goto(e, "settle") \/ Leave(e))
    BY <1>12 DEF Outcome, Update, RecordChange, Record, Saved
  <2>3. Onward
    BY <2>1, <2>2, MovesOnward DEF Goto
  <2>4. Follows(mem[e][t], o).desired = mem[e][t].desired
    BY <1>2, <2>1
  <2> QED BY <2>1, <2>2, <2>3, <2>4, OrdinaryKeeps DEF Ordinary
<1>13. ASSUME NEW e \in Engines, SettleStep(e) PROVE StopInv'
  <2> DEFINE t == ctx[e].task
  <2>1. /\ at[e] = "settle" /\ t \in Tasks /\ Ends /\ Reopens(e, t)
        /\ UNCHANGED <<stopped, after>>
        /\ Saved(e, t, Settled(mem[e][t])) /\ Leave(e)
    BY <1>13, StepGood DEF SettleStep, Settle, RecordChange, Record, Saved, Places
  <2> QED BY <1>1, <1>2, <2>1
<1>14. ASSUME NEW e \in Engines, NEW t \in Tasks, RecoverTask(e, t) PROVE StopInv'
  <2>1. /\ at[e] = "recover" /\ Ends /\ Reopens(e, t) /\ UNCHANGED <<stopped, after>>
        /\ Saved(e, t, Settled(mem[e][t])) /\ (Stay \/ Leave(e))
    BY <1>14 DEF RecoverTask, Settle, RecordChange, Record, Saved
  <2> QED BY <1>1, <1>2, <2>1
<1>15. ASSUME NEW e \in Engines, Crash(e) PROVE StopInv'
  <2>1. Onward
    BY <1>15, MovesOnward DEF Crash
  <2>2. Calm
    BY <1>15 DEF Crash, Calm, AgentInv, ControlOK, RowsOK
  <2> QED BY <2>1, <2>2, CalmKeeps
<1>16. ASSUME NEW e \in Engines,
              \/ BeginRecover(e) \/ EndRecover(e) \/ ProposeRaised(e) \/ Raise(e)
              \/ OutcomeRaised(e) \/ Finally(e)
       PROVE  StopInv'
  <2>1. at[e] # "down"
    BY <1>16 DEF BeginRecover, EndRecover, ProposeRaised, Raise, OutcomeRaised, Finally
  <2>2. \/ Leave(e)
        \/ /\ \E l \in Labels \ Before : at' = [at EXCEPT ![e] = l]
           /\ ctx' = ctx \/ ctx' = [ctx EXCEPT ![e] = NoStep]
    BY <1>16 DEF BeginRecover, EndRecover, ProposeRaised, Raise, OutcomeRaised, Finally, Goto
  <2>3. Calm
    BY <1>16 DEF BeginRecover, EndRecover, ProposeRaised, Raise, OutcomeRaised, Finally, Calm,
                 history
  <2> QED BY <2>1, <2>2, <2>3, MovesOnward, CalmKeeps
<1>17. CASE \/ \E e \in Engines : Register(e) \/ BuildManifest(e)
            \/ \E e \in Engines, d \in Observed : Observe(e, d)
            \/ \E t \in Tasks : LapseResource(t)
            \/ UNCHANGED vars
  <2>1. UNCHANGED <<at, ctx>> /\ Calm
    BY <1>17 DEF Register, BuildManifest, Observe, LapseResource, vars, code, Stay, Calm, history
  <2>2. Onward
    BY <2>1 DEF Onward
  <2> QED BY <2>1, <2>2, CalmKeeps
<1> QED
  BY <1>3, <1>4, <1>5, <1>6, <1>7, <1>8, <1>9, <1>10, <1>11, <1>12, <1>13, <1>14, <1>15, <1>16,
     <1>17, LoadKeeps, CreateStops, ExecuteStops DEF Next, EngineStep

(***************************************************************************)
(* For one engine, the strengthened invariant of requests and terminal     *)
(* tasks holds.                                                            *)
(***************************************************************************)
THEOREM StopsCorrect == Alone /\ Spec => []StopInv
<1> SUFFICES ASSUME Alone PROVE Spec => []StopInv
  OBVIOUS
<1>1. Init => StopInv
  BY DEF Init, StopInv, RequestOK, EndOK, Absent, Terminal
<1>2. AgentInv /\ StopInv /\ [Next]_vars => StopInv'
  BY StepStops
<1> QED BY <1>1, <1>2, InvariantCorrect, PTL DEF Spec

(***************************************************************************)
(* For one engine, at most one more effect of a task begins once a request *)
(* to pause or cancel it was accepted, until it is taken back.             *)
(***************************************************************************)
THEOREM StopsBounded == Alone /\ Spec => []StopIsBounded
<1>1. AgentInv /\ StopInv => StopIsBounded
  BY DEF AgentInv, HistoryOK, StopInv, RequestOK, StopIsBounded
<1>2. Spec => []AgentInv
  BY InvariantCorrect
<1>3. Alone /\ Spec => []StopInv
  BY StopsCorrect
<1> QED BY <1>1, <1>2, <1>3, PTL

(***************************************************************************)
(* For one engine, the row of a task keeps an accepted request to stop     *)
(* until somebody resumes or queues the task, although every save writes   *)
(* the whole row.                                                          *)
(***************************************************************************)
THEOREM StopsRemembered == Alone /\ Spec => []StopRemembered
<1>1. AgentInv /\ StopInv => StopRemembered
  BY DEF AgentInv, HistoryOK, StopInv, RequestOK, StopRemembered
<1>2. Spec => []AgentInv
  BY InvariantCorrect
<1>3. Alone /\ Spec => []StopInv
  BY StopsCorrect
<1> QED BY <1>1, <1>2, <1>3, PTL

(***************************************************************************)
(* For one engine, a task that was completed or cancelled stays so until a *)
(* method without a guard for terminal tasks works on it: queue and        *)
(* control never bring it back, through crashes and failed saves.          *)
(***************************************************************************)
THEOREM EndsKept == Alone /\ Spec => []EndedStaysEnded
<1>1. AgentInv /\ StopInv => EndedStaysEnded
  BY DEF AgentInv, HistoryOK, StopInv, EndOK, EndedStaysEnded
<1>2. Spec => []AgentInv
  BY InvariantCorrect
<1>3. Alone /\ Spec => []StopInv
  BY StopsCorrect
<1> QED BY <1>1, <1>2, <1>3, PTL
=============================================================================
