------------------------------ MODULE TaskAgent ------------------------------
(***************************************************************************)
(* TaskRuntime (runtime.py) and NativeAgentRunner.step (agent.py): the     *)
(* life of tasks under an agent's steps, with requests to pause, resume    *)
(* and cancel, decisions of the policy, world revisions and resources.     *)
(*                                                                         *)
(* An engine is one single-threaded process with its own copies of the     *)
(* tasks (mem) and of the world; each save writes the whole copy over the  *)
(* row.  A step is cut where it ends a transaction or calls code that is   *)
(* not its own: the model, which thinks, and the capability, which acts.   *)
(* Those two may themselves call the runtime, as the user's callbacks do,  *)
(* so requests arrive between steps, while the model thinks and while the  *)
(* capability acts.  A failing save raises: the copy has changed, the row  *)
(* has not.                                                                *)
(*                                                                         *)
(* Operations models the operation inside the step and FencedLease the     *)
(* leases; here a lease the step was given may turn out lost at each check.*)
(***************************************************************************)
EXTENDS Naturals, FiniteSets

CONSTANTS
    Engines, Tasks,
    None,       \* no task, no action, no policy
    Actions,    \* registered actions: capability, action, risk, domains, resource
    Policy,     \* the WorkspacePolicy of the tasks' workspace, or None
    Observed    \* world domains that observations are about

Domains == {"global_revision", "desktop", "workspace", "browser", "media", "tasks"}

Risks == {"READ", "REVERSIBLE", "MUTATING", "EXTERNAL", "DESTRUCTIVE"}

ASSUME AgentNoneAssumption == None \notin Tasks \cup Actions \cup Engines
ASSUME ActionsAssumption == \A a \in Actions :
    a.risk \in Risks /\ a.domains \subseteq Domains /\ a.resource \in BOOLEAN
ASSUME ObservedAssumption == Observed \subseteq Domains

VARIABLES
    row,        \* rows of tasks: state, desired state and phase
    mem,        \* TaskRuntime.tasks of each engine
    at,         \* where each engine is
    ctx,        \* the step it is in: task, action, lease given, resource lease taken
    required,   \* require_task_lease
    stale,      \* per engine: domains bumped in its world since its last manifest
    entity,     \* per engine: the objects, compared with that manifest
    resource,   \* the engine with the resource lease of each task, or None
    \* History, read by properties only:
    stopped,    \* tasks with an accepted request to stop, not taken back since
    after,      \* effects begun since that request; 2 stands for more
    ended,      \* tasks whose row was once terminal
    reopened,   \* tasks with a terminal copy on which a call without a guard was made
    leaked      \* tasks whose resource lease a crash or a failed release left behind

code == <<row, mem, at, ctx, required, stale, entity, resource>>
history == <<stopped, after, ended, reopened, leaked>>
vars == <<code, history>>

TaskState == {"ABSENT", "CREATED", "QUEUED", "RUNNING", "WAITING", "PAUSING", "PAUSED",
              "CANCELLING", "BLOCKED", "COMPLETED", "FAILED", "CANCELLED"}

TaskPhase == {"OBSERVING", "THINKING", "AUTHORIZING", "EXECUTING", "VERIFYING", "REPLANNING"}

Terminal == {"COMPLETED", "FAILED", "CANCELLED"}

Task == [state : TaskState, desired : {"CREATED", "RUNNING", "PAUSED", "CANCELLED"},
         phase : TaskPhase]

Stops == {"PAUSED", "CANCELLED"}

Absent == [state |-> "ABSENT", desired |-> "CREATED", phase |-> "OBSERVING"]

NoStep == [task |-> None, action |-> None, leased |-> FALSE, resource |-> FALSE]

Labels == {"down", "idle", "think", "authorize", "prepare", "executing", "execute", "effect",
           "settle", "finally", "recover"}

TypeOK ==
    /\ row \in [Tasks -> Task]
    /\ mem \in [Engines -> [Tasks -> Task]]
    /\ at \in [Engines -> Labels]
    /\ ctx \in [Engines -> [task : Tasks \cup {None}, action : Actions \cup {None},
                            leased : BOOLEAN, resource : BOOLEAN]]
    /\ required \in BOOLEAN
    /\ stale \in [Engines -> SUBSET Domains]
    /\ entity \in [Engines -> {"same", "changed", "unsaved"}]
    /\ resource \in [Tasks -> Engines \cup {None}]
    /\ stopped \subseteq Tasks /\ ended \subseteq Tasks /\ reopened \subseteq Tasks
    /\ leaked \subseteq Tasks
    /\ after \in [Tasks -> 0..2]
    \* A step knows its task, and from the policy's decision on its action.
    /\ \A e \in Engines :
         /\ at[e] \notin {"down", "idle", "recover"} =>
              ctx[e].task \in Tasks /\ mem[e][ctx[e].task].state # "ABSENT"
         /\ at[e] \notin {"down", "idle", "recover", "think"} => ctx[e].action \in Actions

-----------------------------------------------------------------------------

Goto(e, label) == at' = [at EXCEPT ![e] = label] /\ UNCHANGED ctx

\* The step returns, or an exception leaves it: through its finally clause, once it
\* has a resource lease.
Leave(e) ==
    IF ctx[e].resource
    THEN at' = [at EXCEPT ![e] = "finally"] /\ UNCHANGED ctx
    ELSE at' = [at EXCEPT ![e] = "idle"] /\ ctx' = [ctx EXCEPT ![e] = NoStep]

\* Nothing moves on: a call from outside the step, or from the model or capability.
Stay == UNCHANGED <<at, ctx>>

\* WorldRevisions.bump: a domain never moves without the global revision.
Bump(e, domain) == stale' = [stale EXCEPT ![e] = @ \cup {domain, "global_revision"}]

\* _touch and _record: the copy becomes m and is saved, or one of the saves raises.
Record(e, t, m, Then, Raised) ==
    /\ mem' = [mem EXCEPT ![e][t] = m]
    /\ Bump(e, "tasks")
    /\ \/ row' = [row EXCEPT ![t] = m] /\ Then
       \/ UNCHANGED row /\ Raised

\* A method that changes and saves only what is different.
RecordChange(e, t, m, Then, Raised) ==
    IF m = mem[e][t] THEN UNCHANGED <<row, mem, stale>> /\ Then
    ELSE Record(e, t, m, Then, Raised)

\* What a method without a guard for terminal tasks did to the copy.
Reopens(e, t) ==
    reopened' = IF mem[e][t].state \in Terminal /\ mem'[e][t].state \notin Terminal
                THEN reopened \cup {t} ELSE reopened

\* Rows that are terminal now are remembered.
Ends == ended' = ended \cup {t \in Tasks : row'[t].state \in Terminal}

\* TaskRuntime.wait
Wait(e, t, Then) ==
    /\ Record(e, t, [mem[e][t] EXCEPT !.state = "WAITING"], Then, Then)
    /\ Reopens(e, t)

\* TaskRuntime.update_runtime_state
Update(e, t, m, Then) ==
    /\ RecordChange(e, t, m, Then, Leave(e))
    /\ Reopens(e, t)

\* Mutant: a request to pause is overlooked.
StoppingIfCancelled(m) == m.desired = "CANCELLED"

\* What step, settle_control and recover ask of a task.
Stopping(m) == m.desired \in Stops

\* TaskRuntime.settle_control at a safe boundary
Settled(m) == IF Stopping(m) THEN [m EXCEPT !.state = m.desired] ELSE m

Settle(e, t, Then, Raised) ==
    /\ RecordChange(e, t, Settled(mem[e][t]), Then, Raised)
    /\ Reopens(e, t)

\* The calls that may come from outside a step, or from inside next_action or execute.
Reentrant(e) == at[e] \in {"idle", "think", "effect"}

Loaded(e, t) == mem[e][t].state # "ABSENT"

-----------------------------------------------------------------------------

Init ==
    /\ row = [t \in Tasks |-> Absent]
    /\ mem = [e \in Engines |-> [t \in Tasks |-> Absent]]
    /\ at = [e \in Engines |-> "down"]
    /\ ctx = [e \in Engines |-> NoStep]
    /\ required \in BOOLEAN
    /\ stale = [e \in Engines |-> {}]
    /\ entity = [e \in Engines |-> "same"]
    /\ resource = [t \in Tasks |-> None]
    /\ stopped = {} /\ ended = {} /\ reopened = {} /\ leaked = {}
    /\ after = [t \in Tasks |-> 0]

\* RecoveryCoordinator.from_store: tasks and world are read from the store.
FromStore(e) ==
    /\ at[e] = "down"
    /\ mem' = [mem EXCEPT ![e] = row]
    /\ Goto(e, "idle")
    /\ stale' = [stale EXCEPT ![e] = {}]
    /\ entity' = [entity EXCEPT ![e] = "same"]
    /\ UNCHANGED <<row, required, resource, history>>

Crash(e) ==
    /\ at[e] # "down"
    /\ at' = [at EXCEPT ![e] = "down"]
    /\ ctx' = [ctx EXCEPT ![e] = NoStep]
    /\ mem' = [mem EXCEPT ![e] = [t \in Tasks |-> Absent]]
    /\ leaked' = leaked \cup {t \in Tasks : resource[t] = e}
    /\ UNCHANGED <<row, required, stale, entity, resource, stopped, after, ended, reopened>>

\* recover(): once the operations are settled (Operations), every task with a request
\* to stop is at a safe boundary.  Each settles in a transaction of its own.
BeginRecover(e) ==
    /\ at[e] = "idle"
    /\ Goto(e, "recover")
    /\ UNCHANGED <<row, mem, required, stale, entity, resource, history>>

RecoverTask(e, t) ==
    /\ at[e] = "recover"
    /\ Loaded(e, t)
    /\ Settled(mem[e][t]) # mem[e][t]
    /\ Settle(e, t, Stay, Leave(e))
    /\ Ends
    /\ UNCHANGED <<required, entity, resource, stopped, after, leaked>>

EndRecover(e) ==
    /\ at[e] = "recover"
    /\ \A t \in Tasks : Loaded(e, t) => Settled(mem[e][t]) = mem[e][t]
    /\ Leave(e)
    /\ UNCHANGED <<row, mem, required, stale, entity, resource, history>>

-----------------------------------------------------------------------------
(* Calls of TaskRuntime and WorldModel from outside the step.              *)

Create(e, t) ==
    /\ Reentrant(e)
    /\ row[t] = Absent /\ \A f \in Engines : mem[f][t] = Absent
    /\ Record(e, t, [Absent EXCEPT !.state = "CREATED"], Stay, Stay)
    /\ UNCHANGED <<required, entity, resource, history>>

\* Mutant: a completed task may be queued.
MayQueueUnlessCancelled(m) == m.state # "CANCELLED"

MayQueue(m) == m.state \notin Terminal

\* Mutant: the state the task is in is stored as the one that was asked for.
QueuedAsDesired(m) == [m EXCEPT !.state = "QUEUED", !.desired = "QUEUED"]

\* Mutant: the old request stays.
QueuedOnly(m) == [m EXCEPT !.state = "QUEUED"]

Queued(m) == [m EXCEPT !.state = "QUEUED", !.desired = "RUNNING"]

\* TaskRuntime.queue
Queue(e, t) ==
    /\ Reentrant(e)
    /\ Loaded(e, t) /\ MayQueue(mem[e][t])
    /\ Record(e, t, Queued(mem[e][t]), Stay, Stay)
    /\ Ends
    /\ stopped' = stopped \ {t}
    /\ after' = [after EXCEPT ![t] = 0]
    /\ UNCHANGED <<required, entity, resource, reopened, leaked>>

\* The state control() moves a task in state s to.
Controlled(s, desired) ==
    CASE desired = "PAUSED" ->
           IF s = "RUNNING" THEN "PAUSING" ELSE IF s = "CANCELLING" THEN s ELSE "PAUSED"
      [] desired = "CANCELLED" ->
           IF s \in {"RUNNING", "PAUSING"} THEN "CANCELLING" ELSE "CANCELLED"
      [] desired = "RUNNING" ->
           IF s \in {"PAUSED", "PAUSING", "WAITING", "QUEUED", "CREATED"} THEN "RUNNING" ELSE s

\* TaskRuntime.control.  A terminal task is returned as it is.
Control(e, t, desired) ==
    /\ Loaded(e, t) /\ mem[e][t].state \notin Terminal
    /\ Record(e, t, [mem[e][t] EXCEPT !.state = Controlled(@, desired), !.desired = desired],
              /\ stopped' = IF desired \in Stops THEN stopped \cup {t} ELSE stopped \ {t}
              /\ Stay,
              /\ stopped' = IF desired \in Stops THEN stopped ELSE stopped \ {t}
              /\ Stay)
    /\ after' = IF t \in stopped' THEN after ELSE [after EXCEPT ![t] = 0]
    /\ Ends
    /\ UNCHANGED <<required, entity, resource, reopened, leaked>>

Intents == {"pause_task", "resume_task", "cancel_task"}

\* ControlIntentResolver.resolve, without an explicit task
Candidates(e, intent) ==
    {t \in Tasks : mem[e][t].state \in
        IF intent = "resume_task" THEN {"PAUSED", "PAUSING", "WAITING"}
        ELSE {"RUNNING", "QUEUED", "WAITING", "PAUSING", "CANCELLING"}}

\* resolve and apply: the named task, or the only one that can be meant.
ControlIntent(e, intent, explicit) ==
    LET chosen == IF explicit # None THEN {explicit} ELSE Candidates(e, intent)
        desired == CASE intent = "pause_task"  -> "PAUSED"
                     [] intent = "resume_task" -> "RUNNING"
                     [] intent = "cancel_task" -> "CANCELLED"
    IN
    /\ Reentrant(e)
    /\ Cardinality(chosen) = 1
    /\ \E t \in chosen : Control(e, t, desired)

\* TaskRuntime.evaluate_goal: all criteria have evidence, or some are missing.
EvaluateGoal(e, t) ==
    /\ Reentrant(e)
    /\ Loaded(e, t)
    /\ \/ Record(e, t, [mem[e][t] EXCEPT !.state = "COMPLETED"], Stay, Stay)
       \/ Record(e, t, [mem[e][t] EXCEPT !.state = "RUNNING", !.phase = "REPLANNING"], Stay, Stay)
    /\ Reopens(e, t)
    /\ Ends
    /\ UNCHANGED <<required, entity, resource, stopped, after, leaked>>

\* WorldModel.register: the object is replaced, saved, and the workspace revision moves.
\* When save_world_entity raises it does not.
Register(e) ==
    /\ Reentrant(e)
    /\ \/ Bump(e, "workspace") /\ entity' = [entity EXCEPT ![e] = "changed"]
       \/ /\ entity' = [entity EXCEPT ![e] = IF @ = "changed" THEN @ ELSE "unsaved"]
          /\ UNCHANGED stale
    /\ Stay
    /\ UNCHANGED <<row, mem, required, resource, history>>

\* WorldModel.observe, and relate, which counts as an observation of the workspace.
Observe(e, domain) ==
    /\ Reentrant(e)
    /\ domain # "global_revision"
    /\ Bump(e, domain)
    /\ Stay
    /\ UNCHANGED <<row, mem, required, entity, resource, history>>

\* build_manifest
BuildManifest(e) ==
    /\ at[e] = "idle"
    /\ stale' = [stale EXCEPT ![e] = {}]
    /\ entity' = [entity EXCEPT ![e] = "same"]
    /\ Stay
    /\ UNCHANGED <<row, mem, required, resource, history>>

-----------------------------------------------------------------------------
(* NativeAgentRunner.step.  Its manifest is the last one built.            *)

\* The step is refused, settles a request, or begins with the model's turn.
Step(e, t, leased) ==
    LET m == mem[e][t] IN
    /\ at[e] = "idle"
    /\ Loaded(e, t)
    /\ \/ required /\ ~leased /\ Wait(e, t, Stay)
       \/ /\ leased \/ ~required
          /\ Stopping(m)
          /\ Settle(e, t, Stay, Stay)
       \/ /\ leased \/ ~required
          /\ ~Stopping(m)
          /\ RecordChange(e, t, [m EXCEPT !.state = "RUNNING", !.phase = "THINKING"],
                /\ at' = [at EXCEPT ![e] = "think"]
                /\ ctx' = [ctx EXCEPT ![e] = [task |-> t, action |-> None,
                                              leased |-> leased, resource |-> FALSE]],
                Stay)
          /\ Reopens(e, t)
    /\ Ends
    /\ UNCHANGED <<required, entity, resource, stopped, after, leaked>>

\* next_action raised, or proposed what the registry does not know.
ProposeRaised(e) ==
    /\ at[e] = "think"
    /\ Leave(e)
    /\ UNCHANGED <<row, mem, required, stale, entity, resource, history>>

Propose(e, a) ==
    LET t == ctx[e].task IN
    /\ at[e] = "think"
    /\ RecordChange(e, t, [mem[e][t] EXCEPT !.phase = "AUTHORIZING"],
          /\ at' = [at EXCEPT ![e] = "authorize"]
          /\ ctx' = [ctx EXCEPT ![e].action = a],
          Leave(e))
    /\ Reopens(e, t)
    /\ Ends
    /\ UNCHANGED <<required, entity, resource, stopped, after, leaked>>

\* PolicyEngine.evaluate
Decision(a) ==
    CASE Policy = None                              -> "DENY"
      [] a.action \in Policy.denied_actions         -> "DENY"
      [] a.capability \notin Policy.allowed_capabilities -> "DENY"
      [] a.risk \in Policy.confirm_risks            -> "REQUIRE_CONFIRMATION"
      [] a.risk \in Policy.allow_risks              -> "ALLOW"
      [] OTHER                                      -> "DENY"

\* The policy's decision, and the resource lease the action needs.
Authorize(e) ==
    LET t == ctx[e].task
        a == ctx[e].action
    IN
    /\ at[e] = "authorize"
    /\ \/ /\ Decision(a) = "DENY"
          /\ Update(e, t, [mem[e][t] EXCEPT !.state = "BLOCKED"], Leave(e))
          /\ UNCHANGED resource
       \/ /\ Decision(a) = "REQUIRE_CONFIRMATION"
          /\ Update(e, t, [mem[e][t] EXCEPT !.state = "WAITING"], Leave(e))
          /\ UNCHANGED resource
       \* No task lease, no broker, or no room.
       \/ /\ Decision(a) = "ALLOW" /\ a.resource
          /\ Wait(e, t, Leave(e))
          /\ UNCHANGED resource
       \/ /\ Decision(a) = "ALLOW" /\ a.resource
          /\ ctx[e].leased
          /\ resource[t] = None
          /\ resource' = [resource EXCEPT ![t] = e]
          /\ at' = [at EXCEPT ![e] = "prepare"]
          /\ ctx' = [ctx EXCEPT ![e].resource = TRUE]
          /\ UNCHANGED <<row, mem, stale, reopened>>
       \* acquire raised.
       \/ /\ Decision(a) = "ALLOW" /\ a.resource
          /\ ctx[e].leased
          /\ Leave(e)
          /\ UNCHANGED <<row, mem, stale, reopened, resource>>
       \/ /\ Decision(a) = "ALLOW" /\ ~a.resource
          /\ Goto(e, "prepare")
          /\ UNCHANGED <<row, mem, stale, reopened, resource>>
    /\ Ends
    /\ UNCHANGED <<required, entity, stopped, after, leaked>>

\* Mutant: the workspace revision is not compared.
RevisionsMatchElsewhere(e) == stale[e] \cap (ctx[e].action.domains \ {"workspace"}) = {}

\* assert_revisions on the domains the action names.
RevisionsMatch(e) == stale[e] \cap ctx[e].action.domains = {}

\* validate_resource_lease_identity, when the step has a resource lease.
ResourceHeld(e) == ctx[e].resource => resource[ctx[e].task] = e

\* OperationRuntime.prepare: saves the task with its operation and moves the domain tasks.
Prepare(e) ==
    LET t == ctx[e].task IN
    /\ at[e] = "prepare"
    /\ RevisionsMatch(e) /\ ResourceHeld(e)
    /\ Record(e, t, mem[e][t], Goto(e, "executing"), Leave(e))
    /\ Ends
    /\ UNCHANGED <<required, entity, resource, stopped, after, reopened, leaked>>

\* LeaseLost or BudgetExceeded, at prepare; LeaseLost at execute.
Refused(e) ==
    /\ \/ at[e] = "prepare" /\ RevisionsMatch(e)
       \/ at[e] = "execute" /\ ctx[e].leased
    /\ Wait(e, ctx[e].task, Leave(e))
    /\ Ends
    /\ UNCHANGED <<required, entity, resource, stopped, after, leaked>>

\* Mutant: an exception misses the finally clause.
RaisePastFinally(e) ==
    /\ at[e] \in {"prepare", "execute"}
    /\ at' = [at EXCEPT ![e] = "idle"]
    /\ ctx' = [ctx EXCEPT ![e] = NoStep]
    /\ UNCHANGED <<row, mem, required, stale, entity, resource, history>>

\* StaleWorld, UnknownObject, PermissionError, an unknown capability, or a failed save of
\* the operation: nobody catches them.
Raise(e) ==
    /\ at[e] \in {"prepare", "execute"}
    /\ Leave(e)
    /\ UNCHANGED <<row, mem, required, stale, entity, resource, history>>

Executing(e) ==
    LET t == ctx[e].task IN
    /\ at[e] = "executing"
    /\ Update(e, t, [mem[e][t] EXCEPT !.phase = "EXECUTING"], Goto(e, "execute"))
    /\ Ends
    /\ UNCHANGED <<required, entity, resource, stopped, after, leaked>>

\* execute, until capability.execute is entered.
Execute(e) ==
    LET t == ctx[e].task IN
    /\ at[e] = "execute"
    /\ ResourceHeld(e) /\ RevisionsMatch(e)
    /\ Goto(e, "effect")
    /\ after' = [after EXCEPT ![t] = IF t \in stopped /\ @ < 2 THEN @ + 1 ELSE @]
    /\ UNCHANGED <<row, mem, required, stale, entity, resource, stopped, ended, reopened, leaked>>

\* Mutant: the task goes on whatever was asked meanwhile.
FollowsRegardless(m, o) == [m EXCEPT !.state = o.state, !.phase = o.phase, !.desired = "RUNNING"]

Follows(m, o) == [m EXCEPT !.state = o.state, !.phase = o.phase]

\* execute is over; the task follows the state of the operation.
Outcome(e) ==
    LET t == ctx[e].task IN
    /\ at[e] = "effect"
    /\ \E o \in {[state |-> "WAITING", phase |-> "VERIFYING"],
                 [state |-> "RUNNING", phase |-> "OBSERVING"],
                 [state |-> "RUNNING", phase |-> "REPLANNING"]} :
          Update(e, t, Follows(mem[e][t], o), Goto(e, "settle"))
    /\ Ends
    /\ UNCHANGED <<required, entity, resource, stopped, after, leaked>>

\* A save of the operation raised after the effect.
OutcomeRaised(e) ==
    /\ at[e] = "effect"
    /\ Leave(e)
    /\ UNCHANGED <<row, mem, required, stale, entity, resource, history>>

\* settle_control and flush_outbox at the end of the step
SettleStep(e) ==
    /\ at[e] = "settle"
    /\ Settle(e, ctx[e].task, Leave(e), Leave(e))
    /\ Ends
    /\ UNCHANGED <<required, entity, resource, stopped, after, leaked>>

\* The finally clause: the resource lease is released, or release raises.
Finally(e) ==
    LET t == ctx[e].task IN
    /\ at[e] = "finally"
    /\ \/ /\ resource' = [resource EXCEPT ![t] = IF @ = e THEN None ELSE @]
          /\ UNCHANGED leaked
       \/ /\ leaked' = IF resource[t] = e THEN leaked \cup {t} ELSE leaked
          /\ UNCHANGED resource
    /\ at' = [at EXCEPT ![e] = "idle"]
    /\ ctx' = [ctx EXCEPT ![e] = NoStep]
    /\ UNCHANGED <<row, mem, required, stale, entity, stopped, after, ended, reopened>>

\* Environment: a resource lease lapses, in the middle of a step too.
LapseResource(t) ==
    /\ resource[t] # None
    /\ resource' = [resource EXCEPT ![t] = None]
    /\ leaked' = leaked \ {t}
    /\ UNCHANGED <<row, mem, at, ctx, required, stale, entity, stopped, after, ended, reopened>>

-----------------------------------------------------------------------------

EngineStep(e) ==
    \/ ProposeRaised(e)
    \/ \E a \in Actions : Propose(e, a)
    \/ Authorize(e) \/ Prepare(e) \/ Refused(e) \/ Raise(e) \/ Executing(e) \/ Execute(e)
    \/ Outcome(e) \/ OutcomeRaised(e) \/ SettleStep(e) \/ Finally(e)
    \/ \E t \in Tasks : RecoverTask(e, t)
    \/ EndRecover(e)

Next ==
    \/ \E e \in Engines : FromStore(e) \/ Crash(e) \/ BeginRecover(e)
    \/ \E e \in Engines : \E t \in Tasks : Create(e, t) \/ Queue(e, t) \/ EvaluateGoal(e, t)
    \/ \E e \in Engines, i \in Intents, t \in Tasks \cup {None} : ControlIntent(e, i, t)
    \/ \E e \in Engines : Register(e) \/ BuildManifest(e)
    \/ \E e \in Engines, d \in Observed : Observe(e, d)
    \/ \E e \in Engines, t \in Tasks, l \in BOOLEAN : Step(e, t, l)
    \/ \E e \in Engines : EngineStep(e)
    \/ \E t \in Tasks : LapseResource(t)

Spec == Init /\ [][Next]_vars

-----------------------------------------------------------------------------

(***************************************************************************)
(* Once a request to pause or cancel was accepted, at most one more effect *)
(* of the task begins: the step that was under way when it arrived looks   *)
(* at the request only at its end, and no later step passes it, through    *)
(* failed saves, crashes and recoveries.  (One engine.)                    *)
(***************************************************************************)
StopIsBounded == \A t \in Tasks : after[t] <= 1

(***************************************************************************)
(* An accepted request to stop is not lost: until somebody resumes or      *)
(* queues the task its row keeps one, although every save of the step, of  *)
(* evaluate_goal and of recover() writes the whole row.  (One engine.)     *)
(***************************************************************************)
StopRemembered == \A t \in stopped : row[t].desired \in Stops

StateMeets(m) ==
    /\ m.state \in {"PAUSED", "PAUSING"} => m.desired = "PAUSED"
    /\ m.state = "CANCELLED" => m.desired = "CANCELLED"
    /\ m.state = "QUEUED" => m.desired = "RUNNING"

(***************************************************************************)
(* A task is never paused or cancelled without a request for just that,    *)
(* nor queued against one, in any row or copy: a claim cannot take a task  *)
(* that was stopped, and the state shown to the user is one that was asked *)
(* for.                                                                    *)
(***************************************************************************)
StateMeetsDesired ==
    /\ \A t \in Tasks : StateMeets(row[t])
    /\ \A e \in Engines, t \in Tasks : StateMeets(mem[e][t])

(***************************************************************************)
(* An effect whose action names the workspace revision begins only on      *)
(* objects the model saw: no object was replaced since the manifest, other *)
(* than by a register() whose own save failed.  And as every step moves    *)
(* the domain tasks itself, an action that names tasks or global_revision  *)
(* never begins.                                                           *)
(***************************************************************************)
EffectFresh ==
    [][\A e \in Engines : at[e] # "effect" /\ at'[e] = "effect" =>
          /\ "workspace" \in ctx[e].action.domains => entity[e] # "changed"
          /\ {"tasks", "global_revision"} \cap ctx[e].action.domains = {}]_vars

(***************************************************************************)
(* A task that was completed or cancelled only comes back after a method   *)
(* without a guard for terminal tasks (wait, update_runtime_state,         *)
(* settle_control, evaluate_goal) worked on it; queue() and control(), on  *)
(* whatever copy failed saves and restarts left, do not bring it back.     *)
(* (One engine.)                                                           *)
(***************************************************************************)
EndedStaysEnded == \A t \in ended \ reopened : row[t].state \in Terminal

(***************************************************************************)
(* On every way out of a step, early returns and exceptions included, its  *)
(* resource lease is given back; only a crash or a failing release leaves  *)
(* one behind until it lapses.                                             *)
(***************************************************************************)
ResourceReturned ==
    \A t \in Tasks : resource[t] # None /\ t \notin leaked =>
        \E e \in Engines : ctx[e].task = t /\ ctx[e].resource

(***************************************************************************)
(* A cancelled task is not acting: CANCELLED is only reached at a safe     *)
(* boundary, outside the capability's execute.                             *)
(***************************************************************************)
CancelledMeansStopped ==
    \A e \in Engines : at[e] = "effect" => row[ctx[e].task].state # "CANCELLED"
=============================================================================
