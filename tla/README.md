# TLA+ models of the Liandanlu Native Core

`liandanlu_native` is an agent runtime. Engines (processes) share one SQLite
database. They claim tasks under leases, run operations with effects on the
outside world through capabilities, record every step in a durable event log,
and feed a memory from that log. This directory models the parts whose
correctness depends on crashes, on several engines working on one database, and
on time.

## 1. Inventory

| Part (source) | State | Operations | Works with | What makes it correct |
|---|---|---|---|---|
| Task leases (`storage.py` 814-977, `runtime.py` `TaskScheduler`) | rows of `task_leases`; handles kept by engines | claim, renew, release, validate | task rows (which tasks are queued) | at most one valid handle per task; no handle becomes valid again; claims in order |
| Resource leases (`storage.py` 979-1163, `resources.py`) | rows of `resource_leases` | acquire, renew, release, two validations | agent step | leases in force fit the capacity; a label has one holder |
| Operation runtime (`runtime.py` 181-382) | `operations` rows and the engine's copies; budget of the task | prepare, execute, verify, recover | leases, capabilities, event log | the row knows of every effect; no effect twice; outcomes final; budget kept |
| Recovery (`recovery.py`) | none of its own | from_store, recover | operation runtime, task lifecycle | ends; settles what the crash left |
| Event log (`events.py`, `storage.py` 279-303, 561-648) | `event_outbox`, `events`, cursors | insert, dispatch, read, acknowledge | every save; consumers | each event once, in order; append-only; delivered |
| Memory (`memory.py`, `storage.py` 650-812) | `memory_records`, receipts, cursor; cache | run_once, commit, strategy support | event log | nothing skipped or remembered twice; one revision chain per key |
| Task lifecycle (`runtime.py` 385-548) | `tasks` rows and copies | create, queue, wait, control, settle, evaluate | agent, scheduler, recovery | terminal states are terminal; requests are not lost; states are what was asked for |
| Agent runner (`agent.py`) | none of its own | step | all of the above | a request to stop takes hold; resources released on every way out |
| In-memory scheduler (`runtime.py` 57-178) | two heaps, leases | submit, next, claim, renew, release | task lifecycle | as task leases |
| World model (`world.py`) | entities, relations, revisions | register, observe, relate, checks | operations, manifests | stale decisions are refused |
| Supervisor (`supervisor.py`) | service records, processes | start, stop, restart, assess, ready, heartbeat, tick | operating system | one process; late reports refused; a death is noticed |
| Desktop bridge client (`desktop_bridge.py`) | socket, session | connect, request, close, cleanup | a bridge process | a response is matched to its request and generation |
| Control, context, policy, capabilities, brain | little or none | pure decisions | agent | decision tables |

Hard to test, and listed line by line under `hazards` in `PROJECT.json`:
expired leases whose holders come back; timestamps read before the wait for the
write lock; saves that write the whole of a stale copy; copies that a failed save
left ahead of their row; a crash on either side of an effect; reads made before
the transaction that uses them (sqlite3 opens a transaction at the first write).

## 2. Modules

| Module | Models | Extends / instantiates |
|---|---|---|
| `FencedLease` | what a lease with generations promises (abstract) | |
| `TaskLeases` | the table `task_leases` | refines `FencedLease` |
| `ResourceLeases` | the table `resource_leases` | refines `FencedLease` |
| `ResourceBroker` | the broker's dictionary, given the same calls as the table | extends `ResourceLeases` |
| `Operations` | `OperationRuntime`, `RecoveryCoordinator` | takes the lease as `FencedLease` promises it |
| `TaskAgent` | `TaskRuntime`, `NativeAgentRunner.step`, control intents, policy, world revisions, manifest, recovery of tasks | takes operation and leases by their outcomes |
| `EventLog` | outbox and log with several dispatchers | |
| `MemoryPipeline` | the memory consumer | reads a log that `EventLog` shows to be in order and append-only |
| `Supervisor` | `RuntimeSupervisor` and the processes of one service | |
| `DesktopBridge` | `DesktopBridgeClient`, its connection, and the bridge (external) | |
| `*_proofs` | theorems about the module of that name | |
| `MC*` | instances for TLC | |

**TaskLeases / ResourceLeases.** One action is one method, which is one
transaction. `Readings` is the set of timestamps a transaction may work with: the
method read the clock at most `Delay` before the lock was its own (sqlite3 waits up to
five seconds). `issued` remembers every handle ever returned; any of them may be
used at any later time, so a slow, paused or duplicated engine is an engine that
uses an old handle. A refused call changes nothing and is not a step. A row that
does not exist is `NoRow`. `claimed_at` is not used by any decision and is left out.
`revived` remembers that a renewal brought back a lease that had already ended.

**ResourceBroker.** The dictionary a broker without a store keeps. `BrokerNext` gives
dictionary and table one call after the other, with the same timestamp, as
the parameter `now_ts` allows; `BrokerAgrees` compares what they hold and what they would
answer. A call the table refuses is given to the dictionary too.

**Operations.** The operations of one task. `db` is the table, `mem[e]` the copies
of engine `e`; `startedDb` and `started[e]` are the task's budget in the row and in
the copy. An action reaches to the end of one transaction or of one capability
call. `Record` has two outcomes: the save succeeds and the engine goes on, or it
raises, and then the copy has changed and the row has not. `effects` counts
entries into `capability.execute`; it is the outside world and no code reads it.
Capabilities may return, return None or raise; they are honest, which means that
evidence that passes is evidence of an effect that happened. `SaveTask` is any save of the
task row by `TaskRuntime`, which writes the budget too. Not in the model: arguments, evidence
texts, world checks (a refusal by them is one of the outcomes of `Validate` or of `Prepare`
not happening), and the deadline (it refuses like the count).

**TaskAgent.** Each engine has its copies of the tasks (`mem`), and every save writes
the whole copy over the row. `step()` is cut where a transaction ends and where it calls code
that is not its own: the model, which thinks, and the capability, which acts. Both may
call the runtime, so requests, registrations and observations arrive between steps
and in those two places (`Reentrant`). Every save may raise. The task lease is a
parameter of the step and may turn out lost at each check; the resource lease is held by
an engine and may lapse at any time. `stale[e]` is the set of world domains whose revision moved since
the engine's last manifest, which is all that `assert_revisions` can tell; `entity[e]` says
whether an object really was replaced. An action is what the registry resolves a proposal to: capability, name,
risk, revision domains, and whether it needs resources. `stopped`, `after`, `ended`, `reopened`, `leaked` are
history. Goals, wait reasons, evidence and object permissions are left out; a refused access is one of the
exceptions of `Raise`.

**Supervisor.** Times are ages that stop counting once past their limit. Processes
exit when they like; reports of any process ever started may arrive at any time.
`StopRaised` is the wait after `kill()` timing out. The states READY and RECOVERING are
assigned nowhere in the code.

**DesktopBridge.** Frames in two queues. The bridge reads in order and answers, refuses or
ignores each frame; it may restart with or without breaking the connection. A receive may give up between
frames, or inside one, after which the rest of that frame is read as a header and some frames are lost; a header whose
length is refused leaves its body in the stream to the same effect. A send that fails has lost the connection, or has timed
out and left the bridge a part of a frame, which it completes from whatever is sent next; what was sent before is still answered.
The generation in a response is the bridge's at the time it answers.

**EventLog.** `rows` and `pending` are the outbox, `events` the log, `flushing` the engines inside
`flush_outbox`. The code calls it at the end of a step that went through execute and at the end of
recover(); a step that returns early or raises does not, so `InsertOutbox` and `FlushOutbox` are independent
actions and a row may wait for any later call of any engine. `Select` and
`Commit` are separate because the SELECT of `dispatch_event_outbox` runs before
sqlite3 opens the transaction. An ignored INSERT uses up a number of the
AUTOINCREMENT column, so numbers have gaps. `Old` are rows of a schema without
`event_id`, which get a new id from whoever dispatches them.

**MemoryPipeline.** `run_once`, one action per statement or transaction that other processes
can get between. An event is the key it is about, or `NoCandidate` for everything
`_candidate_from_event` and `_validate` turn down. Values, confidence and strategy
states are left out.

## 3. Runs

| Run | Instance | Result |
|---|---|---|
| `task_fencing` | 2 tasks, 2 engines, terms 1 and 2, delay 1, clock to 3, 2 claims per task | passes: one valid handle, generations, refinement of `FencedLease` |
| `claim_order` | 4 tasks in two lanes with three priorities | passes: no claim passes over a better task |
| `resource_leases` | 3 tasks, 2 owners, two kinds of request, delay 1, 3 leases | passes: capacity and labels unless a lease was revived, grants fit, identity check, broker and table agree, refinement |
| `resource_late_renewal` | the same with one owner, 4 leases | **violated**, finding 1 |
| `operations` | 1 engine, 3 operations, budget of 2, 2 crashes, fair | passes: write-ahead, at most one effect, honest rows and events, budget, final outcomes, recovery settles and ends |
| `two_engines_abandon` | 2 engines, 2 operations | **violated**, finding 2 |
| `task_agent` | 1 engine, 1 task, five actions, unbounded steps and crashes | passes: stop is bounded and remembered, states meet requests, ended stays ended, resources returned, effects fresh |
| `early_cancelled` | the same | **violated**, finding 3 |
| `event_log` | 2 engines, 5 rows, 1 of the old schema, batches of 2, 2 failures, fair | passes: once, in order, append-only, delivered as long as `flush_outbox` is called |
| `memory_shared` | 2 pipelines, 2 keys, 3 events, batches of 2, 2 failures, fair | passes: none skipped, remembered once, one chain, cursor settles |
| `supervisor` | 4 processes, 2 restarts, limits of 2, fair | passes: one process, stopped is dead, late reports fenced, death noticed, each startup settles |
| `desktop_bridge` | 4 requests for 2 operations, 2 generations of the bridge | passes: own answer only, a given-up connection blocks |

**Why the bounds are enough.** A lease problem needs a lease, its end, a second
claim and the return of the first handle: two generations and a clock of three do
that with both terms. Three resource leases are needed for two that fit and one
that does not. Operations of a task interact through the budget and recover()
only: a budget of two and a third operation reach its limit; two crashes let a
recovery be cut short and repeated. Tasks of one engine share only the world's
revisions, which `Observe` moves as well as another task would, and the choice of `Candidates`, which
an explicit task id makes too: one task shows what two would. Its five actions take every branch of the policy,
need resources or not, and name a domain that the step leaves alone or one that it moves. Batches of two with more rows
than that make dispatchers and pipelines overlap in part. Four processes and two
restarts give starts with and without a restart between them. Four requests are enough for one that is
given up, one that is read a frame late, a retry, and one after a reconnect. Symmetry is used for owners
(`task_fencing`) and for tasks (`resource_leases`, `resource_late_renewal`),
which those modules only compare for equality; task ids of `TaskLeases` are ordered and
are not permuted.

**Fairness.** `Operations!FairSpec`: an engine inside a step or recover() goes on,
and capabilities return or raise; nothing forces a new step, a claim or a crash.
`EventLog!FairSpec`: an engine inside `flush_outbox` goes on; no engine is made to call it. `Delivered` has
as its antecedent that calls go on coming, and without it fails: rows of denied, waiting or settled steps stay pending
while no step gets to its end.
`MemoryPipeline!FairSpec`: run_once is called again and again. In these three the
number of failures is bounded, so liveness says what happens once failures stop.
`Supervisor!FairSpec`: tick() is called again and again, as its caller must for any of its checks
to mean something, and time passes; no report, health check or exit is forced, nor are they bounded.
`StartupSettles` speaks of one process at a time: its startup ends, or another start() replaces it.

**Findings.**
1. `renew_resource_lease` works with a timestamp read before it waited for the lock.
   If the lease ended during the wait and its resources were granted again, the
   renewal revives it and the capacity is exceeded. `FitsUnlessRevived` and `LabelsUnlessRevived`
   show that this is the only way.
2. `recover()` ignores leases and rows. A second engine's recovery can store
   CANCELLED, "no external execution was recorded", over an operation whose effect
   is taking place.
3. `control()` takes every state but RUNNING and PAUSING for a safe boundary. A second cancel of a
   CANCELLING task, or a cancel of a task that was queued again from within its step, stores
   CANCELLED while the capability acts or before it begins to.
   `StopIsBounded` limits the damage to that one effect.

**Two engines and the budget.** Budgets are checked and counted in copies. An engine that takes the lease over from
another one counts from the copy it had, and together they run more operations than `max_operations`, against
`src/README.md:27` ("bounded task operation/deadline budgets"). `BudgetRespected` is checked and proved for one engine;
in the instance of `two_engines_abandon` TLC finds it violated.

**A missing capability.** A capability that is no longer registered makes `recover_operation` raise KeyError, which ends
recover(). UNKNOWN operations behind it are not reconciled, although their own capability may be there, and every restart meets the
same operation first; `src/README.md:29` ("UNKNOWN -> reconcile recovery") makes no exception for that. `RecoveredMeansSettled` speaks of a
recover() that was not cut short.

**Facts a reader of the code should know**, each seen in a behaviour of the models and
contradicted by no line of the repository:
- Requests to stop that another engine stored are lost when an older copy is saved over them.
- Outbox rows of a step that returned early or raised are logged only when somebody later calls `flush_outbox`; nothing
  in the code makes that call come.
- An OBSERVED operation without a result is taken up by every recover() and settled by none.
- `wait`, `update_runtime_state`, `settle_control` and `evaluate_goal` bring terminal
  tasks back; `EndedStaysEnded` says that nothing else does.
- A pause after a cancel replaces it, while the state stays CANCELLING until the next safe boundary makes it PAUSED.
- A resumed task is RUNNING, and a claim takes QUEUED tasks only: somebody must step it directly.
- An action that names the domain tasks, or global_revision, never runs: its own step moves them.
- `register()` whose save fails leaves the object replaced and the revision as it was.
- `start()` keeps the generation, so a late report of the process before it is taken;
  `tick()` turns STOPPED into FAILED when the stopped process is looked at.
- After a request that timed out, the bridge client's connection stays one frame behind until it is closed.

## 4. Proofs

All theorems hold for every value of the constants that satisfies the named
assumptions, whatever the bounds.

- `TaskLeases_proofs`: `TypeCorrect`; `HistoryCorrect`; `FencingCorrect`;
  `Refinement`. Fencing is not inductive by itself. `LeaseHistory` is the
  strengthening: no handle carries a generation above its row's, and a task and a
  generation name one handle. Two valid handles both equal the row in owner and
  generation, so they are the same. For the refinement, a clock tick maps to the
  lapse of all leases that end with it; a renewal or claim with an old timestamp
  maps to a step on a lease that may already have lapsed.
  `ClaimOrderCorrect`: the task a claim chooses precedes every row that is free at its
  timestamp, and a task free for the whole delay is free at every timestamp a claim may work with.
- `ResourceLeases_proofs`: `TypeCorrect`, `HistoryCorrect`, `IdentityCorrect` and `Refinement` along
  the same argument, with the request of each generation. `LabelsCorrect`: as long as no
  lapsed lease was revived, whoever is granted a label excludes every row in force, for
  any delay. `CapacityCorrect` and `GrantsCorrect` say the same of the sums. The total of a set of requests is a fold
  over its members; its laws (`TotalStep`, `TotalSplit`, `TotalGrows`) are proved by a smallest
  counterexample: strict inclusion of finite sets is well-founded, so a law that fails somewhere fails at a smallest
  set, and does not. A grant adds its request to rows that are in force at an earlier or equal
  time, and fewer rows fit where more did. `BrokerIsTable` and `BrokerCorrect`: the dictionary holds exactly the rows of the table, and
  the same sums and labels admit the same requests.
- `Operations_proofs`, for any number of engines: `TypeCorrect`; `EffectsCorrect` and `VerifiedCorrect`, from
  `OnceInv`: only the engine that prepared an operation ever executes it, the effect waits for the row, and rows do not
  disappear, so that whatever other engines recover and save, no effect begins twice; `RecoveredCorrect`, from
  `RecoverOK`: inside recover() every operation that is off the list and not in hand is settled in the engine's own copies.
  The rest is for at most one engine (`Alone`), as finding 2 shows is necessary.
  `InvariantCorrect` proves `OperationInv`: a copy is never behind its row
  (`CopyOK`), and each label of the engine knows the state of its operation
  (`LabelOK`). `WriteAheadCorrect`, `EventsCorrect` and `OutcomeCorrect` follow. `BudgetCorrect` has its own invariant
  `BudgetInv`: the copy's count is at least the row's, and each is at least the number of operations
  its side knows of; so the cardinality of what was begun never passes the budget.
- `TaskAgent_proofs`: `InvariantCorrect`, `TypeCorrect`, `StatesMeetRequests`,
  `ResourcesReturned`, for any number of engines and tasks. `AgentInv` adds to the types what each place in a step
  knows: from the model's turn on there is a task, from the policy's decision on an action; a lease that is not left
  behind belongs to a step that says it has one; and each copy and row by itself meets its request, so that saving
  any copy over any row keeps that. `EffectsFresh`, also for any number of engines, adds `FreshOK`: revisions only move away from
  the manifest, a replaced object moves the workspace, and prepare itself moves tasks. For one engine (`Alone`): `StopsBounded`, `StopsRemembered`,
  `EndsKept` from `StopInv`. A request in the row is also in the copy, so every whole-row save keeps it and no new
  step passes it; an effect after it leaves no step before its own effect; and a task that ended is terminal in the
  copy, where queue and control look. With two engines an older copy is saved over the request, and these three fail.
- `MemoryPipeline_proofs`: `TypeCorrect`, `NoneSkippedCorrect`, `RememberedOnceCorrect`, `OneChainCorrect`, for any number of
  pipelines, keys and events. `OrderInv` is the strengthening: what a pipeline has read is a gapless part of the
  log that begins no later than the first event without a receipt, and an event has a receipt only once all before it do; so the newest record of a key is always
  the one to supersede, whatever the cache holds, and the revision is the number of records up to it.
- `EventLog_proofs`: `TypeCorrect`, `OrderCorrect`, `AppendCorrect` for any number
  of engines. `LogInv` is the strengthening: the log holds a prefix of the rows, and
  what an engine selected has no gap above the log. The numbers a commit gives out
  are counted, and `PlaceFacts` is the arithmetic of that.
- `Supervisor_proofs`: `TypeCorrect`; `ProcessesCorrect` and `StoppedCorrect`, which need each other
  (`ProcessInv`); `FencingCorrect` from `GenerationInv`: a generation is one more than the restarts before it.
- `DesktopBridge_proofs`: `TypeCorrect`; `AnswersCorrect`, from the invariant that every response on its way was
  made by the bridge; `GivenUpCorrect`, from `BehindInv`: as long as no frame was skipped (ignored, torn, refused for its
  length or misread by the bridge), the answer to the last
  request can only be the last frame under way, and a request that was given up leaves a frame in front of it.

Assumptions: constants have their types, None and NoOwner are not members, limits
and terms are positive, the set of operations and of resource-holding tasks is
finite.

Every invariant and action property of a passing run is now stated by a theorem. Only model-checked: liveness (`RecoverEnds`,
`Delivered`, `CursorSettles`, `DeathNoticed`, `StartupSettles`), which is outside what the proof system does. The runs remain the
check that the models do something: that every action happens, and that each property fails when the code is changed.

## 5. Not modelled

- The in-memory scheduler: the heaps `TaskScheduler` uses without a store. Every engine with a
  database goes through the lease table instead.
- Strategy support in `memory.py` and commits without a source event: sequential methods that nothing in the
  pipeline reads.
- The lists `EventStore` uses without a store, kept for unit tests by its own comment.
- Object permissions and the scoring of referents (pure), the capability registry (static), the brain
  counters (used nowhere).
- Framing, peer credentials, JSON, and the probe and removal of stale sockets: I/O. The removal is not atomic: a bridge that
  binds between probe and unlink loses its socket.
- Schema migration beyond rows without `event_id`.
- Runtimes without a store: their checks of leases are skipped, and a crash loses everything.

## 6. Plan

1. Two engines in `TaskAgent`, with the lease table, to say exactly which requests whole-row saves lose.
2. What of `EventTellsState` and `BudgetRespected` is left with several engines, as an invariant that can be proved.
3. Strategy support, with several processes.
