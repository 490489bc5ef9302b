----------------------------- MODULE Supervisor ------------------------------
(***************************************************************************)
(* RuntimeSupervisor (supervisor.py) and one service it manages.           *)
(*                                                                         *)
(* The supervisor's methods are called by one thread.  The processes it    *)
(* starts run beside it: they exit when they like, and the reports they    *)
(* make (mark_ready, heartbeat, with the generation they were started      *)
(* under) may arrive late, even after the process is gone.  Times are kept *)
(* as ages, which stop counting once they are past their limit; -1 is      *)
(* None.  process_ok, transport_ok and functional_ok follow the state and  *)
(* are read by nobody; they are left out.                                  *)
(***************************************************************************)
EXTENDS Integers, FiniteSets

CONSTANTS
    StartupDeadline,     \* startup_deadline_s
    HeartbeatTimeout,    \* heartbeat_timeout_s
    MaxProcesses,        \* bound: processes started
    MaxRestarts          \* bound: calls of restart

ASSUME LimitsAssumption == StartupDeadline \in Nat /\ HeartbeatTimeout \in Nat
ASSUME SupervisorBounds == MaxProcesses \in Nat /\ MaxRestarts \in Nat

VARIABLES
    record,     \* the ServiceRecord
    proc,       \* _processes: number of the process last started, 0 for none
    live,       \* processes that are running
    spawned     \* per process ever started: the generation and restart_count of its start

vars == <<record, proc, live, spawned>>

ServiceState == {"REGISTERED", "STARTING", "RUNNING", "DEGRADED", "FAILED", "STOPPING",
                 "STOPPED"}

Processes == 1..MaxProcesses

\* Time since something happened: not yet, within the limit, or beyond it.
Ages(limit) == -1..(limit + 1)

ServiceRecord ==
    [actual : ServiceState, desired : {"RUNNING", "STOPPED"},
     generation : Nat \ {0}, restart_count : Nat,
     since_start : Ages(StartupDeadline), since_beat : Ages(HeartbeatTimeout)]

TypeOK ==
    /\ record \in ServiceRecord
    /\ proc \in 0..MaxProcesses
    /\ live \subseteq Processes
    /\ spawned \in [1..proc -> [generation : Nat \ {0}, restarts : Nat]]

-----------------------------------------------------------------------------

\* proc.poll() is None
Alive == proc \in live

\* register, of a service with a command
Init ==
    /\ record = [actual |-> "REGISTERED", desired |-> "RUNNING", generation |-> 1,
                 restart_count |-> 0, since_start |-> -1, since_beat |-> -1]
    /\ proc = 0
    /\ live = {}
    /\ spawned = [p \in {} |-> 0]

\* Mutant: start() looks at the recorded state instead of the process.
MayStartByState == record.actual # "RUNNING"

\* start() raises when the process it knows still runs.
MayStart == ~Alive

\* start(), with record r and processes L: a new process, or Popen raises.
Spawn(r, L) ==
    \/ /\ proc < MaxProcesses
       /\ proc' = proc + 1
       /\ live' = L \cup {proc + 1}
       /\ spawned' = [p \in 1..(proc + 1) |->
             IF p = proc + 1 THEN [generation |-> r.generation, restarts |-> r.restart_count]
             ELSE spawned[p]]
       /\ record' = [r EXCEPT !.actual = "STARTING", !.since_start = 0, !.since_beat = 0]
    \/ /\ record' = r
       /\ live' = L
       /\ UNCHANGED <<proc, spawned>>

Start == MayStart /\ Spawn(record, live)

\* Mutant: the process is not killed when it ignores terminate().
AfterStopUnforced == {live, live \ {proc}}

\* What can be left of the processes when stop() returns: terminate, or else kill, ended it.
AfterStop == {live \ {proc}}

Stopping(r) == [r EXCEPT !.desired = "STOPPED", !.actual = "STOPPING"]

Stopped(r) == [r EXCEPT !.desired = "STOPPED", !.actual = "STOPPED"]

Stop ==
    /\ record' = Stopped(record)
    /\ live' \in AfterStop
    /\ UNCHANGED <<proc, spawned>>

\* The process outlives even the wait after kill(), which raises TimeoutExpired out of
\* stop(), or out of restart() before it does anything else.
StopRaised ==
    /\ Alive
    /\ record' = Stopping(record)
    /\ UNCHANGED <<proc, live, spawned>>

Restarted(r) ==
    [r EXCEPT !.restart_count = @ + 1, !.generation = @ + 1, !.desired = "RUNNING"]

Restart ==
    /\ record.restart_count < MaxRestarts
    /\ \/ ~Alive /\ Spawn(Restarted(record), live)
       \/ Alive /\ \E L \in AfterStop : Spawn(Restarted(Stopped(record)), L)

\* assess: what a health check found, which may be out of date.
Assess ==
    /\ \E s \in {"FAILED", "DEGRADED", "RUNNING"} : record' = [record EXCEPT !.actual = s]
    /\ UNCHANGED <<proc, live, spawned>>

\* Mutant: the generation of a report is not compared.
CurrentAlways(p) == TRUE

\* A report of process p is not of an older generation.
Current(p) == spawned[p].generation = record.generation

MarkReady(p) ==
    /\ Current(p)
    /\ \E s \in {"RUNNING", "DEGRADED"} :
          record' = [record EXCEPT !.actual = s, !.since_beat = 0]
    /\ UNCHANGED <<proc, live, spawned>>

\* Mutant: a sign of life counts as a new start.
BeatRestartsClock(r) == [r EXCEPT !.since_beat = 0, !.since_start = 0]

Beat(r) == [r EXCEPT !.since_beat = 0]

Heartbeat(p) ==
    /\ Current(p)
    /\ record' = Beat(record)
    /\ UNCHANGED <<proc, live, spawned>>

\* Mutant: the process of a degraded service is not looked at.
ExitedUnlessDegraded == proc # 0 /\ ~Alive /\ record.actual # "DEGRADED"

\* proc is not None and proc.poll() is not None
Exited == proc # 0 /\ ~Alive

\* tick: the first of three findings counts.
Ticked(r) ==
    IF Exited THEN "FAILED"
    ELSE IF r.actual = "STARTING" /\ r.since_start > StartupDeadline THEN "FAILED"
    ELSE IF r.actual = "RUNNING" /\ r.since_beat > HeartbeatTimeout THEN "DEGRADED"
    ELSE r.actual

Tick ==
    /\ record' = [record EXCEPT !.actual = Ticked(record)]
    /\ UNCHANGED <<proc, live, spawned>>

\* Environment: a process exits; time passes.
Exit(p) ==
    /\ p \in live
    /\ live' = live \ {p}
    /\ UNCHANGED <<record, proc, spawned>>

Older(age, limit) == IF age \in 0..limit THEN age + 1 ELSE age

TimePasses ==
    /\ record' = [record EXCEPT !.since_start = Older(@, StartupDeadline),
                                !.since_beat = Older(@, HeartbeatTimeout)]
    /\ UNCHANGED <<proc, live, spawned>>

Next ==
    \/ Start
    \/ Stop \/ StopRaised
    \/ Restart
    \/ Assess
    \/ \E p \in DOMAIN spawned : MarkReady(p)
    \/ \E p \in DOMAIN spawned : Heartbeat(p)
    \/ Tick
    \/ \E p \in live : Exit(p)
    \/ TimePasses

Spec == Init /\ [][Next]_vars

\* tick() is called again and again, and time goes on.
FairSpec == Spec /\ WF_vars(Tick) /\ WF_vars(TimePasses)

-----------------------------------------------------------------------------

(***************************************************************************)
(* At most one process of the service runs, and it is the one the          *)
(* supervisor knows: through stops that could not kill it, restarts,       *)
(* health checks that were wrong, and starts after a failure.              *)
(***************************************************************************)
OneProcess == live \subseteq {proc}

(***************************************************************************)
(* A service recorded as STOPPED has no running process.                   *)
(***************************************************************************)
StoppedIsDead == record.actual = "STOPPED" => live = {}

(***************************************************************************)
(* A report of a process from before the last restart() is never accepted, *)
(* however late it arrives.  (Among processes started since, by start(),   *)
(* which keeps the generation, reports are not told apart.)                *)
(***************************************************************************)
LateReportsFenced ==
    [][\A p \in DOMAIN spawned :
          MarkReady(p) \/ Heartbeat(p) => spawned[p].restarts = record.restart_count]_vars

LooksAlive == proc # 0 /\ record.actual \in {"STARTING", "RUNNING", "DEGRADED"}

(***************************************************************************)
(* A service does not look alive for ever once its process is gone:        *)
(* whatever late reports and health checks say, tick() finds it FAILED, or *)
(* it was stopped or started again.                                        *)
(***************************************************************************)
DeathNoticed ==
    LooksAlive /\ live = {} ~> ~LooksAlive \/ live # {}

(***************************************************************************)
(* No start leaves its service STARTING for ever, whatever heartbeats its  *)
(* process sends: the deadline counts from that start.  A later start has  *)
(* a deadline of its own, so a caller that starts again before every       *)
(* tick() is not what this is about.                                       *)
(***************************************************************************)
StartupSettles ==
    \A p \in Processes :
        proc = p /\ record.actual = "STARTING" ~> proc # p \/ record.actual # "STARTING"
=============================================================================
