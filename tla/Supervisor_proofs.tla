-------------------------- MODULE Supervisor_proofs --------------------------
(***************************************************************************)
(* The safety properties of the supervisor, for every deadline, number of  *)
(* processes and number of restarts.                                       *)
(***************************************************************************)
EXTENDS Supervisor, TLAPS

\* Ages begin at 0, or at -1 for None, and stay within their limit (TimePasses).
LEMMA AgesTyped ==
    ASSUME NEW limit \in Nat
    PROVE  /\ 0 \in Ages(limit) /\ -1 \in Ages(limit)
           /\ \A age \in Ages(limit) : Older(age, limit) \in Ages(limit)
  BY DEF Ages, Older

\* What restart() makes of a record, stopped before or not.
LEMMA RestartedFields ==
    ASSUME NEW r \in ServiceRecord
    PROVE  /\ Stopped(r) \in ServiceRecord
           /\ Stopped(r).generation = r.generation
           /\ Stopped(r).restart_count = r.restart_count
           /\ Restarted(r) \in ServiceRecord
           /\ Restarted(r).generation = r.generation + 1
           /\ Restarted(r).restart_count = r.restart_count + 1
           /\ Restarted(r).actual = r.actual
  <1>1. Stopped(r) \in ServiceRecord
    BY DEF Stopped, ServiceRecord, ServiceState
  <1>2. Stopped(r).generation = r.generation /\ Stopped(r).restart_count = r.restart_count
    BY DEF Stopped, ServiceRecord
  <1>3. r.generation + 1 \in Nat \ {0} /\ r.restart_count + 1 \in Nat
    BY DEF ServiceRecord
  <1>4. Restarted(r) \in ServiceRecord
    BY <1>3 DEF Restarted, ServiceRecord
  <1>5. /\ Restarted(r).generation = r.generation + 1
        /\ Restarted(r).restart_count = r.restart_count + 1
        /\ Restarted(r).actual = r.actual
    BY DEF Restarted, ServiceRecord
  <1> QED  BY <1>1, <1>2, <1>4, <1>5

\* A process that start() adds, with a record that has its type (Spawn).
LEMMA SpawnTyped ==
    ASSUME TypeOK, NEW r \in ServiceRecord, NEW L \in SUBSET live, Spawn(r, L)
    PROVE  TypeOK'
  <1>1. record' \in ServiceRecord
    <2>1. record' = r \/ record' = [actual |-> "STARTING", desired |-> r.desired,
                                   generation |-> r.generation,
                                   restart_count |-> r.restart_count,
                                   since_start |-> 0, since_beat |-> 0]
      BY DEF Spawn, ServiceRecord
    <2> QED  BY <2>1, AgesTyped, LimitsAssumption DEF ServiceRecord, ServiceState
  <1>2. proc' \in 0..MaxProcesses /\ live' \subseteq Processes
    BY SupervisorBounds DEF Spawn, TypeOK, Processes
  <1>3. spawned' \in [1..proc' -> [generation : Nat \ {0}, restarts : Nat]]
    <2>1. CASE proc' = proc /\ spawned' = spawned
      BY <2>1 DEF TypeOK
    <2>2. CASE spawned' = [p \in 1..(proc + 1) |->
                 IF p = proc + 1 THEN [generation |-> r.generation, restarts |-> r.restart_count]
                 ELSE spawned[p]] /\ proc' = proc + 1
      <3>1. [generation |-> r.generation, restarts |-> r.restart_count]
              \in [generation : Nat \ {0}, restarts : Nat]
        BY DEF ServiceRecord
      <3>2. \A p \in 1..(proc + 1) : p # proc + 1 => p \in 1..proc
        BY DEF TypeOK
      <3> QED  BY <2>2, <3>1, <3>2 DEF TypeOK
    <2> QED  BY <2>1, <2>2 DEF Spawn
  <1> QED  BY <1>1, <1>2, <1>3 DEF TypeOK

(***************************************************************************)
(* The record, the processes and what they were started under keep their   *)
(* types through every call of the supervisor.                             *)
(***************************************************************************)
THEOREM TypeCorrect == Spec => []TypeOK
  <1>1. Init => TypeOK
    BY AgesTyped, LimitsAssumption, SupervisorBounds
    DEF Init, TypeOK, ServiceRecord, ServiceState, Processes
  <1>2. TypeOK /\ [Next]_vars => TypeOK'
    <2> SUFFICES ASSUME TypeOK, [Next]_vars PROVE TypeOK'
      OBVIOUS
    <2>0. record \in ServiceRecord
      BY DEF TypeOK
    <2>1. CASE Start
      BY <2>0, <2>1, SpawnTyped DEF Start
    <2>2. CASE Stop \/ StopRaised
      BY <2>2 DEF Stop, StopRaised, Stopped, Stopping, AfterStop, TypeOK, ServiceRecord, ServiceState
    <2>3. CASE Restart
      <3>1. Restarted(record) \in ServiceRecord /\ Restarted(Stopped(record)) \in ServiceRecord
        BY <2>0, RestartedFields
      <3> QED  BY <2>3, <3>1, SpawnTyped DEF Restart, AfterStop
    <2>4. CASE Assess \/ Tick
      BY <2>4 DEF Assess, Tick, Ticked, TypeOK, ServiceRecord, ServiceState
    <2>5. CASE \E p \in DOMAIN spawned : MarkReady(p) \/ Heartbeat(p)
      BY <2>5, AgesTyped, LimitsAssumption
      DEF MarkReady, Heartbeat, Beat, TypeOK, ServiceRecord, ServiceState
    <2>6. CASE \E p \in live : Exit(p)
      BY <2>6 DEF Exit, TypeOK
    <2>7. CASE TimePasses
      BY <2>7, <2>0, AgesTyped, LimitsAssumption DEF TimePasses, TypeOK, ServiceRecord
    <2>8. CASE UNCHANGED vars
      BY <2>8 DEF vars, TypeOK
    <2> QED  BY <2>1, <2>2, <2>3, <2>4, <2>5, <2>6, <2>7, <2>8 DEF Next
  <1> QED  BY <1>1, <1>2, PTL DEF Spec

ProcessInv == OneProcess /\ StoppedIsDead

\* start() refuses while the known process runs, and stop() only says STOPPED once it is gone:
\* the two facts need each other.
LEMMA ProcessesKnown == Spec => []ProcessInv
  <1>1. Init => ProcessInv
    BY DEF Init, ProcessInv, OneProcess, StoppedIsDead
  <1>2. TypeOK /\ ProcessInv /\ [Next]_vars => ProcessInv'
    <2> SUFFICES ASSUME TypeOK, ProcessInv, [Next]_vars PROVE ProcessInv'
      OBVIOUS
    <2> USE DEF ProcessInv, OneProcess, StoppedIsDead
    <2>0. live \ {proc} = {}
      OBVIOUS
    <2>1. CASE Start
      <3>1. live = {}
        BY <2>1, <2>0 DEF Start, MayStart, Alive
      <3> QED  BY <2>1, <3>1 DEF Start, Spawn, TypeOK, ServiceRecord
    <2>2. CASE Stop
      BY <2>2, <2>0 DEF Stop, AfterStop, TypeOK, ServiceRecord
    <2>3. CASE StopRaised
      BY <2>3 DEF StopRaised, Stopping, TypeOK, ServiceRecord
    <2>4. CASE Restart
      <3>1. CASE ~Alive /\ Spawn(Restarted(record), live)
        <4>1. live = {}
          BY <3>1, <2>0 DEF Alive
        <4> QED  BY <3>1, <4>1 DEF Spawn, Restarted, TypeOK, ServiceRecord
      <3>2. CASE \E L \in AfterStop : Spawn(Restarted(Stopped(record)), L)
        <4>1. Spawn(Restarted(Stopped(record)), {})
          BY <3>2, <2>0 DEF AfterStop
        <4> QED  BY <4>1 DEF Spawn, Restarted, Stopped, TypeOK, ServiceRecord
      <3> QED  BY <2>4, <3>1, <3>2 DEF Restart
    <2>5. CASE Assess \/ Tick
      BY <2>5 DEF Assess, Tick, Ticked, TypeOK, ServiceRecord
    <2>6. CASE \E p \in DOMAIN spawned : MarkReady(p) \/ Heartbeat(p)
      BY <2>6 DEF MarkReady, Heartbeat, Beat, TypeOK, ServiceRecord
    <2>7. CASE (\E p \in live : Exit(p)) \/ TimePasses
      BY <2>7 DEF Exit, TimePasses, TypeOK, ServiceRecord
    <2>8. CASE UNCHANGED vars
      BY <2>8 DEF vars
    <2> QED  BY <2>1, <2>2, <2>3, <2>4, <2>5, <2>6, <2>7, <2>8 DEF Next
  <1> QED  BY <1>1, <1>2, TypeCorrect, PTL DEF Spec

(***************************************************************************)
(* At most one process of a service runs, and it is the one the supervisor *)
(* knows, for any limits and any number of starts and restarts.            *)
(***************************************************************************)
THEOREM ProcessesCorrect == Spec => []OneProcess
  <1>1. ProcessInv => OneProcess
    BY DEF ProcessInv
  <1> QED  BY <1>1, ProcessesKnown, PTL

(***************************************************************************)
(* A service recorded as STOPPED has no running process.                   *)
(***************************************************************************)
THEOREM StoppedCorrect == Spec => []StoppedIsDead
  <1>1. ProcessInv => StoppedIsDead
    BY DEF ProcessInv
  <1> QED  BY <1>1, ProcessesKnown, PTL

\* Only restart() moves the generation, and counts itself when it does.
GenerationInv ==
    /\ record.generation = record.restart_count + 1
    /\ \A p \in 1..proc : spawned[p].generation = spawned[p].restarts + 1

\* start() gives the new process the generation of the record it works on.
LEMMA SpawnCounts ==
    ASSUME TypeOK, GenerationInv, NEW r \in ServiceRecord, r.generation = r.restart_count + 1,
           NEW L, Spawn(r, L)
    PROVE  GenerationInv'
  <1>1. record'.generation = record'.restart_count + 1
    BY DEF Spawn, ServiceRecord
  <1>2. CASE UNCHANGED <<proc, spawned>>
    BY <1>1, <1>2 DEF GenerationInv
  <1>3. CASE /\ proc' = proc + 1
             /\ spawned' = [p \in 1..(proc + 1) |->
                   IF p = proc + 1
                   THEN [generation |-> r.generation, restarts |-> r.restart_count]
                   ELSE spawned[p]]
    <2>1. \A p \in 1..(proc + 1) : p = proc + 1 \/ p \in 1..proc
      BY DEF TypeOK
    <2> QED  BY <1>1, <1>3, <2>1 DEF GenerationInv
  <1> QED  BY <1>2, <1>3 DEF Spawn

\* Every step keeps what is known of generations and restarts.
LEMMA GenerationStep == TypeOK /\ GenerationInv /\ [Next]_vars => GenerationInv'
  <1> SUFFICES ASSUME TypeOK, GenerationInv, [Next]_vars PROVE GenerationInv'
    OBVIOUS
  <1>0. record \in ServiceRecord
    BY DEF TypeOK
  <1>1. CASE Start
    BY <1>0, <1>1, SpawnCounts DEF Start, GenerationInv
  <1>2. CASE Restart
    <2>1. /\ Restarted(record) \in ServiceRecord /\ Restarted(Stopped(record)) \in ServiceRecord
          /\ Restarted(record).generation = Restarted(record).restart_count + 1
          /\ Restarted(Stopped(record)).generation = Restarted(Stopped(record)).restart_count + 1
      BY <1>0, RestartedFields DEF GenerationInv, ServiceRecord
    <2> QED  BY <1>2, <2>1, SpawnCounts DEF Restart
  <1>3. CASE Stop \/ StopRaised \/ Assess \/ Tick \/ TimePasses
    BY <1>3 DEF Stop, StopRaised, Stopped, Stopping, Assess, Tick, TimePasses, TypeOK,
            ServiceRecord, GenerationInv
  <1>4. CASE \E p \in DOMAIN spawned : MarkReady(p) \/ Heartbeat(p)
    BY <1>4 DEF MarkReady, Heartbeat, Beat, TypeOK, ServiceRecord, GenerationInv
  <1>5. CASE (\E p \in live : Exit(p)) \/ UNCHANGED vars
    BY <1>5 DEF Exit, vars, GenerationInv
  <1> QED  BY <1>1, <1>2, <1>3, <1>4, <1>5 DEF Next

(***************************************************************************)
(* No report of a process from before the last restart() is accepted: two  *)
(* processes have the same generation only if no restart lies between      *)
(* them.                                                                   *)
(***************************************************************************)
THEOREM FencingCorrect == Spec => LateReportsFenced
  <1> DEFINE Fenced == \A p \in DOMAIN spawned :
          MarkReady(p) \/ Heartbeat(p) => spawned[p].restarts = record.restart_count
  <1>1. Init => GenerationInv
    BY DEF Init, GenerationInv
  <1>2. TypeOK /\ GenerationInv /\ [Next]_vars => [Fenced]_vars
    <2> SUFFICES ASSUME TypeOK, GenerationInv, NEW p \in DOMAIN spawned, Current(p)
                 PROVE  spawned[p].restarts = record.restart_count
      BY DEF MarkReady, Heartbeat
    <2>1. p \in 1..proc
      BY DEF TypeOK
    <2>2. spawned[p] \in [generation : Nat \ {0}, restarts : Nat] /\ record.restart_count \in Nat
      BY <2>1 DEF TypeOK, ServiceRecord
    <2> QED  BY <2>1, <2>2 DEF GenerationInv, Current
  <1> QED  BY <1>1, <1>2, GenerationStep, TypeCorrect, PTL DEF Spec, LateReportsFenced
=============================================================================
