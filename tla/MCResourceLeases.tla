-------------------------- MODULE MCResourceLeases ---------------------------
(***************************************************************************)
(* Small instances of ResourceBroker: two CPU units, two of memory and one *)
(* GPU.  Any two requests fit together by their sizes, three never do; two *)
(* that drive the screen exclude each other by their label.                *)
(***************************************************************************)
EXTENDS ResourceBroker, TLC

CONSTANTS t1, t2, t3, o1, o2

Screen == [units |-> [i \in Dims |-> IF i = "cpu_units" THEN 1 ELSE 0],
           exclusive_labels |-> {"screen"}]
Heavy == [units |-> [i \in Dims |-> IF i = "gpu_units" THEN 0 ELSE 1],
          exclusive_labels |-> {}]

MCRequests == {Screen, Heavy}
MCCapacity == [i \in Dims |-> IF i = "gpu_units" THEN 1 ELSE 2]
Symmetry == Permutations({t1, t2, t3}) \cup Permutations({o1, o2})
=============================================================================
