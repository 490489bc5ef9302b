---------------------------- MODULE MCOperations -----------------------------
(***************************************************************************)
(* Instances of Operations: one engine, or two that share the database,    *)
(* and three operations, of which the third may miss its capability.       *)
(***************************************************************************)
EXTENDS Operations

CONSTANTS e1, e2, p1, p2, p3

SomeMissing == {{p1, p2, p3}, {p1, p2}}
PairInstalled == {{p1, p2}}
=============================================================================
