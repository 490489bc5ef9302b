----------------------------- MODULE MCEventLog ------------------------------
(***************************************************************************)
(* Two engines flush one outbox, with and without a row of the older       *)
(* schema, in batches smaller than the outbox.                             *)
(***************************************************************************)
EXTENDS EventLog

CONSTANTS d1, d2
=============================================================================
