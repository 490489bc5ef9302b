---------------------------- MODULE MCSupervisor -----------------------------
(***************************************************************************)
(* An instance of Supervisor: four processes, two restarts.                *)
(***************************************************************************)
EXTENDS Supervisor
=============================================================================
