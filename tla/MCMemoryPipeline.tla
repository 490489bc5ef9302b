-------------------------- MODULE MCMemoryPipeline ---------------------------
(***************************************************************************)
(* Two pipelines on the same database, with batches shorter than the log.  *)
(***************************************************************************)
EXTENDS MemoryPipeline

CONSTANTS p1, p2, k1, k2
=============================================================================
