----------------------------- MODULE MCJobQueue -----------------------------
(* Model-checking instance of JobQueue.  No symmetry: one run checks       *)
(* safety, the refinement and liveness together.                           *)
EXTENDS JobQueue
=============================================================================
