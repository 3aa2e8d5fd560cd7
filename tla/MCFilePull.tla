----------------------------- MODULE MCFilePull -----------------------------
(* Model-checking instance of FilePull.  No symmetry: one run checks       *)
(* safety and liveness together.                                           *)
EXTENDS FilePull
=============================================================================
