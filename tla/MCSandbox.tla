----------------------------- MODULE MCSandbox -----------------------------
(* Model-checking instance of Sandbox.  No symmetry: one run checks safety *)
(* and liveness together.                                                  *)
EXTENDS Sandbox
=============================================================================
