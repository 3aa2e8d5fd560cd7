------------------------------ MODULE MCWatch ------------------------------
(* Model-checking instance of Watch.  Files differ by their place on the   *)
(* command line, so there is no symmetry.                                  *)
EXTENDS Watch
=============================================================================
