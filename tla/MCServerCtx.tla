---------------------------- MODULE MCServerCtx ----------------------------
(* Model-checking instance of ServerCtx.  Workers and students are         *)
(* interchangeable in every definition, so safety is checked up to         *)
(* permutations of each; weeks are not, the first one is special.          *)
EXTENDS ServerCtx, TLC

Symmetry == Permutations(Worker) \cup Permutations(Student)
=============================================================================
