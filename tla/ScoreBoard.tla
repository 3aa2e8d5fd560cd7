----------------------------- MODULE ScoreBoard -----------------------------
(***************************************************************************)
(* What the grading server promises about "submitted / total": within one  *)
(* week the set of students with an accepted solution only grows, it never *)
(* holds more students than the table has slots, the number shown is the   *)
(* size of the set, and only a week switch clears it.  Locks, phases of    *)
(* the switch and the table layout are invisible here.                     *)
(***************************************************************************)
EXTENDS Naturals, FiniteSets

CONSTANTS Student,    \* student identifiers
          Capacity    \* number of students the board can hold

VARIABLES solved,     \* students with an accepted solution this week
          shown       \* the number reported to clients and to the dashboard

boardVars == <<solved, shown>>

Init == solved = {} /\ shown = 0

(* One more student gets an accepted solution. *)
Solve(s) ==
    /\ s \notin solved
    /\ Cardinality(solved) < Capacity
    /\ solved' = solved \cup {s}
    /\ shown' = Cardinality(solved')

(* The week is switched: the board starts over. *)
NewWeek == solved' = {} /\ shown' = 0

Next == NewWeek \/ \E s \in Student : Solve(s)

Spec == Init /\ [][Next]_boardVars
=============================================================================
