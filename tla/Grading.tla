------------------------------- MODULE Grading -------------------------------
(***************************************************************************)
(* What the sandbox promises.  A submission is taken by one of a fixed     *)
(* number of workers and graded once.  Its program runs at most once, and  *)
(* only while its worker has it in hand, and the grade is one its end      *)
(* deserves.  Compiler, wrapper, pipes and signals are invisible here.     *)
(*                                                                         *)
(* A job may be lost sight of while it is in hand.  Nothing is promised of *)
(* it from then on but that its program runs once and that it is graded    *)
(* once; of the other jobs everything still is.                            *)
(***************************************************************************)
EXTENDS Naturals, FiniteSets

CONSTANTS Job,         \* submissions
          NumThreads,  \* worker threads
          Ended        \* the ways a program may end, "exit0" among them

VARIABLES phase,       \* each job: "new", "taken" by a worker, "done"
          life,        \* its program: "none", "run", or how it ended
          grade,       \* its grade, "none" until it is done
          lost         \* jobs that were lost sight of

gradingVars == <<phase, life, grade, lost>>

Taken == {j \in Job : phase[j] = "taken"}

Init ==
    /\ phase = [j \in Job |-> "new"]
    /\ life = [j \in Job |-> "none"]
    /\ grade = [j \in Job |-> "none"]
    /\ lost = {}

(* A free worker takes a job. *)
Take(j) ==
    /\ phase[j] = "new"
    /\ Cardinality(Taken) < NumThreads
    /\ phase' = [phase EXCEPT ![j] = "taken"]
    /\ UNCHANGED <<life, grade>>

(* Whose program may run: the worker is there to wait for it. *)
MayRun(j) == phase[j] = "taken" \/ (j \in lost /\ phase[j] = "done")

Run(j) ==
    /\ MayRun(j)
    /\ life[j] = "none"
    /\ life' = [life EXCEPT ![j] = "run"]
    /\ UNCHANGED <<phase, grade>>

End(j) ==
    /\ MayRun(j)
    /\ life[j] = "run"
    /\ \E s \in Ended : life' = [life EXCEPT ![j] = s]
    /\ UNCHANGED <<phase, grade>>

(* No program has run, because it did not compile or could not be started; *)
(* it ended with 0 and its output is compared; it ended otherwise.         *)
Deserves(j, g) ==
    \/ g \in {"CE", "RE"} /\ life[j] = "none"
    \/ g \in {"AC", "WA"} /\ life[j] = "exit0"
    \/ g \in {"RE", "TLE"} /\ life[j] \in Ended \ {"exit0"}

Grade(j) ==
    /\ phase[j] = "taken"
    /\ \E g \in {"AC", "WA", "TLE", "RE", "CE"} :
         /\ j \in lost \/ Deserves(j, g)
         /\ grade' = [grade EXCEPT ![j] = g]
    /\ phase' = [phase EXCEPT ![j] = "done"]
    /\ UNCHANGED life

(* In the same step jobs in hand may be lost sight of. *)
Lose ==
    /\ lost \subseteq lost'
    /\ lost' \ lost \subseteq Taken

Step(j) == Take(j) \/ Run(j) \/ End(j) \/ Grade(j)

Next ==
    /\ Lose
    /\ (\E j \in Job : Step(j)) \/ UNCHANGED <<phase, life, grade>>

Spec == Init /\ [][Next]_gradingVars
=============================================================================
