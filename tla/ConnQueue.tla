------------------------------ MODULE ConnQueue ------------------------------
(***************************************************************************)
(* What the server promises to the clients that connect: each connection   *)
(* is put at the end of one queue, goes to exactly one worker, in the      *)
(* order of arrival, and stays with that worker until it is closed.  The   *)
(* ring buffer, its condition variable and the reuse of socket descriptors *)
(* are invisible here.                                                     *)
(***************************************************************************)
EXTENDS Naturals, Sequences

CONSTANTS Worker     \* worker threads

VARIABLES arrived,   \* connections so far, numbered from 1 in order of arrival
          queue,     \* connections that wait for a worker
          serving    \* the connection each worker serves, 0 for none

queueVars == <<arrived, queue, serving>>

Init ==
    /\ arrived = 0
    /\ queue = <<>>
    /\ serving = [w \in Worker |-> 0]

(* One more client connects. *)
Arrive ==
    /\ arrived' = arrived + 1
    /\ queue' = Append(queue, arrived')
    /\ UNCHANGED serving

(* A free worker takes the connection that has waited longest. *)
Take(w) ==
    /\ serving[w] = 0
    /\ queue # <<>>
    /\ serving' = [serving EXCEPT ![w] = Head(queue)]
    /\ queue' = Tail(queue)
    /\ UNCHANGED arrived

(* The worker closes its connection. *)
Finish(w) ==
    /\ serving[w] # 0
    /\ serving' = [serving EXCEPT ![w] = 0]
    /\ UNCHANGED <<arrived, queue>>

Next == Arrive \/ \E w \in Worker : Take(w) \/ Finish(w)

Spec == Init /\ [][Next]_queueVars
=============================================================================
