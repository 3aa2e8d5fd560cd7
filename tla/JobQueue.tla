------------------------------ MODULE JobQueue ------------------------------
(***************************************************************************)
(* How connections get from the main thread to the worker threads of       *)
(* server/server.c: the ring buffer job_queue with its mutex and condition *)
(* variable, and the life of a socket descriptor from accept to close.     *)
(*                                                                         *)
(* q_head, q_tail, q_count and job_queue are only touched under q_mutex,   *)
(* so a critical section is one action.  enqueue_job compares q_count with *)
(* nothing: the capacity is kept by how many clients are connected at      *)
(* once, or not at all.                                                    *)
(***************************************************************************)
EXTENDS Integers, Sequences, FiniteSets

CONSTANTS
    Worker,       \* worker threads (NUM_THREADS of them)
    Fd,           \* descriptors the process can have open for clients
    MaxQueue,     \* MAX_QUEUE, the slots of the ring buffer
    MaxClients,   \* clients connected to the server at once
    MaxConns,     \* bound: connections accepted
    NoFd          \* no descriptor

ASSUME QueueAssumption ==
    /\ MaxQueue \in Nat \ {0}
    /\ MaxClients \in Nat
    /\ MaxConns \in Nat
    /\ IsFiniteSet(Fd) /\ IsFiniteSet(Worker)
    /\ NoFd \notin Fd

VARIABLES
    job_queue,    \* the ring buffer of descriptors
    q_head,       \* slot the next worker takes
    q_tail,       \* slot the next connection goes to
    q_count,      \* connections in the ring buffer
    pc,           \* where each worker is in worker_thread_loop
    sock,         \* the descriptor each worker serves
    conn,         \* the connection open on each descriptor, 0 if it is closed
    accepted      \* connections accepted so far (bounded)

ringVars == <<job_queue, q_head, q_tail, q_count>>
vars == <<ringVars, pc, sock, conn, accepted>>

RingSlots == 0..(MaxQueue - 1)

NextSlot(i) == (i + 1) % MaxQueue

OpenFds == {f \in Fd : conn[f] # 0}
Asleep  == {w \in Worker : pc[w] = "wait"}
Awake   == {w \in Worker : pc[w] = "dequeue"}

Init ==
    /\ job_queue = [i \in RingSlots |-> NoFd]
    /\ q_head = 0 /\ q_tail = 0 /\ q_count = 0
    /\ pc = [w \in Worker |-> "dequeue"]
    /\ sock = [w \in Worker |-> NoFd]
    /\ conn = [f \in Fd |-> 0]
    /\ accepted = 0

-----------------------------------------------------------------------------
(* The main thread.                                                        *)

(* Mutant: no worker is woken. *)
SignalNobody == UNCHANGED pc

(* pthread_cond_signal wakes one sleeping worker if there is one. *)
Signal ==
    \/ Asleep = {} /\ UNCHANGED pc
    \/ \E w \in Asleep : pc' = [pc EXCEPT ![w] = "dequeue"]

(* A client connects: accept picks a closed descriptor and enqueue_job     *)
(* puts it into the ring buffer.                                           *)
Accept(f) ==
    /\ accepted < MaxConns
    /\ Cardinality(OpenFds) < MaxClients
    /\ f \notin OpenFds
    /\ accepted' = accepted + 1
    /\ conn' = [conn EXCEPT ![f] = accepted']
    /\ job_queue' = [job_queue EXCEPT ![q_tail] = f]
    /\ q_tail' = NextSlot(q_tail)
    /\ q_count' = q_count + 1
    /\ Signal
    /\ UNCHANGED <<q_head, sock>>

-----------------------------------------------------------------------------
(* The worker threads.                                                     *)

(* Mutant: a woken worker does not look at q_count again. *)
TakeJobUnchecked(w) ==
    /\ pc[w] = "dequeue"
    /\ sock' = [sock EXCEPT ![w] = job_queue[q_head]]
    /\ q_head' = NextSlot(q_head)
    /\ q_count' = q_count - 1
    /\ pc' = [pc EXCEPT ![w] = "serve"]
    /\ UNCHANGED <<job_queue, q_tail, conn, accepted>>

(* Mutant: the newest connection is taken, not the oldest. *)
TakeJobNewest(w) ==
    /\ pc[w] = "dequeue"
    /\ q_count > 0
    /\ q_tail' = (q_tail + MaxQueue - 1) % MaxQueue
    /\ sock' = [sock EXCEPT ![w] = job_queue[q_tail']]
    /\ q_count' = q_count - 1
    /\ pc' = [pc EXCEPT ![w] = "serve"]
    /\ UNCHANGED <<job_queue, q_head, conn, accepted>>

(* dequeue_job finds a connection: the worker leaves with its descriptor. *)
TakeJob(w) ==
    /\ pc[w] = "dequeue"
    /\ q_count > 0
    /\ sock' = [sock EXCEPT ![w] = job_queue[q_head]]
    /\ q_head' = NextSlot(q_head)
    /\ q_count' = q_count - 1
    /\ pc' = [pc EXCEPT ![w] = "serve"]
    /\ UNCHANGED <<job_queue, q_tail, conn, accepted>>

(* dequeue_job finds none: q_mutex is given up and the worker sleeps. *)
WaitForJob(w) ==
    /\ pc[w] = "dequeue"
    /\ q_count = 0
    /\ pc' = [pc EXCEPT ![w] = "wait"]
    /\ UNCHANGED <<ringVars, sock, conn, accepted>>

(* pthread_cond_wait may return without a signal. *)
SpuriousWakeup(w) ==
    /\ pc[w] = "wait"
    /\ pc' = [pc EXCEPT ![w] = "dequeue"]
    /\ UNCHANGED <<ringVars, sock, conn, accepted>>

(* Mutant: on some path the connection is left open. *)
HandleClientKeepsOpen(w) ==
    /\ pc[w] = "serve"
    /\ conn' \in {conn, [f \in Fd |-> IF f = sock[w] THEN 0 ELSE conn[f]]}
    /\ sock' = [sock EXCEPT ![w] = NoFd]
    /\ pc' = [pc EXCEPT ![w] = "dequeue"]
    /\ UNCHANGED <<ringVars, accepted>>

(* handle_client: whatever becomes of the request, its descriptor is       *)
(* closed, once, before the next connection is taken.                      *)
HandleClient(w) ==
    /\ pc[w] = "serve"
    /\ conn' = [f \in Fd |-> IF f = sock[w] THEN 0 ELSE conn[f]]
    /\ sock' = [sock EXCEPT ![w] = NoFd]
    /\ pc' = [pc EXCEPT ![w] = "dequeue"]
    /\ UNCHANGED <<ringVars, accepted>>

DequeueJob(w) == TakeJob(w) \/ WaitForJob(w)

WorkerNext(w) == DequeueJob(w) \/ SpuriousWakeup(w) \/ HandleClient(w)

MainNext == \E f \in Fd : Accept(f)

Next == MainNext \/ \E w \in Worker : WorkerNext(w)

(* A worker in dequeue_job gets q_mutex in the end.  Serving is not fair:  *)
(* a client may keep its worker forever.                                   *)
Spec == Init /\ [][Next]_vars /\ \A w \in Worker : WF_vars(DequeueJob(w))

-----------------------------------------------------------------------------
(* Properties.                                                             *)

(* Types; q_count never goes below zero nor beyond the ring buffer. *)
TypeOK ==
    /\ job_queue \in [RingSlots -> Fd \cup {NoFd}]
    /\ q_head \in RingSlots
    /\ q_tail \in RingSlots
    /\ q_count \in 0..MaxQueue
    /\ pc \in [Worker -> {"dequeue", "wait", "serve"}]
    /\ sock \in [Worker -> Fd \cup {NoFd}]
    /\ conn \in [Fd -> Nat]
    /\ accepted \in Nat

(* The descriptor i places behind the head of the ring buffer. *)
QueuedFd(i) == job_queue[(q_head + i) % MaxQueue]

Queued  == {QueuedFd(i) : i \in 0..(q_count - 1)}
Serving == {w \in Worker : pc[w] = "serve"}

(* Every open connection is in exactly one place, once: in the ring buffer *)
(* of enqueue_job and dequeue_job or with one worker; none is lost and     *)
(* none is served by two workers or after its descriptor was reused.       *)
EachConnectionOnce ==
    /\ OpenFds = Queued \cup {sock[w] : w \in Serving}
    /\ \A i, j \in 0..(q_count - 1) : QueuedFd(i) = QueuedFd(j) => i = j
    /\ \A v, w \in Serving : sock[v] = sock[w] => v = w
    /\ \A w \in Serving : sock[w] \notin Queued

(* No wakeup of enqueue_job is lost: as long as a worker sleeps there are  *)
(* at least as many workers on their way to the queue as connections in    *)
(* it, so one signal for each enqueue_job suffices.                        *)
WakeupsCoverJobs == Asleep # {} => q_count <= Cardinality(Awake)

(* The ring buffer with its condition variable implements ConnQueue: every *)
(* accepted connection is served once, in the order of arrival.            *)
Conns == INSTANCE ConnQueue
            WITH arrived <- accepted,
                 queue   <- [i \in 1..q_count |-> conn[QueuedFd(i - 1)]],
                 serving <- [w \in Worker |->
                               IF pc[w] = "serve" THEN conn[sock[w]] ELSE 0]

ConnQueueSpec == Conns!Spec

(* A queued connection is taken by a worker, unless every worker is kept   *)
(* busy by the client it serves.                                           *)
QueuedIsTaken ==
    \A c \in 1..MaxConns :
        c \in {conn[f] : f \in Queued}
            ~> (c \notin {conn[f] : f \in Queued} \/ Serving = Worker)
=============================================================================
