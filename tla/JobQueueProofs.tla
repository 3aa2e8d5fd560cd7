--------------------------- MODULE JobQueueProofs ---------------------------
(***************************************************************************)
(* Theorems about JobQueue for every number of workers, descriptors and    *)
(* slots, in three groups: what holds under the condition enqueue_job      *)
(* relies on without checking it, that no more clients are connected at    *)
(* once than the ring buffer has slots; what holds until the ring buffer   *)
(* overflows, however many clients there are; and what even the overflow   *)
(* does not break.                                                         *)
(***************************************************************************)
EXTENDS JobQueue, FiniteSetTheorems, SequenceTheorems, TLAPS

(* What the ring buffer's three indices say about each other. *)
TailBehindHead == q_tail = (q_head + q_count) % MaxQueue

QueueInv ==
    /\ TypeOK
    /\ TailBehindHead
    /\ EachConnectionOnce
    /\ WakeupsCoverJobs

-----------------------------------------------------------------------------
(* Arithmetic of the ring: positions behind the head and their slots.      *)

LEMMA ModSmall ==
    ASSUME NEW x \in 0..(MaxQueue - 1) PROVE x % MaxQueue = x
BY QueueAssumption

LEMMA ModWrap ==
    ASSUME NEW x \in MaxQueue..(2 * MaxQueue - 1)
    PROVE  x % MaxQueue = x - MaxQueue
BY QueueAssumption

LEMMA SlotInRing ==
    ASSUME NEW h \in RingSlots, NEW i \in Nat
    PROVE  (h + i) % MaxQueue \in RingSlots
BY QueueAssumption DEF RingSlots

(* Two positions less than a round apart are two slots. *)
LEMMA SlotsDistinct ==
    ASSUME NEW h \in RingSlots, NEW i \in RingSlots, NEW j \in RingSlots,
           (h + i) % MaxQueue = (h + j) % MaxQueue
    PROVE  i = j
<1> DEFINE x == h + i
           y == h + j
<1>1. /\ x \in 0..(2 * MaxQueue - 1) /\ y \in 0..(2 * MaxQueue - 1)
      /\ x - y = i - j
      /\ i - j \in (1 - MaxQueue)..(MaxQueue - 1)
  BY QueueAssumption DEF RingSlots
<1>2. x % MaxQueue = y % MaxQueue
  OBVIOUS
<1> HIDE DEF x, y
<1>3. /\ x \in 0..(MaxQueue - 1) => x % MaxQueue = x
      /\ y \in 0..(MaxQueue - 1) => y % MaxQueue = y
      /\ x \in MaxQueue..(2 * MaxQueue - 1) => x % MaxQueue = x - MaxQueue
      /\ y \in MaxQueue..(2 * MaxQueue - 1) => y % MaxQueue = y - MaxQueue
  BY ModSmall, ModWrap
<1>4. x - y = 0
  BY <1>1, <1>2, <1>3, QueueAssumption DEF RingSlots
<1>5. QED BY <1>1, <1>4 DEF RingSlots

(* Moving the head on by one moves every position by one. *)
LEMMA SlotShift ==
    ASSUME NEW h \in RingSlots, NEW i \in RingSlots
    PROVE  (NextSlot(h) + i) % MaxQueue = (h + (i + 1)) % MaxQueue
<1>1. CASE h + 1 < MaxQueue
  <2>1. NextSlot(h) = h + 1
    BY <1>1, ModSmall, QueueAssumption DEF NextSlot, RingSlots
  <2>2. QED BY <2>1, QueueAssumption DEF RingSlots
<1>2. CASE h + 1 = MaxQueue
  <2>1. NextSlot(h) = 0
    BY <1>2, ModWrap, QueueAssumption DEF NextSlot, RingSlots
  <2>2. h + (i + 1) = MaxQueue + i /\ MaxQueue + i \in MaxQueue..(2 * MaxQueue - 1)
    BY <1>2, QueueAssumption DEF RingSlots
  <2>3. (h + (i + 1)) % MaxQueue = i
    BY <2>2, ModWrap, QueueAssumption DEF RingSlots
  <2>4. (0 + i) % MaxQueue = i
    BY ModSmall, QueueAssumption DEF RingSlots
  <2>5. QED BY <2>1, <2>3, <2>4
<1>3. QED BY <1>1, <1>2, QueueAssumption DEF RingSlots

(* The slot behind the last position is the next position's. *)
LEMMA TailShift ==
    ASSUME NEW h \in RingSlots, NEW n \in RingSlots
    PROVE  NextSlot((h + n) % MaxQueue) = (h + (n + 1)) % MaxQueue
<1>1. CASE h + n < MaxQueue
  <2>1. (h + n) % MaxQueue = h + n
    BY <1>1, ModSmall, QueueAssumption DEF RingSlots
  <2>2. QED BY <2>1, QueueAssumption DEF NextSlot, RingSlots
<1>2. CASE h + n >= MaxQueue
  <2>1. (h + n) % MaxQueue = h + n - MaxQueue
    BY <1>2, ModWrap, QueueAssumption DEF RingSlots
  <2>2. (h + n - MaxQueue + 1) % MaxQueue = h + n - MaxQueue + 1
    BY <1>2, ModSmall, QueueAssumption DEF RingSlots
  <2>3. (h + (n + 1)) % MaxQueue = h + (n + 1) - MaxQueue
    BY <1>2, ModWrap, QueueAssumption DEF RingSlots
  <2>4. QED BY <2>1, <2>2, <2>3, QueueAssumption DEF NextSlot, RingSlots
<1>3. QED BY <1>1, <1>2, QueueAssumption DEF RingSlots

-----------------------------------------------------------------------------
(* The ring buffer never overflows: queued descriptors are open and        *)
(* different, so there are at most as many as connected clients.           *)
LEMMA RoomForOne ==
    ASSUME QueueInv, MaxClients <= MaxQueue, Cardinality(OpenFds) < MaxClients
    PROVE  q_count < MaxQueue
<1> DEFINE Q == 0..(q_count - 1)
           g == [i \in Q |-> QueuedFd(i)]
<1>1. q_count \in Nat /\ MaxQueue \in Nat /\ MaxClients \in Nat
  BY QueueAssumption DEF QueueInv, TypeOK
<1>2. IsFiniteSet(OpenFds) /\ Cardinality(OpenFds) \in Nat
  BY QueueAssumption, FS_Subset, FS_CardinalityType DEF OpenFds
<1>3. g \in Injection(Q, OpenFds)
  BY DEF QueueInv, EachConnectionOnce, Queued, Injection, IsInjective
<1>4. Cardinality(Q) <= Cardinality(OpenFds)
  BY <1>2, <1>3, FS_Injection
<1>5. Cardinality(Q) = q_count
  BY <1>1, FS_Interval
<1>6. QED BY <1>1, <1>2, <1>4, <1>5

(* enqueue_job appends: the queued descriptors stay where they are behind  *)
(* the head and the new one is behind them.                                *)
LEMMA AcceptRing ==
    ASSUME QueueInv, q_count < MaxQueue, NEW f \in Fd, Accept(f)
    PROVE  /\ q_count' = q_count + 1
           /\ \A i \in 0..(q_count - 1) : QueuedFd(i)' = QueuedFd(i)
           /\ job_queue'[(q_head' + q_count) % MaxQueue] = f
           /\ TailBehindHead'
           /\ job_queue' \in [RingSlots -> Fd \cup {NoFd}]
           /\ q_tail' \in RingSlots
<1> USE DEF QueueInv, TypeOK
<1>1. q_count < MaxQueue /\ q_count' = q_count + 1 /\ q_head' = q_head
  BY DEF Accept
<1>2. q_count \in RingSlots /\ q_head \in RingSlots /\ q_count \in Nat
  BY <1>1, QueueAssumption DEF RingSlots
<1>3. job_queue' = [job_queue EXCEPT ![q_tail] = f]
  BY DEF Accept
<1>4. q_tail = (q_head + q_count) % MaxQueue
  BY DEF TailBehindHead
<1>5. ASSUME NEW i \in 0..(q_count - 1)
      PROVE  QueuedFd(i)' = QueuedFd(i)
  <2>1. i \in RingSlots /\ i # q_count
    BY <1>2, QueueAssumption DEF RingSlots
  <2>2. (q_head + i) % MaxQueue \in RingSlots /\ (q_head + i) % MaxQueue # q_tail
    BY <1>2, <1>4, <2>1, SlotsDistinct, SlotInRing DEF RingSlots
  <2>3. QED BY <1>1, <1>3, <2>2 DEF QueuedFd
<1>6. job_queue'[(q_head' + q_count) % MaxQueue] = f
  BY <1>1, <1>3, <1>4
<1>7. q_tail' = (q_head' + q_count') % MaxQueue
  BY <1>1, <1>2, <1>4, TailShift DEF Accept
<1>8. q_tail' \in RingSlots
  <2>1. q_count' \in Nat /\ q_head' \in RingSlots
    BY <1>1, <1>2
  <2>2. QED BY <1>7, <2>1, SlotInRing
<1>9. QED BY <1>1, <1>3, <1>5, <1>6, <1>7, <1>8 DEF TailBehindHead

(* dequeue_job takes the head: the others move up by one. *)
LEMMA TakeRing ==
    ASSUME QueueInv, NEW w \in Worker, TakeJob(w)
    PROVE  /\ q_count > 0 /\ q_count' = q_count - 1
           /\ \A i \in 0..(q_count' - 1) : QueuedFd(i)' = QueuedFd(i + 1)
           /\ sock' = [sock EXCEPT ![w] = QueuedFd(0)]
           /\ TailBehindHead'
           /\ q_head' \in RingSlots
<1> USE DEF QueueInv, TypeOK
<1>1. /\ q_count > 0 /\ q_count' = q_count - 1 /\ q_head' = NextSlot(q_head)
      /\ q_tail' = q_tail /\ job_queue' = job_queue
  BY DEF TakeJob
<1>2. q_head \in RingSlots /\ q_count \in 1..MaxQueue
  BY <1>1, QueueAssumption
<1>3. ASSUME NEW i \in 0..(q_count' - 1)
      PROVE  QueuedFd(i)' = QueuedFd(i + 1)
  <2>1. i \in RingSlots
    BY <1>1, <1>2, QueueAssumption DEF RingSlots
  <2>2. QueuedFd(i)' = job_queue[(NextSlot(q_head) + i) % MaxQueue]
    BY <1>1 DEF QueuedFd
  <2>3. QED BY <1>2, <2>1, <2>2, SlotShift DEF QueuedFd
<1>4. sock' = [sock EXCEPT ![w] = QueuedFd(0)]
  <2>1. (q_head + 0) % MaxQueue = q_head
    <3>1. q_head + 0 = q_head /\ q_head \in 0..(MaxQueue - 1)
      BY <1>2, QueueAssumption DEF RingSlots
    <3>2. QED BY <3>1, ModSmall
  <2>2. QED BY <2>1 DEF TakeJob, QueuedFd
<1>5. q_tail' = (q_head' + q_count') % MaxQueue
  <2>1. q_count' \in RingSlots /\ q_count' + 1 = q_count
    BY <1>1, <1>2, QueueAssumption DEF RingSlots
  <2>2. (NextSlot(q_head) + q_count') % MaxQueue = (q_head + (q_count' + 1)) % MaxQueue
    BY <1>2, <2>1, SlotShift
  <2>3. QED BY <1>1, <2>1, <2>2 DEF TailBehindHead
<1>6. q_head' \in RingSlots
  BY <1>1, <1>2, SlotInRing DEF NextSlot
<1>7. QED BY <1>1, <1>3, <1>4, <1>5, <1>6 DEF TailBehindHead

-----------------------------------------------------------------------------
(* The steps preserve the invariant.                                       *)

(* Which workers sleep, are on their way or serve after a signal. *)
LEMMA SignalFacts ==
    ASSUME pc \in [Worker -> {"dequeue", "wait", "serve"}], Signal
    PROVE  /\ Serving' = Serving
           /\ pc' \in [Worker -> {"dequeue", "wait", "serve"}]
           /\ \/ Asleep' = {} /\ Awake' = Awake
              \/ \E w \in Worker : w \notin Awake /\ Awake' = Awake \cup {w} /\ Asleep # {}
<1>1. CASE Asleep = {} /\ UNCHANGED pc
  BY <1>1 DEF Asleep, Awake, Serving
<1>2. ASSUME NEW w \in Asleep, pc' = [pc EXCEPT ![w] = "dequeue"]
      PROVE  /\ Serving' = Serving
             /\ pc' \in [Worker -> {"dequeue", "wait", "serve"}]
             /\ w \in Worker /\ w \notin Awake /\ Awake' = Awake \cup {w}
  BY <1>2 DEF Asleep, Awake, Serving
<1>3. QED BY <1>1, <1>2 DEF Signal

LEMMA AwakeFinite == IsFiniteSet(Awake) /\ Cardinality(Awake) \in Nat
<1>1. Awake \in SUBSET Worker
  BY DEF Awake
<1>2. QED BY <1>1, QueueAssumption, FS_Subset, FS_CardinalityType

LEMMA AcceptStep ==
    ASSUME QueueInv, q_count < MaxQueue, NEW f \in Fd, Accept(f)
    PROVE  QueueInv'
<1> USE DEF QueueInv
<1>1. /\ q_count < MaxQueue /\ q_count' = q_count + 1
      /\ \A i \in 0..(q_count - 1) : QueuedFd(i)' = QueuedFd(i)
      /\ job_queue'[(q_head' + q_count) % MaxQueue] = f
      /\ TailBehindHead'
      /\ job_queue' \in [RingSlots -> Fd \cup {NoFd}]
      /\ q_tail' \in RingSlots
  BY AcceptRing
<1>2. /\ Serving' = Serving
      /\ pc' \in [Worker -> {"dequeue", "wait", "serve"}]
      /\ \/ Asleep' = {} /\ Awake' = Awake
         \/ \E w \in Worker : w \notin Awake /\ Awake' = Awake \cup {w}
  BY SignalFacts DEF Accept, TypeOK
<1>3. /\ q_head' = q_head /\ sock' = sock /\ f \notin OpenFds
      /\ accepted' = accepted + 1 /\ conn' = [conn EXCEPT ![f] = accepted + 1]
  BY DEF Accept
<1>4. TypeOK'
  BY <1>1, <1>2, <1>3, QueueAssumption DEF TypeOK
<1>5. EachConnectionOnce'
  <2> DEFINE n == q_count
  <2>1. n \in Nat
    BY QueueAssumption DEF TypeOK
  <2>2. \A i \in 0..n : QueuedFd(i)' = IF i = n THEN f ELSE QueuedFd(i)
    BY <1>1, <2>1 DEF QueuedFd
  <2>3. Queued' = Queued \cup {f}
    <3>1. Queued' = {QueuedFd(i)' : i \in 0..n}
      BY <1>1, <2>1 DEF Queued
    <3>2. /\ n \in 0..n /\ \A i \in 0..(n - 1) : i \in 0..n /\ i # n
          /\ \A i \in 0..n : i # n => i \in 0..(n - 1)
      BY <2>1
    <3>3. Queued = {QueuedFd(i) : i \in 0..(n - 1)}
      BY DEF Queued
    <3> HIDE DEF n
    <3>4. QED BY <2>2, <3>1, <3>2, <3>3
  <2>4. OpenFds' = OpenFds \cup {f}
    BY <1>3 DEF OpenFds, TypeOK
  <2>5. f \notin Queued /\ \A w \in Serving : sock[w] # f
    BY <1>3 DEF EachConnectionOnce
  <2>6. OpenFds' = Queued' \cup {sock'[w] : w \in Serving'}
    BY <1>2, <1>3, <2>3, <2>4 DEF EachConnectionOnce
  <2>7. \A i, j \in 0..n : QueuedFd(i)' = QueuedFd(j)' => i = j
    <3>1. \A i \in 0..n : i # n => i \in 0..(n - 1) /\ QueuedFd(i) # f
      BY <2>1, <2>5 DEF Queued
    <3>2. QED BY <2>2, <3>1 DEF EachConnectionOnce
  <2>8. \A i, j \in 0..(q_count' - 1) : QueuedFd(i)' = QueuedFd(j)' => i = j
    BY <1>1, <2>1, <2>7
  <2>9. /\ \A v, w \in Serving' : sock'[v] = sock'[w] => v = w
        /\ \A w \in Serving' : sock'[w] \notin Queued'
    BY <1>2, <1>3, <2>3, <2>5 DEF EachConnectionOnce
  <2>10. QED BY <2>6, <2>8, <2>9 DEF EachConnectionOnce
<1>6. WakeupsCoverJobs'
  <2>1. CASE Asleep' = {}
    BY <2>1 DEF WakeupsCoverJobs
  <2>2. ASSUME NEW w \in Worker, w \notin Awake, Awake' = Awake \cup {w}, Asleep' # {}
        PROVE  q_count' <= Cardinality(Awake')
    <3>1. Cardinality(Awake') = Cardinality(Awake) + 1
      BY <2>2, AwakeFinite, FS_AddElement
    <3>2. Asleep # {}
      <4>1. CASE Asleep = {}
        BY <2>2, <4>1 DEF Accept, Signal, Awake
      <4>2. QED BY <4>1
    <3>3. q_count <= Cardinality(Awake) /\ q_count \in Nat
      BY <3>2, QueueAssumption DEF WakeupsCoverJobs, TypeOK
    <3>4. QED BY <1>1, <3>1, <3>3, AwakeFinite
  <2>3. QED BY <1>2, <2>1, <2>2 DEF WakeupsCoverJobs
<1>7. QED BY <1>1, <1>4, <1>5, <1>6

LEMMA TakeStep ==
    ASSUME QueueInv, NEW w \in Worker, TakeJob(w)
    PROVE  QueueInv'
<1> USE DEF QueueInv
<1>1. /\ q_count > 0 /\ q_count' = q_count - 1
      /\ \A i \in 0..(q_count' - 1) : QueuedFd(i)' = QueuedFd(i + 1)
      /\ sock' = [sock EXCEPT ![w] = QueuedFd(0)]
      /\ TailBehindHead'
      /\ q_head' \in RingSlots
  BY TakeRing
<1>2. /\ pc[w] = "dequeue" /\ pc' = [pc EXCEPT ![w] = "serve"]
      /\ q_tail' = q_tail /\ job_queue' = job_queue
      /\ conn' = conn /\ accepted' = accepted
  BY DEF TakeJob
<1>3. q_count \in 1..MaxQueue
  BY <1>1, QueueAssumption DEF TypeOK
<1>4. QueuedFd(0) \in Queued /\ Queued \subseteq Fd
  BY <1>3 DEF Queued, EachConnectionOnce, OpenFds
<1>5. TypeOK'
  BY <1>1, <1>2, <1>3, <1>4, QueueAssumption DEF TypeOK
<1>6. Serving' = Serving \cup {w} /\ w \notin Serving
  BY <1>2 DEF Serving, TypeOK
<1>7. \A v \in Serving : sock'[v] = sock[v] /\ v # w
  BY <1>1, <1>6 DEF TypeOK, Serving
<1>8. sock'[w] = QueuedFd(0)
  BY <1>1 DEF TypeOK
<1>9. EachConnectionOnce'
  <2> DEFINE m == q_count'
  <2>1. m \in Nat /\ q_count = m + 1
    BY <1>1, <1>3, QueueAssumption
  <2>2. Queued' = {QueuedFd(i + 1) : i \in 0..(m - 1)}
    BY <1>1 DEF Queued
  <2> HIDE DEF m
  <2>3. Queued = Queued' \cup {QueuedFd(0)}
    <3>1. Queued = {QueuedFd(i) : i \in 0..m}
      BY <2>1 DEF Queued
    <3>2. \A i \in 0..m : i = 0 \/ (i - 1 \in 0..(m - 1) /\ i = (i - 1) + 1)
      BY <2>1
    <3>3. \A i \in 0..(m - 1) : i + 1 \in 0..m
      BY <2>1
    <3>4. 0 \in 0..m
      BY <2>1
    <3>5. QED BY <2>2, <3>1, <3>2, <3>3, <3>4
  <2>4. \A i, j \in 0..m : QueuedFd(i) = QueuedFd(j) => i = j
    BY <2>1 DEF EachConnectionOnce
  <2>5. QueuedFd(0) \notin Queued'
    BY <2>1, <2>2, <2>4
  <2>6. OpenFds' = Queued' \cup {sock'[v] : v \in Serving'}
    BY <1>2, <1>6, <1>7, <1>8, <2>3 DEF EachConnectionOnce, OpenFds
  <2>7. \A i, j \in 0..(m - 1) : QueuedFd(i)' = QueuedFd(j)' => i = j
    <3>1. \A i \in 0..(m - 1) : i + 1 \in 0..m /\ QueuedFd(i)' = QueuedFd(i + 1)
      BY <1>1, <2>1 DEF m
    <3>2. QED BY <2>1, <2>4, <3>1
  <2>8. \A u, v \in Serving' : sock'[u] = sock'[v] => u = v
    BY <1>4, <1>6, <1>7, <1>8 DEF EachConnectionOnce
  <2>9. \A v \in Serving' : sock'[v] \notin Queued'
    BY <1>6, <1>7, <1>8, <2>3, <2>5 DEF EachConnectionOnce
  <2>10. QED BY <2>6, <2>7, <2>8, <2>9 DEF EachConnectionOnce, m
<1>10. WakeupsCoverJobs'
  <2>1. Awake' = Awake \ {w} /\ w \in Awake /\ Asleep' = Asleep
    BY <1>2 DEF Awake, Asleep, TypeOK
  <2>2. Cardinality(Awake') = Cardinality(Awake) - 1
    BY <2>1, AwakeFinite, FS_RemoveElement
  <2>3. QED
    BY <1>1, <1>3, <2>1, <2>2, AwakeFinite, QueueAssumption DEF WakeupsCoverJobs
<1>11. QED BY <1>1, <1>5, <1>9, <1>10

LEMMA HandleStep ==
    ASSUME QueueInv, NEW w \in Worker, HandleClient(w)
    PROVE  QueueInv'
<1> USE DEF QueueInv
<1>1. /\ pc[w] = "serve" /\ pc' = [pc EXCEPT ![w] = "dequeue"]
      /\ conn' = [f \in Fd |-> IF f = sock[w] THEN 0 ELSE conn[f]]
      /\ sock' = [sock EXCEPT ![w] = NoFd]
      /\ UNCHANGED <<ringVars, accepted>>
  BY DEF HandleClient
<1>2. TypeOK'
  BY <1>1 DEF TypeOK, ringVars
<1>3. TailBehindHead' /\ Queued' = Queued
      /\ \A i \in 0..(q_count - 1) : QueuedFd(i)' = QueuedFd(i)
  BY <1>1 DEF TailBehindHead, Queued, QueuedFd, ringVars
<1>4. Serving' = Serving \ {w} /\ w \in Serving
  BY <1>1 DEF Serving, TypeOK
<1>5. \A v \in Serving' : sock'[v] = sock[v] /\ v # w /\ v \in Serving
  BY <1>1, <1>4 DEF TypeOK, Serving
<1>6. OpenFds' = OpenFds \ {sock[w]}
  BY <1>1 DEF OpenFds
<1>7. EachConnectionOnce'
  <2>1. OpenFds' = Queued' \cup {sock'[v] : v \in Serving'}
    <3>1. {sock'[v] : v \in Serving'} = {sock[v] : v \in Serving} \ {sock[w]}
      BY <1>4, <1>5 DEF EachConnectionOnce
    <3>2. QED BY <1>3, <1>4, <1>6, <3>1 DEF EachConnectionOnce
  <2>2. q_count' = q_count
    BY <1>1 DEF ringVars
  <2>3. QED BY <1>3, <1>5, <2>1, <2>2 DEF EachConnectionOnce
<1>8. WakeupsCoverJobs'
  <2>1. Awake' = Awake \cup {w} /\ w \notin Awake /\ Asleep' = Asleep
    BY <1>1 DEF Awake, Asleep, TypeOK
  <2>2. Cardinality(Awake') = Cardinality(Awake) + 1
    BY <2>1, AwakeFinite, FS_AddElement
  <2>3. q_count' = q_count /\ q_count \in Nat
    BY <1>1, QueueAssumption DEF ringVars, TypeOK
  <2>4. QED BY <2>1, <2>2, <2>3, AwakeFinite DEF WakeupsCoverJobs
<1>9. QED BY <1>2, <1>3, <1>7, <1>8

(* Falling asleep and waking without a signal. *)
LEMMA SleepStep ==
    ASSUME QueueInv, NEW w \in Worker, WaitForJob(w) \/ SpuriousWakeup(w)
    PROVE  QueueInv'
<1> USE DEF QueueInv
<1>1. /\ UNCHANGED <<ringVars, sock, conn, accepted>>
      /\ \/ pc' = [pc EXCEPT ![w] = "wait"] /\ q_count = 0 /\ pc[w] = "dequeue"
         \/ pc' = [pc EXCEPT ![w] = "dequeue"] /\ pc[w] = "wait"
  BY DEF WaitForJob, SpuriousWakeup
<1>2. TypeOK' /\ TailBehindHead' /\ Serving' = Serving
  BY <1>1 DEF TypeOK, TailBehindHead, Serving, ringVars
<1>3. EachConnectionOnce'
  BY <1>1, <1>2 DEF EachConnectionOnce, OpenFds, Queued, QueuedFd, ringVars
<1>4. WakeupsCoverJobs'
  <2>1. CASE q_count = 0
    <3>1. IsFiniteSet(Awake') /\ Cardinality(Awake') \in Nat
      <4>1. Awake' \in SUBSET Worker
        BY DEF Awake
      <4>2. QED BY <4>1, QueueAssumption, FS_Subset, FS_CardinalityType
    <3>2. QED BY <1>1, <2>1, <3>1 DEF WakeupsCoverJobs, ringVars
  <2>2. CASE pc' = [pc EXCEPT ![w] = "dequeue"] /\ pc[w] = "wait"
    <3>1. Awake' = Awake \cup {w} /\ w \notin Awake /\ Asleep # {}
      BY <2>2 DEF Awake, Asleep, TypeOK
    <3>2. Cardinality(Awake') = Cardinality(Awake) + 1
      BY <3>1, AwakeFinite, FS_AddElement
    <3>3. q_count' = q_count /\ q_count \in Nat
      BY <1>1, QueueAssumption DEF ringVars, TypeOK
    <3>4. QED BY <3>1, <3>2, <3>3, AwakeFinite DEF WakeupsCoverJobs
  <2>3. QED BY <1>1, <2>1, <2>2
<1>5. QED BY <1>2, <1>3, <1>4

(* Either condition keeps enqueue_job from overwriting a slot in use: few  *)
(* enough clients, or a step that does not take q_count over MAX_QUEUE.    *)
LEMMA QueueStep ==
    ASSUME MaxClients <= MaxQueue \/ q_count' <= MaxQueue
    PROVE  QueueInv /\ [Next]_vars => QueueInv'
<1> SUFFICES ASSUME QueueInv, [Next]_vars
             PROVE  QueueInv'
  OBVIOUS
<1>1. CASE UNCHANGED vars
  BY <1>1 DEF QueueInv, TypeOK, TailBehindHead, EachConnectionOnce, WakeupsCoverJobs,
              OpenFds, Queued, QueuedFd, Serving, Awake, Asleep, vars, ringVars
<1>2. ASSUME NEW f \in Fd, Accept(f)
      PROVE  QueueInv'
  <2>1. q_count < MaxQueue
    <3>1. CASE MaxClients <= MaxQueue
      BY <1>2, <3>1, RoomForOne DEF Accept
    <3>2. CASE q_count' <= MaxQueue
      BY <1>2, <3>2, QueueAssumption DEF Accept, QueueInv, TypeOK
    <3>3. QED BY <3>1, <3>2
  <2>2. QED BY <1>2, <2>1, AcceptStep
<1>3. ASSUME NEW w \in Worker, WorkerNext(w)
      PROVE  QueueInv'
  BY <1>3, TakeStep, SleepStep, HandleStep DEF WorkerNext, DequeueJob
<1>4. QED BY <1>1, <1>2, <1>3 DEF Next, MainNext

LEMMA QueueInit == Init => QueueInv
<1> SUFFICES ASSUME Init
             PROVE  QueueInv
  OBVIOUS
<1> USE DEF Init
<1>1. TypeOK
  BY QueueAssumption DEF TypeOK, RingSlots
<1>2. TailBehindHead
  <2>1. 0 \in 0..(MaxQueue - 1)
    BY QueueAssumption
  <2>2. QED BY <2>1, ModSmall DEF TailBehindHead
<1>3. Queued = {} /\ Serving = {} /\ OpenFds = {} /\ Asleep = {}
  BY DEF Queued, Serving, OpenFds, Asleep
<1>4. EachConnectionOnce
  BY <1>3 DEF EachConnectionOnce
<1>5. WakeupsCoverJobs
  BY <1>3 DEF WakeupsCoverJobs
<1>6. QED BY <1>1, <1>2, <1>4, <1>5 DEF QueueInv

(* As long as no more clients are connected than the ring buffer has       *)
(* slots, the queue's invariant holds.                                     *)
THEOREM QueueInvAlways ==
    ASSUME MaxClients <= MaxQueue
    PROVE  Spec => []QueueInv
<1>1. Init => QueueInv
  BY QueueInit
<1>2. QueueInv /\ [Next]_vars => QueueInv'
  BY QueueStep
<1>3. QED BY <1>1, <1>2, PTL DEF Spec

(* q_count stays within 0..MAX_QUEUE and the indices within the buffer. *)
THEOREM QueueTypeCorrect ==
    ASSUME MaxClients <= MaxQueue
    PROVE  Spec => []TypeOK
<1>1. QueueInv => TypeOK
  BY DEF QueueInv
<1>2. QED BY <1>1, QueueInvAlways, PTL

(* No connection is lost, and none is handed out twice or served on a      *)
(* descriptor that was closed and reused.                                  *)
THEOREM ConnectionsKept ==
    ASSUME MaxClients <= MaxQueue
    PROVE  Spec => []EachConnectionOnce
<1>1. QueueInv => EachConnectionOnce
  BY DEF QueueInv
<1>2. QED BY <1>1, QueueInvAlways, PTL

(* One pthread_cond_signal for each enqueue_job leaves no worker asleep    *)
(* beside a connection nobody comes for.                                   *)
THEOREM NoLostWakeup ==
    ASSUME MaxClients <= MaxQueue
    PROVE  Spec => []WakeupsCoverJobs
<1>1. QueueInv => WakeupsCoverJobs
  BY DEF QueueInv
<1>2. QED BY <1>1, QueueInvAlways, PTL

-----------------------------------------------------------------------------
(* The ring buffer implements ConnQueue.                                   *)

(* The two parts of the mapping that change. *)
QueueSeq == [i \in 1..q_count |-> conn[QueuedFd(i - 1)]]
ServedBy == [w \in Worker |-> IF pc[w] = "serve" THEN conn[sock[w]] ELSE 0]

LEMMA SeqOfLength ==
    ASSUME NEW n \in Nat, NEW s \in [1..n -> Nat]
    PROVE  s \in Seq(Nat) /\ Len(s) = n
OBVIOUS

(* A sequence that has one element more is the other with it appended. *)
LEMMA OneMoreIsAppend ==
    ASSUME NEW n \in Nat, NEW s \in [1..n -> Nat], NEW t \in [1..(n + 1) -> Nat],
           \A i \in 1..n : t[i] = s[i]
    PROVE  t = Append(s, t[n + 1])
<1>1. s \in Seq(Nat) /\ Len(s) = n /\ t \in Seq(Nat) /\ Len(t) = n + 1
  BY SeqOfLength
<1>2. t[n + 1] \in Nat
  OBVIOUS
<1>3. /\ Append(s, t[n + 1]) \in Seq(Nat)
      /\ Len(Append(s, t[n + 1])) = n + 1
      /\ \A i \in 1..(n + 1) : Append(s, t[n + 1])[i] = IF i <= n THEN s[i] ELSE t[n + 1]
  BY <1>1, <1>2
<1>4. \A i \in 1..(n + 1) : t[i] = Append(s, t[n + 1])[i]
  BY <1>3
<1>5. QED BY <1>1, <1>3, <1>4, SeqEqual

(* A sequence of one element less, moved up by one, is the other's tail. *)
LEMMA OneLessIsTail ==
    ASSUME NEW n \in Nat, NEW s \in [1..(n + 1) -> Nat], NEW t \in [1..n -> Nat],
           \A i \in 1..n : t[i] = s[i + 1]
    PROVE  t = Tail(s) /\ Head(s) = s[1] /\ s # <<>>
<1>1. s \in Seq(Nat) /\ Len(s) = n + 1 /\ t \in Seq(Nat) /\ Len(t) = n
  BY SeqOfLength
<1>2. s # <<>> /\ Head(s) = s[1]
  BY <1>1
<1>3. /\ Tail(s) \in Seq(Nat) /\ Len(Tail(s)) = n
      /\ \A i \in 1..n : Tail(s)[i] = s[i + 1]
  BY <1>1, <1>2, HeadTailProperties
<1>4. QED BY <1>1, <1>2, <1>3, SeqEqual

LEMMA QueueSeqType ==
    ASSUME QueueInv
    PROVE  q_count \in Nat /\ QueueSeq \in [1..q_count -> Nat]
<1>1. q_count \in Nat
  BY QueueAssumption DEF QueueInv, TypeOK
<1>2. \A i \in 1..q_count : QueuedFd(i - 1) \in Queued
  BY <1>1 DEF Queued
<1>3. Queued \subseteq Fd
  BY DEF QueueInv, EachConnectionOnce, OpenFds
<1>4. QED BY <1>1, <1>2, <1>3 DEF QueueSeq, QueueInv, TypeOK

LEMMA QueueSeqStep ==
    ASSUME QueueInv, QueueInv', [Next]_vars
    PROVE  [Conns!Next]_(Conns!queueVars)
<1> USE DEF Conns!Next, Conns!queueVars
<1>1. /\ q_count \in Nat /\ QueueSeq \in [1..q_count -> Nat]
      /\ q_count' \in Nat /\ QueueSeq' \in [1..q_count' -> Nat]
  <2>1. q_count' \in Nat
    BY QueueAssumption DEF QueueInv, TypeOK
  <2>2. \A i \in 1..q_count' : QueuedFd(i - 1)' \in Queued'
    BY <2>1 DEF Queued
  <2>3. Queued' \subseteq Fd
    BY DEF QueueInv, EachConnectionOnce, OpenFds
  <2>4. QueueSeq' \in [1..q_count' -> Nat]
    BY <2>1, <2>2, <2>3 DEF QueueSeq, QueueInv, TypeOK
  <2>5. QED BY <2>1, <2>4, QueueSeqType
<1>2. ASSUME NEW f \in Fd, Accept(f)
      PROVE  Conns!Arrive
  <2>1. /\ q_count' = q_count + 1
        /\ \A i \in 0..(q_count - 1) : QueuedFd(i)' = QueuedFd(i)
        /\ job_queue'[(q_head' + q_count) % MaxQueue] = f
    <3>1. q_count' = q_count + 1 /\ q_count' \in 0..MaxQueue
      BY <1>2 DEF Accept, QueueInv, TypeOK
    <3>2. q_count < MaxQueue
      BY <1>1, <3>1, QueueAssumption
    <3>3. QED BY <1>2, <3>2, AcceptRing
  <2>2. /\ conn' = [conn EXCEPT ![f] = accepted + 1] /\ accepted' = accepted + 1
        /\ f \notin OpenFds /\ sock' = sock /\ Serving' = Serving
    BY <1>2, SignalFacts DEF Accept, QueueInv, TypeOK
  <2>3. f \notin Queued /\ \A w \in Serving : sock[w] # f
    BY <2>2 DEF QueueInv, EachConnectionOnce
  <2>4. conn'[f] = accepted + 1 /\ \A g \in Fd \ {f} : conn'[g] = conn[g]
    BY <2>2 DEF QueueInv, TypeOK
  <2>5. QueueSeq'[q_count + 1] = accepted + 1
    <3>1. q_count + 1 \in 1..q_count' /\ (q_count + 1) - 1 = q_count
      BY <1>1, <2>1
    <3>2. QueueSeq'[q_count + 1] = conn'[job_queue'[(q_head' + ((q_count + 1) - 1)) % MaxQueue]]
      BY <3>1 DEF QueueSeq, QueuedFd
    <3>3. QED BY <2>1, <2>4, <3>1, <3>2
  <2>6. ASSUME NEW i \in 1..q_count
        PROVE  QueueSeq'[i] = QueueSeq[i]
    <3>1. i - 1 \in 0..(q_count - 1) /\ i \in 1..q_count'
      BY <1>1, <2>1
    <3>2. QueuedFd(i - 1) \in Queued /\ QueuedFd(i - 1) \in Fd
      BY <3>1 DEF Queued, QueueInv, EachConnectionOnce, OpenFds
    <3>3. QueueSeq'[i] = conn'[QueuedFd(i - 1)']
      BY <3>1 DEF QueueSeq
    <3>4. QED BY <2>1, <2>3, <2>4, <3>1, <3>2, <3>3 DEF QueueSeq
  <2>7. QueueSeq' = Append(QueueSeq, accepted')
    BY <1>1, <2>1, <2>2, <2>5, <2>6, OneMoreIsAppend
  <2>8. ServedBy' = ServedBy
    <3>1. \A w \in Worker : pc'[w] = "serve" <=> pc[w] = "serve"
      BY <2>2 DEF Serving
    <3>2. \A w \in Serving : sock[w] \in Fd
      BY DEF QueueInv, EachConnectionOnce, OpenFds
    <3>3. QED BY <2>2, <2>3, <2>4, <3>1, <3>2 DEF ServedBy, Serving
  <2>9. QED BY <2>2, <2>7, <2>8 DEF Conns!Arrive, QueueSeq, ServedBy
<1>3. ASSUME NEW w \in Worker, TakeJob(w)
      PROVE  Conns!Take(w)
  <2>1. /\ q_count > 0 /\ q_count' = q_count - 1
        /\ \A i \in 0..(q_count' - 1) : QueuedFd(i)' = QueuedFd(i + 1)
        /\ sock' = [sock EXCEPT ![w] = QueuedFd(0)]
    BY <1>3, TakeRing
  <2>2. /\ conn' = conn /\ accepted' = accepted
        /\ pc[w] = "dequeue" /\ pc' = [pc EXCEPT ![w] = "serve"]
    BY <1>3 DEF TakeJob
  <2>3. ASSUME NEW i \in 1..q_count'
        PROVE  QueueSeq'[i] = QueueSeq[i + 1]
    <3>1. i - 1 \in 0..(q_count' - 1) /\ i + 1 \in 1..q_count
          /\ (i - 1) + 1 = (i + 1) - 1
      BY <1>1, <2>1
    <3>2. QueueSeq'[i] = conn'[QueuedFd(i - 1)']
      BY DEF QueueSeq
    <3>3. QueueSeq[i + 1] = conn[QueuedFd((i + 1) - 1)]
      BY <3>1 DEF QueueSeq
    <3>4. QED BY <2>1, <2>2, <3>1, <3>2, <3>3
  <2>4. q_count = q_count' + 1
    BY <1>1, <2>1
  <2>5. QueueSeq' = Tail(QueueSeq) /\ Head(QueueSeq) = QueueSeq[1] /\ QueueSeq # <<>>
    BY <1>1, <2>3, <2>4, OneLessIsTail
  <2>6. QueueSeq[1] = conn[QueuedFd(0)]
    BY <1>1, <2>1 DEF QueueSeq
  <2>7. ServedBy' = [ServedBy EXCEPT ![w] = Head(QueueSeq)] /\ ServedBy[w] = 0
    BY <2>1, <2>2, <2>5, <2>6 DEF ServedBy, QueueInv, TypeOK
  <2>8. QED BY <2>2, <2>5, <2>7 DEF Conns!Take, QueueSeq, ServedBy
<1>4. ASSUME NEW w \in Worker, HandleClient(w)
      PROVE  Conns!Finish(w)
  <2>1. /\ pc[w] = "serve" /\ pc' = [pc EXCEPT ![w] = "dequeue"]
        /\ conn' = [f \in Fd |-> IF f = sock[w] THEN 0 ELSE conn[f]]
        /\ sock' = [sock EXCEPT ![w] = NoFd]
        /\ accepted' = accepted /\ q_count' = q_count
        /\ \A i \in 0..(q_count - 1) : QueuedFd(i)' = QueuedFd(i)
    BY <1>4 DEF HandleClient, ringVars, QueuedFd
  <2>2. sock[w] \in OpenFds /\ sock[w] \notin Queued /\ Queued \subseteq Fd
    BY <2>1 DEF QueueInv, EachConnectionOnce, Serving, OpenFds
  <2>3. QueueSeq' = QueueSeq
    <3>1. \A i \in 1..q_count : i - 1 \in 0..(q_count - 1)
      BY <1>1
    <3>2. \A i \in 1..q_count : QueuedFd(i - 1) \in Queued
      BY <3>1 DEF Queued
    <3>3. \A i \in 1..q_count : conn'[QueuedFd(i - 1)'] = conn[QueuedFd(i - 1)]
      BY <2>1, <2>2, <3>1, <3>2
    <3>4. QED BY <2>1, <3>3 DEF QueueSeq
  <2>4. ServedBy[w] # 0
    BY <2>1, <2>2 DEF ServedBy, OpenFds
  <2>5. ServedBy' = [ServedBy EXCEPT ![w] = 0]
    <3>1. \A v \in Worker \ {w} :
             pc[v] = "serve" => sock[v] # sock[w] /\ sock[v] \in Fd
      BY <2>1 DEF QueueInv, EachConnectionOnce, Serving, OpenFds
    <3>2. QED BY <2>1, <3>1 DEF ServedBy, QueueInv, TypeOK
  <2>6. QED BY <2>1, <2>3, <2>4, <2>5 DEF Conns!Finish, QueueSeq, ServedBy
<1>5. ASSUME NEW w \in Worker, WaitForJob(w) \/ SpuriousWakeup(w)
      PROVE  UNCHANGED Conns!queueVars
  <2>1. UNCHANGED <<ringVars, sock, conn, accepted>>
    BY <1>5 DEF WaitForJob, SpuriousWakeup
  <2>2. \A v \in Worker : pc'[v] = "serve" <=> pc[v] = "serve"
    BY <1>5 DEF WaitForJob, SpuriousWakeup, QueueInv, TypeOK
  <2>3. QueueSeq' = QueueSeq /\ ServedBy' = ServedBy
    BY <2>1, <2>2 DEF QueueSeq, ServedBy, QueuedFd, ringVars
  <2>4. QED BY <2>1, <2>3 DEF QueueSeq, ServedBy
<1>6. CASE UNCHANGED vars
  BY <1>6 DEF vars, ringVars, QueuedFd
<1>7. QED
  BY <1>2, <1>3, <1>4, <1>5, <1>6 DEF Next, MainNext, WorkerNext, DequeueJob

LEMMA QueueSeqInit == Init => Conns!Init
<1> SUFFICES ASSUME Init
             PROVE  Conns!Init
  OBVIOUS
<1>1. QueueSeq = <<>>
  BY DEF QueueSeq, Init
<1>2. ServedBy = [w \in Worker |-> 0]
  BY DEF ServedBy, Init
<1>3. QED BY <1>1, <1>2 DEF Conns!Init, QueueSeq, ServedBy, Init

(* The ring buffer, its condition variable and the life of the descriptors *)
(* implement the queue of connections: each is served by one worker, in    *)
(* the order of arrival.                                                   *)
THEOREM ConnQueueImplemented ==
    ASSUME MaxClients <= MaxQueue
    PROVE  Spec => ConnQueueSpec
<1>1. Init => Conns!Init
  BY QueueSeqInit
<1>2. QueueInv /\ QueueInv' /\ [Next]_vars => [Conns!Next]_(Conns!queueVars)
  BY QueueSeqStep
<1>3. QED
  BY <1>1, <1>2, QueueInvAlways, PTL DEF Spec, ConnQueueSpec, Conns!Spec

-----------------------------------------------------------------------------
(* However many clients are connected: until q_count goes over MAX_QUEUE.  *)

NeverOverfull == q_count <= MaxQueue

(* An overflow of the ring buffer is the only thing that can go wrong with *)
(* it: as long as enqueue_job finds a free slot every time, no connection  *)
(* is lost or served twice and they are served in the order of arrival,    *)
(* whatever the number of clients that are being served.                   *)
THEOREM OnlyOverflowLoses ==
    Spec /\ []NeverOverfull =>
        [](EachConnectionOnce /\ WakeupsCoverJobs) /\ ConnQueueSpec
<1>1. Init => QueueInv /\ Conns!Init
  BY QueueInit, QueueSeqInit
<1>2. QueueInv /\ NeverOverfull' /\ [Next]_vars => QueueInv'
  BY QueueStep DEF NeverOverfull
<1>3. QueueInv => EachConnectionOnce /\ WakeupsCoverJobs
  BY DEF QueueInv
<1>4. QueueInv /\ QueueInv' /\ [Next]_vars => [Conns!Next]_(Conns!queueVars)
  BY QueueSeqStep
<1>5. QED BY <1>1, <1>2, <1>3, <1>4, PTL DEF Spec, ConnQueueSpec, Conns!Spec

-----------------------------------------------------------------------------
(* Even when it overflows.  enqueue_job overwrites connections then, so    *)
(* some are lost and others served twice, but no more than that happens.   *)

(* The tail is ahead of the head by q_count, some rounds of the buffer. *)
TailAhead == \E k \in Nat : q_head + q_count = k * MaxQueue + q_tail

(* No worker reads a slot that was never written: what it serves is a      *)
(* descriptor accept has returned, be it closed or another's by now.       *)
ServedIsReal ==
    /\ \A i \in RingSlots : i < q_count => QueuedFd(i) \in Fd
    /\ \A w \in Serving : sock[w] \in Fd

(* dequeue_job and enqueue_job index inside the buffer, q_count does not   *)
(* become negative, and the three indices agree with each other.           *)
RingTypes ==
    /\ job_queue \in [RingSlots -> Fd \cup {NoFd}]
    /\ q_head \in RingSlots /\ q_tail \in RingSlots /\ q_count \in Nat
    /\ pc \in [Worker -> {"dequeue", "wait", "serve"}]
    /\ sock \in [Worker -> Fd \cup {NoFd}]

RingInv == RingTypes /\ TailAhead /\ ServedIsReal /\ WakeupsCoverJobs

LEMMA RoundsModulo ==
    ASSUME NEW k \in Nat, NEW r \in RingSlots, NEW a \in Nat, a = k * MaxQueue + r
    PROVE  a % MaxQueue = r
BY QueueAssumption DEF RingSlots

LEMMA NextSlotCases ==
    ASSUME NEW h \in RingSlots
    PROVE  /\ NextSlot(h) \in RingSlots
           /\ \/ NextSlot(h) = h + 1
              \/ h + 1 = MaxQueue /\ NextSlot(h) = 0
<1>1. CASE h + 1 < MaxQueue
  BY <1>1, ModSmall, QueueAssumption DEF NextSlot, RingSlots
<1>2. CASE h + 1 = MaxQueue
  BY <1>2, ModWrap, QueueAssumption DEF NextSlot, RingSlots
<1>3. QED BY <1>1, <1>2, QueueAssumption DEF RingSlots

LEMMA TailIsBehindHead ==
    ASSUME RingInv
    PROVE  TailBehindHead
<1>1. PICK k \in Nat : q_head + q_count = k * MaxQueue + q_tail
  BY DEF RingInv, TailAhead
<1>2. q_head + q_count \in Nat /\ q_tail \in RingSlots
  BY QueueAssumption DEF RingInv, RingTypes, RingSlots
<1>3. QED BY <1>1, <1>2, RoundsModulo DEF TailBehindHead

(* One more round when the tail passes the end of the buffer. *)
LEMMA TailMovesOn ==
    ASSUME NEW k \in Nat, NEW h \in RingSlots, NEW t \in RingSlots, NEW n \in Nat,
           h + n = k * MaxQueue + t
    PROVE  \E j \in Nat : h + (n + 1) = j * MaxQueue + NextSlot(t)
<1>1. CASE NextSlot(t) = t + 1
  <2>1. h + (n + 1) = k * MaxQueue + (t + 1)
    BY QueueAssumption DEF RingSlots
  <2>2. QED BY <1>1, <2>1
<1>2. CASE t + 1 = MaxQueue /\ NextSlot(t) = 0
  <2>1. (k + 1) * MaxQueue = k * MaxQueue + MaxQueue
    BY QueueAssumption
  <2>2. h + (n + 1) = (k + 1) * MaxQueue + 0
    BY <1>2, <2>1, QueueAssumption DEF RingSlots
  <2>3. QED BY <1>2, <2>2
<1>3. QED BY <1>1, <1>2, NextSlotCases

(* One round less when the head passes the end of the buffer. *)
LEMMA HeadMovesOn ==
    ASSUME NEW k \in Nat, NEW h \in RingSlots, NEW t \in RingSlots, NEW n \in Nat,
           n > 0, h + n = k * MaxQueue + t
    PROVE  \E j \in Nat : NextSlot(h) + (n - 1) = j * MaxQueue + t
<1>1. CASE NextSlot(h) = h + 1
  <2>1. NextSlot(h) + (n - 1) = h + n
    BY <1>1, QueueAssumption DEF RingSlots
  <2>2. QED BY <2>1
<1>2. CASE h + 1 = MaxQueue /\ NextSlot(h) = 0
  <2>1. k # 0
    <3>1. k = 0 => k * MaxQueue = 0
      BY QueueAssumption
    <3>2. QED BY <1>2, <3>1, QueueAssumption DEF RingSlots
  <2>2. k - 1 \in Nat /\ (k - 1) * MaxQueue = k * MaxQueue - MaxQueue
    BY <2>1, QueueAssumption
  <2>3. NextSlot(h) + (n - 1) = (k - 1) * MaxQueue + t
    BY <1>2, <2>2, QueueAssumption DEF RingSlots
  <2>4. QED BY <2>2, <2>3
<1>3. QED BY <1>1, <1>2, NextSlotCases

(* enqueue_job: the slot it writes is the one q_count places behind the    *)
(* head, which is a slot in use when the buffer is full.                   *)
LEMMA AcceptOverfull ==
    ASSUME RingInv, NEW f \in Fd, Accept(f)
    PROVE  RingInv'
<1> USE DEF RingInv, RingTypes
<1>1. /\ job_queue' = [job_queue EXCEPT ![q_tail] = f]
      /\ q_head' = q_head /\ q_tail' = NextSlot(q_tail)
      /\ q_count' = q_count + 1 /\ sock' = sock /\ Signal
  BY DEF Accept
<1>2. /\ Serving' = Serving
      /\ pc' \in [Worker -> {"dequeue", "wait", "serve"}]
      /\ \/ Asleep' = {} /\ Awake' = Awake
         \/ \E w \in Worker : w \notin Awake /\ Awake' = Awake \cup {w} /\ Asleep # {}
  BY <1>1, SignalFacts
<1>3. RingTypes'
  BY <1>1, <1>2, NextSlotCases
<1>4. TailAhead'
  BY <1>1, TailMovesOn DEF TailAhead
<1>5. ServedIsReal'
  <2>1. ASSUME NEW i \in RingSlots, i < q_count'
        PROVE  QueuedFd(i)' \in Fd
    <3>1. (q_head + i) % MaxQueue \in RingSlots
      BY SlotInRing, QueueAssumption DEF RingSlots
    <3>2. QueuedFd(i)' = IF (q_head + i) % MaxQueue = q_tail THEN f ELSE QueuedFd(i)
      BY <1>1, <3>1 DEF QueuedFd
    <3>3. CASE i < q_count
      BY <3>2, <3>3 DEF ServedIsReal
    <3>4. CASE i = q_count
      BY <3>2, <3>4, TailIsBehindHead DEF TailBehindHead
    <3>5. QED BY <1>1, <2>1, <3>3, <3>4, QueueAssumption DEF RingSlots
  <2>2. QED BY <1>1, <1>2, <2>1 DEF ServedIsReal
<1>6. WakeupsCoverJobs'
  <2>1. CASE Asleep' = {}
    BY <2>1 DEF WakeupsCoverJobs
  <2>2. ASSUME NEW w \in Worker, w \notin Awake, Awake' = Awake \cup {w}, Asleep # {}
        PROVE  q_count' <= Cardinality(Awake')
    <3>1. Cardinality(Awake') = Cardinality(Awake) + 1
      BY <2>2, AwakeFinite, FS_AddElement
    <3>2. q_count <= Cardinality(Awake)
      BY <2>2 DEF WakeupsCoverJobs
    <3>3. QED BY <1>1, <3>1, <3>2, AwakeFinite
  <2>3. QED BY <1>2, <2>1, <2>2 DEF WakeupsCoverJobs
<1>7. QED BY <1>3, <1>4, <1>5, <1>6

(* dequeue_job: the position behind the last of the buffer is the first. *)
LEMMA TakeOverfull ==
    ASSUME RingInv, NEW w \in Worker, TakeJob(w)
    PROVE  RingInv'
<1> USE DEF RingInv, RingTypes
<1>1. /\ pc[w] = "dequeue" /\ pc' = [pc EXCEPT ![w] = "serve"]
      /\ q_count > 0 /\ q_count' = q_count - 1 /\ q_head' = NextSlot(q_head)
      /\ q_tail' = q_tail /\ job_queue' = job_queue
      /\ sock' = [sock EXCEPT ![w] = job_queue[q_head]]
  BY DEF TakeJob
<1>2. QueuedFd(0) = job_queue[q_head] /\ QueuedFd(0) \in Fd
  <2>1. q_head + 0 = q_head /\ q_head \in 0..(MaxQueue - 1) /\ 0 \in RingSlots
    BY QueueAssumption DEF RingSlots
  <2>2. QED BY <1>1, <2>1, ModSmall DEF QueuedFd, ServedIsReal
<1>3. RingTypes'
  BY <1>1, <1>2, NextSlotCases
<1>4. TailAhead'
  BY <1>1, HeadMovesOn DEF TailAhead
<1>5. ServedIsReal'
  <2>1. ASSUME NEW i \in RingSlots, i < q_count'
        PROVE  QueuedFd(i)' \in Fd
    <3>1. QueuedFd(i)' = job_queue[(q_head + (i + 1)) % MaxQueue]
      BY <1>1, SlotShift DEF QueuedFd
    <3>2. CASE i + 1 \in RingSlots
      <4>1. i + 1 < q_count
        BY <1>1, <2>1, QueueAssumption DEF RingSlots
      <4>2. QED BY <3>1, <3>2, <4>1 DEF ServedIsReal, QueuedFd
    <3>3. CASE i + 1 = MaxQueue
      <4>1. /\ q_head + (i + 1) = q_head + MaxQueue
            /\ q_head + MaxQueue \in MaxQueue..(2 * MaxQueue - 1)
            /\ (q_head + MaxQueue) - MaxQueue = q_head
        BY <3>3, QueueAssumption DEF RingSlots
      <4>2. (q_head + (i + 1)) % MaxQueue = q_head
        BY <4>1, ModWrap
      <4>3. QED BY <1>2, <3>1, <4>2
    <3>4. QED BY <3>2, <3>3, QueueAssumption DEF RingSlots
  <2>2. \A v \in Serving' : sock'[v] \in Fd
    BY <1>1, <1>2 DEF ServedIsReal, Serving
  <2>3. QED BY <2>1, <2>2 DEF ServedIsReal
<1>6. WakeupsCoverJobs'
  <2>1. Awake' = Awake \ {w} /\ w \in Awake /\ Asleep' = Asleep
    BY <1>1 DEF Awake, Asleep
  <2>2. Cardinality(Awake') = Cardinality(Awake) - 1
    BY <2>1, AwakeFinite, FS_RemoveElement
  <2>3. QED
    BY <1>1, <2>1, <2>2, AwakeFinite DEF WakeupsCoverJobs
<1>7. QED BY <1>3, <1>4, <1>5, <1>6

(* The steps of a worker that leave the ring buffer alone. *)
LEMMA OthersOverfull ==
    ASSUME RingInv, NEW w \in Worker,
           WaitForJob(w) \/ SpuriousWakeup(w) \/ HandleClient(w)
    PROVE  RingInv'
<1> USE DEF RingInv, RingTypes
<1>1. /\ UNCHANGED ringVars
      /\ \/ /\ pc[w] = "dequeue" /\ pc' = [pc EXCEPT ![w] = "wait"]
            /\ q_count = 0 /\ sock' = sock
         \/ /\ pc[w] \in {"wait", "serve"} /\ pc' = [pc EXCEPT ![w] = "dequeue"]
            /\ sock' \in {sock, [sock EXCEPT ![w] = NoFd]}
            /\ sock' # sock => pc[w] = "serve"
  BY DEF WaitForJob, SpuriousWakeup, HandleClient
<1>2. RingTypes' /\ TailAhead'
  BY <1>1 DEF TailAhead, ringVars
<1>3. ServedIsReal'
  <2>1. \A v \in Serving' : v \in Serving /\ sock'[v] = sock[v]
    BY <1>1 DEF Serving
  <2>2. QED BY <1>1, <2>1 DEF ServedIsReal, QueuedFd, ringVars
<1>4. WakeupsCoverJobs'
  <2>1. q_count' = q_count
    BY <1>1 DEF ringVars
  <2>2. CASE q_count = 0
    <3>1. IsFiniteSet(Awake') /\ Cardinality(Awake') \in Nat
      <4>1. Awake' \in SUBSET Worker
        BY DEF Awake
      <4>2. QED BY <4>1, QueueAssumption, FS_Subset, FS_CardinalityType
    <3>2. QED BY <2>1, <2>2, <3>1 DEF WakeupsCoverJobs
  <2>3. CASE pc[w] \in {"wait", "serve"} /\ pc' = [pc EXCEPT ![w] = "dequeue"]
    <3>1. Awake' = Awake \cup {w} /\ w \notin Awake /\ Asleep' \subseteq Asleep
      BY <2>3 DEF Awake, Asleep
    <3>2. Cardinality(Awake') = Cardinality(Awake) + 1
      BY <3>1, AwakeFinite, FS_AddElement
    <3>3. QED BY <2>1, <3>1, <3>2, AwakeFinite DEF WakeupsCoverJobs
  <2>4. QED BY <1>1, <2>2, <2>3
<1>5. QED BY <1>2, <1>3, <1>4

LEMMA OverfullStep == RingInv /\ [Next]_vars => RingInv'
<1> SUFFICES ASSUME RingInv, [Next]_vars
             PROVE  RingInv'
  OBVIOUS
<1>1. CASE UNCHANGED vars
  BY <1>1 DEF RingInv, RingTypes, TailAhead, ServedIsReal, WakeupsCoverJobs,
              QueuedFd, Serving, Awake, Asleep, vars, ringVars
<1>2. CASE Next
  BY <1>2, AcceptOverfull, TakeOverfull, OthersOverfull
     DEF Next, MainNext, WorkerNext, DequeueJob
<1>3. QED BY <1>1, <1>2

(* What holds of the ring buffer under any load. *)
SafeUnderOverload ==
    RingTypes /\ TailBehindHead /\ ServedIsReal /\ WakeupsCoverJobs

(* For any number of clients, an overflow included, the indices stay       *)
(* inside job_queue, q_count does not become negative, no worker serves    *)
(* what accept did not return, and no wakeup is lost.                      *)
THEOREM OverflowIsContained == Spec => []SafeUnderOverload
<1>1. Init => RingInv
  <2> SUFFICES ASSUME Init
               PROVE  RingInv
    OBVIOUS
  <2> USE DEF Init
  <2>1. RingTypes
    BY QueueAssumption DEF RingTypes, RingSlots
  <2>2. TailAhead
    <3>1. q_head + q_count = 0 * MaxQueue + q_tail /\ 0 \in Nat
      BY QueueAssumption
    <3>2. QED BY <3>1 DEF TailAhead
  <2>3. ServedIsReal /\ WakeupsCoverJobs
    BY QueueAssumption DEF ServedIsReal, WakeupsCoverJobs, Serving, Asleep, RingSlots
  <2>4. QED BY <2>1, <2>2, <2>3 DEF RingInv
<1>2. RingInv /\ [Next]_vars => RingInv'
  BY OverfullStep
<1>3. RingInv => SafeUnderOverload
  BY TailIsBehindHead DEF RingInv, SafeUnderOverload
<1>4. QED BY <1>1, <1>2, <1>3, PTL DEF Spec
=============================================================================
