------------------------- MODULE ServerCtxRefinement -------------------------
(***************************************************************************)
(* The shared context implements ScoreBoard, for every number of workers,  *)
(* students, weeks and slots; and what the week comparison of              *)
(* build_and_send_result does and does not exclude.                        *)
(***************************************************************************)
EXTENDS ServerCtxProofs

(* The students with an accepted solution: ScoreBoard's solved. *)
Solved == {students[i].id : i \in SolvedSlots}

-----------------------------------------------------------------------------
(* No student has two records, so there are as many solved students as     *)
(* solved slots.                                                           *)
LEMMA SolvedCardinality ==
    ASSUME Inv
    PROVE  IsFiniteSet(Solved) /\ Cardinality(Solved) = submitted_count
<1> DEFINE f == [i \in SolvedSlots |-> students[i].id]
<1>1. f \in [SolvedSlots -> Solved]
  BY DEF Solved
<1>2. \A i, j \in SolvedSlots : students[i].id = students[j].id => i = j
  BY DEF Inv, OneRecordPerStudent, FreeSlotsUnsolved, SolvedSlots
<1>3. f \in Injection(SolvedSlots, Solved)
  BY <1>1, <1>2 DEF Injection, IsInjective
<1>4. f \in Surjection(SolvedSlots, Solved)
  BY <1>1 DEF Surjection, Solved
<1>5. QED
  BY <1>3, <1>4, SolvedBound, FS_Surjection DEF Inv, CountIsSolvedStudents

(* A step that leaves the solved slots and the table alone is invisible. *)
LEMMA BoardStutter ==
    ASSUME UNCHANGED <<students, submitted_count>>
    PROVE  Solved' = Solved /\ submitted_count' = submitted_count
BY DEF Solved, SolvedSlots

(* A recording solves the problem for one more student or changes nothing. *)
LEMMA RecordOnBoard ==
    ASSUME Inv, Inv', NEW w \in Worker, RecordSubmission(w)
    PROVE  \/ \E s \in Student :
                /\ s \notin Solved /\ Cardinality(Solved) < MaxStudents
                /\ Solved' = Solved \cup {s}
                /\ submitted_count' = Cardinality(Solved')
           \/ Solved' = Solved /\ submitted_count' = submitted_count
<1> DEFINE s == task[w].student
           new(i) == FirstAC(students[i], s, task[w].grade)
<1>1. CASE SlotFor(students, s) = {}
  BY <1>1, RecordNothing, BoardStutter
<1>2. CASE SlotFor(students, s) # {}
  <2>1. PICK i \in Slots :
           /\ s \in Student
           /\ students[i].id \in {s, NoStudent}
           /\ students'[i].id = s
           /\ \A j \in Slots \ {i} : students'[j] = students[j]
           /\ new(i) => i \notin SolvedSlots
           /\ SolvedSlots' = IF new(i) THEN SolvedSlots \cup {i} ELSE SolvedSlots
           /\ submitted_count' = submitted_count + (IF new(i) THEN 1 ELSE 0)
    BY <1>2, RecordSolved
  <2> HIDE DEF new, s
  <2>2. SolvedSlots \subseteq Slots /\ SolvedSlots' \subseteq Slots
    BY DEF SolvedSlots
  <2>3. \A j \in SolvedSlots : students'[j].id = students[j].id
    <3>1. i \in SolvedSlots => students[i].id = s
      BY <2>1 DEF Inv, FreeSlotsUnsolved, SolvedSlots
    <3>2. QED BY <2>1, <2>2, <3>1
  <2>4. CASE new(i)
    <3>1. Solved' = Solved \cup {s}
      BY <2>1, <2>3, <2>4 DEF Solved
    <3>2. s \notin Solved
      <4>1. SUFFICES ASSUME NEW j \in SolvedSlots, students[j].id = s
                     PROVE  FALSE
        BY DEF Solved
      <4>2. j # i /\ students'[j].id = students'[i].id /\ students'[i].id # NoStudent
        BY <2>1, <2>3, <2>4, <4>1, ConstAssumption
      <4>3. QED BY <2>1, <2>2, <4>1, <4>2 DEF Inv, OneRecordPerStudent
    <3>3. /\ IsFiniteSet(Solved) /\ Cardinality(Solved) = submitted_count
          /\ submitted_count \in Nat
      BY SolvedCardinality DEF Inv, TypeOK
    <3>4. submitted_count' = submitted_count + 1
      BY <2>1, <2>4
    <3>5. submitted_count < MaxStudents
      BY <3>3, <3>4, ConstAssumption DEF Inv, TypeOK
    <3>6. Cardinality(Solved') = submitted_count + 1
      BY <3>1, <3>2, <3>3, FS_AddElement
    <3>7. QED BY <2>1, <3>1, <3>2, <3>3, <3>4, <3>5, <3>6
  <2>5. CASE ~new(i)
    <3>1. Solved' = Solved
      BY <2>1, <2>3, <2>5 DEF Solved
    <3>2. submitted_count' = submitted_count
      BY <2>1, <2>5 DEF Inv, TypeOK
    <3>3. QED BY <3>1, <3>2
  <2>6. QED BY <2>4, <2>5
<1>3. QED BY <1>1, <1>2

(* ScoreBoard counts with the same Cardinality. *)
LEMMA SameCardinality == ASSUME NEW S PROVE Board!Cardinality(S) = Cardinality(S)
BY DEF Board!Cardinality, Cardinality

LEMMA BoardStep ==
    ASSUME Inv, Inv', [Next]_vars
    PROVE  [Board!Next]_(Board!boardVars)
<1> USE DEF Board!Next, Board!boardVars, Solved
<1>1. CASE ResetTracker
  <2>1. SolvedSlots' = {} /\ submitted_count' = 0
    BY <1>1 DEF ResetTracker, SolvedSlots, FreeSlot
  <2>2. Board!NewWeek
    BY <2>1 DEF Board!NewWeek
  <2>3. QED BY <2>2
<1>2. ASSUME NEW w \in Worker, RecordSubmission(w)
      PROVE  [Board!Next]_(Board!boardVars)
  <2>1. CASE \E s \in Student :
                /\ s \notin Solved /\ Cardinality(Solved) < MaxStudents
                /\ Solved' = Solved \cup {s}
                /\ submitted_count' = Cardinality(Solved')
    <3>1. \E s \in Student : Board!Solve(s)
      BY <2>1, SameCardinality DEF Board!Solve
    <3>2. QED BY <3>1
  <2>2. CASE Solved' = Solved /\ submitted_count' = submitted_count
    BY <2>2
  <2>3. QED BY <1>2, <2>1, <2>2, RecordOnBoard
<1>3. CASE ~ResetTracker /\ \A w \in Worker : ~RecordSubmission(w)
  BY <1>3, TableUnchanged, BoardStutter
<1>4. QED BY <1>1, <1>2, <1>3

(* The tracker of server_ctx.c, with its locks, its phases and its slots,  *)
(* implements the score board: within a week the solved students only      *)
(* grow, the count shown is theirs at every moment, and only a week switch *)
(* clears both.                                                            *)
THEOREM BoardImplemented == Spec => BoardSpec
<1>1. Init => Board!Init
  <2> SUFFICES ASSUME Init PROVE Board!Init
    OBVIOUS
  <2>1. SolvedSlots = {} /\ submitted_count = 0
    BY DEF Init, SolvedSlots, FreeSlot
  <2>2. QED BY <2>1 DEF Board!Init
<1>2. Inv /\ Inv' /\ [Next]_vars => [Board!Next]_(Board!boardVars)
  BY BoardStep
<1>3. QED
  BY <1>1, <1>2, InvAlways, PTL DEF Spec, BoardSpec, Board!Spec

-----------------------------------------------------------------------------
(* The week a worker copied is the one in force until a switch begins, and *)
(* a foreign answer file was read after a switch had begun: one switch     *)
(* later its week is still in force, or another switch has begun.          *)
ForeignAnswerInv ==
    \A w \in Worker :
        /\ pc[w] # "idle" =>
             /\ task[w].epoch <= epoch
             /\ task[w].epoch = epoch => current_hw = task[w].hw
        /\ task[w].ans \notin {NoWeek, task[w].hw} =>
             /\ epoch >= task[w].epoch + 1
             /\ epoch = task[w].epoch + 1 => current_hw = task[w].ans

LEMMA ForeignAnswerStep ==
    Inv /\ ForeignAnswerInv /\ [Next]_vars => ForeignAnswerInv'
<1> SUFFICES ASSUME Inv, ForeignAnswerInv, [Next]_vars
             PROVE  ForeignAnswerInv'
  OBVIOUS
<1>0. /\ epoch \in Nat /\ task \in [Worker -> Tasks] /\ pc \in [Worker -> WorkerPc]
      /\ \A w \in Worker : task[w].epoch \in Nat
  BY DEF Inv, TypeOK, Tasks
<1>1. ASSUME NEW w \in Worker, WorkerNext(w)
      PROVE  ForeignAnswerInv'
  <2>1. /\ epoch' = epoch /\ current_hw' = current_hw
        /\ \A v \in Worker \ {w} : pc'[v] = pc[v] /\ task'[v] = task[v]
    BY <1>1, WorkerStepFacts DEF Inv
  <2>2. /\ pc'[w] # "idle" =>
             /\ task'[w].epoch <= epoch
             /\ task'[w].epoch = epoch => current_hw = task'[w].hw
        /\ task'[w].ans \notin {NoWeek, task'[w].hw} =>
             /\ epoch >= task'[w].epoch + 1
             /\ epoch = task'[w].epoch + 1 => current_hw = task'[w].ans
    <3> USE <1>0 DEF ForeignAnswerInv, Step
    <3>1. CASE StartJob(w)
      BY <3>1 DEF StartJob, NewTask
    <3>2. CASE DropJob(w)
      BY <3>2 DEF DropJob, IdleTask
    <3>3. CASE GradeFault(w)
      BY <3>3 DEF GradeFault, Tasks
    <3>4. CASE GradeOutput(w)
      BY <3>4 DEF GradeOutput, Tasks
    <3>5. CASE EnterResult(w)
      BY <3>5 DEF EnterResult
    <3>6. CASE RecordSubmission(w)
      BY <3>6 DEF RecordSubmission, Tasks
    <3>7. CASE CheckCsv(w)
      BY <3>7 DEF CheckCsv
    <3>8. CASE WriteCsv(w)
      BY <3>8 DEF WriteCsv
    <3>9. CASE LeaveResult(w)
      BY <3>9 DEF LeaveResult
    <3>10. CASE SendResult(w)
      BY <3>10 DEF SendResult, IdleTask
    <3>11. QED
      BY <1>1, <3>1, <3>2, <3>3, <3>4, <3>5, <3>6, <3>7, <3>8, <3>9, <3>10
         DEF WorkerNext, WorkerFinish
  <2>3. QED BY <2>1, <2>2 DEF ForeignAnswerInv
<1>2. CASE SwitchHw
  BY <1>0, <1>2, MainStepFacts DEF SwitchHw, ForeignAnswerInv, workerVars
<1>3. CASE MainNext /\ ~SwitchHw
  BY <1>3, MainStepFacts DEF ForeignAnswerInv
<1>4. CASE UNCHANGED vars
  BY <1>4 DEF ForeignAnswerInv, vars, hwVars, workerVars
<1>5. QED BY <1>1, <1>2, <1>3, <1>4 DEF Next

(* A result judged against another week's answer file gets into the        *)
(* tracker or the CSV file only by two or more week switches during one    *)
(* grading: comparing the week names suffices against a single switch, and *)
(* does not against a switch back.                                         *)
THEOREM ForeignAnswerRare == Spec => []ForeignAnswerNeedsTwoSwitches
<1>1. Init => ForeignAnswerInv
  BY DEF Init, ForeignAnswerInv, IdleTask
<1>2. Inv /\ ForeignAnswerInv /\ [Next]_vars => ForeignAnswerInv'
  BY ForeignAnswerStep
<1>3. Inv /\ ForeignAnswerInv => ForeignAnswerNeedsTwoSwitches
  <2> SUFFICES ASSUME Inv, ForeignAnswerInv, NEW w \in Worker, pc[w] \in Recording,
                      task[w].ans \notin {NoWeek, task[w].hw}
               PROVE  epoch >= task[w].epoch + 2
    BY DEF ForeignAnswerNeedsTwoSwitches
  <2>1. current_hw = task[w].hw
    BY DEF Inv, RecordingWeekIsCurrent
  <2>2. epoch \in Nat /\ task[w].epoch \in Nat
    BY DEF Inv, TypeOK, Tasks
  <2>3. QED BY <2>1, <2>2 DEF ForeignAnswerInv
<1>4. QED BY <1>1, <1>2, <1>3, InvAlways, PTL DEF Spec
=============================================================================
