--------------------------- MODULE ServerCtxAnswers ---------------------------
(***************************************************************************)
(* What a student may take from the answer to a submission.  A result goes *)
(* into the table in ctx_record_submission and is sent to the student      *)
(* later, without a lock in between, so a week switch can clear the table  *)
(* first.  The history variable recorded remembers which workers' last     *)
(* recording the table still holds; the theorems say that clearing the     *)
(* table is the only way to lose what a student has been told.             *)
(***************************************************************************)
EXTENDS ServerCtxProofs

VARIABLE recorded    \* history: workers that recorded since the last clearing

varsH == <<vars, recorded>>

(* The third phase of ctx_set_hw clears the table. *)
TableCleared == main.pc = "reset" /\ main'.pc = "close_csv"

(* Worker w calls ctx_record_submission. *)
Records(w) == pc[w] = "record" /\ pc'[w] = "check_csv"

InitH == Init /\ recorded = {}

NextH ==
    /\ Next
    /\ recorded' = IF TableCleared THEN {}
                   ELSE recorded \cup {w \in Worker : Records(w)}

SpecH == InitH /\ [][NextH]_varsH

-----------------------------------------------------------------------------
(* Properties.                                                             *)

(* Worker w has an attempt number for its student and has yet to send it.  *)
Answering(w) ==
    /\ pc[w] \in {"check_csv", "write_csv", "leave", "reply"}
    /\ task[w].attempt > 0

(* An answer on its way is in the table: the student has a record that has *)
(* counted at least that many attempts, and is among the solved ones if    *)
(* the answer is AC, provided the table has not been cleared since         *)
(* ctx_record_submission.  Other workers' recordings take nothing away.    *)
AnswerIsInTable ==
    \A w \in recorded : Answering(w) =>
        \E i \in Slots : /\ students[i].id = task[w].student
                         /\ task[w].attempt <= students[i].submit_count
                         /\ task[w].grade = "AC" => i \in SolvedSlots

(* Two submissions of one student graded at the same time are given        *)
(* different attempt numbers, as long as neither number is saturated:      *)
(* ctx_record_submission counts and reads the number under tracker_lock.   *)
AttemptNumbersDiffer ==
    \A v, w \in recorded :
        /\ v # w /\ Answering(v) /\ Answering(w)
        /\ task[v].student = task[w].student
        /\ task[v].attempt = task[w].attempt
        => task[v].attempt \in {CountMax, ReplyMax}

(* A step other than the clearing of the table takes nothing from a        *)
(* student: the record stays where it is, solved stays solved and is shown *)
(* as AC, and the number of attempts does not fall.                        *)
RecordsOnlyImprove ==
    [][~TableCleared =>
         \A i \in Slots : students[i].id # NoStudent =>
             /\ students'[i].id = students[i].id
             /\ students'[i].submit_count >= students[i].submit_count
             /\ students[i].submitted =>
                  students'[i].submitted /\ students'[i].best_result = "AC"]_students

-----------------------------------------------------------------------------
(* The inductive invariant.                                                *)

(* Before ctx_record_submission there is no attempt number. *)
NoAttemptYet ==
    \A w \in Worker :
        pc[w] \in {"grading", "result", "record"} => task[w].attempt = 0

InvH ==
    /\ Inv
    /\ recorded \subseteq Worker
    /\ NoAttemptYet
    /\ AnswerIsInTable
    /\ AttemptNumbersDiffer

-----------------------------------------------------------------------------
(* The table.                                                              *)

(* An attempt is counted, from zero on a free slot, up to the last number; *)
(* an accepted one makes the record a solved one.                          *)
LEMMA AttemptCounts ==
    ASSUME NEW slot \in StudentRecord, NEW s \in Student, NEW g \in Grade,
           slot.id \in {s, NoStudent},
           slot.id = NoStudent => ~slot.submitted
    PROVE  LET r == Attempted(slot, s, g)
               n == IF slot.id = s THEN slot.submit_count ELSE 0
           IN /\ r \in StudentRecord
              /\ r.id = s
              /\ n \in 0..CountMax
              /\ r.submit_count = IF n < CountMax THEN n + 1 ELSE n
              /\ slot.submitted \/ g = "AC" => r.submitted
<1> DEFINE r == Attempted(slot, s, g)
           n == IF slot.id = s THEN slot.submit_count ELSE 0
<1>1. r \in StudentRecord /\ r.id = s /\ (r.submitted <=> slot.submitted \/ g = "AC")
  BY AttemptedFacts
<1>2. n \in 0..CountMax
  BY ConstAssumption DEF StudentRecord
<1>3. r.submit_count = IF n < CountMax THEN n + 1 ELSE n
  <2>1. (IF slot.id = s THEN slot ELSE OpenedSlot(s)).submit_count = n
    BY DEF OpenedSlot
  <2>2. QED BY <2>1 DEF Attempted
<1>4. QED BY <1>1, <1>2, <1>3

(* The two scans never settle on another slot than the student's own. *)
LEMMA OwnSlot ==
    ASSUME Inv, NEW s \in Student, NEW i \in SlotFor(students, s),
           NEW j \in Slots, students[j].id = s
    PROVE  i = j
<1>0. MaxStudents \in Nat /\ NoStudent \notin Student
  BY ConstAssumption
<1>1. /\ i \in Slots /\ students[i].id \in {s, NoStudent}
      /\ \A k \in 1..(i - 1) : students[k].id \notin {s, NoStudent}
  BY DEF SlotFor
<1>2. ~(j < i)
  BY <1>0, <1>1 DEF Slots
<1>3. CASE i < j
  BY <1>0, <1>1, <1>3 DEF Inv, OneRecordPerStudent
<1>4. QED BY <1>0, <1>1, <1>2, <1>3 DEF Slots

(* What ctx_record_submission does when it finds a slot. *)
LEMMA RecordAnswer ==
    ASSUME Inv, NEW w \in Worker, RecordSubmission(w),
           SlotFor(students, task[w].student) # {}
    PROVE  \E i \in Slots :
             LET s == task[w].student
                 n == IF students[i].id = s THEN students[i].submit_count ELSE 0
                 m == IF n < CountMax THEN n + 1 ELSE n
             IN /\ s \in Student /\ n \in 0..CountMax
                /\ students[i].id \in {s, NoStudent}
                /\ \A j \in Slots : students[j].id = s => j = i
                /\ \A j \in Slots \ {i} : students'[j] = students[j]
                /\ students'[i] \in StudentRecord
                /\ students'[i].id = s
                /\ students'[i].submit_count = m
                /\ students[i].submitted \/ task[w].grade = "AC"
                      => students'[i].submitted
                /\ task'[w].attempt = Saturate(m, ReplyMax)
                /\ task'[w].student = s /\ task'[w].grade = task[w].grade
<1> DEFINE s == task[w].student
           g == task[w].grade
<1>1. s \in Student /\ g \in Grade
  BY DEF Inv, TypeOK, Tasks, JobHasStudent, RecordSubmission, Step
<1>2. PICK i \in SlotFor(students, s) :
        /\ students' = [students EXCEPT ![i] = Attempted(students[i], s, g)]
        /\ task' = [task EXCEPT ![w].attempt =
             Saturate(Attempted(students[i], s, g).submit_count, ReplyMax)]
  BY DEF RecordSubmission
<1>3. i \in Slots /\ students[i].id \in {s, NoStudent}
  BY <1>2 DEF SlotFor
<1>4. students[i] \in StudentRecord /\ (students[i].id = NoStudent => ~students[i].submitted)
  BY <1>3 DEF Inv, TypeOK, FreeSlotsUnsolved
<1> DEFINE r == Attempted(students[i], s, g)
           n == IF students[i].id = s THEN students[i].submit_count ELSE 0
<1>5. /\ r \in StudentRecord
      /\ r.id = s
      /\ n \in 0..CountMax
      /\ r.submit_count = IF n < CountMax THEN n + 1 ELSE n
      /\ students[i].submitted \/ g = "AC" => r.submitted
  BY <1>1, <1>3, <1>4, AttemptCounts
<1> HIDE DEF r
<1>6. students'[i] = r /\ \A j \in Slots \ {i} : students'[j] = students[j]
  BY <1>2, <1>3 DEF Inv, TypeOK, r
<1>7. \A j \in Slots : students[j].id = s => j = i
  BY <1>1, <1>2, OwnSlot
<1>8. /\ task'[w].attempt = Saturate(r.submit_count, ReplyMax)
      /\ task'[w].student = s /\ task'[w].grade = g
  BY <1>2 DEF Inv, TypeOK, Tasks, r
<1>9. QED BY <1>1, <1>3, <1>5, <1>6, <1>7, <1>8

-----------------------------------------------------------------------------
(* The steps.                                                              *)

(* One recording takes nothing from any record. *)
LEMMA RecordImproves ==
    ASSUME Inv, NEW w \in Worker, RecordSubmission(w), NEW j \in Slots,
           students[j].id # NoStudent
    PROVE  /\ students'[j].id = students[j].id
           /\ students'[j].submit_count >= students[j].submit_count
           /\ students[j].submitted => students'[j].submitted
<1>0. students[j].submit_count \in 0..CountMax /\ CountMax \in Nat
  BY ConstAssumption DEF Inv, TypeOK, StudentRecord
<1>1. CASE SlotFor(students, task[w].student) = {}
  BY <1>0, <1>1, RecordNothing
<1>2. CASE SlotFor(students, task[w].student) # {}
  <2> DEFINE s == task[w].student
             n(i) == IF students[i].id = s THEN students[i].submit_count ELSE 0
             m(i) == IF n(i) < CountMax THEN n(i) + 1 ELSE n(i)
  <2>1. PICK i \in Slots :
             /\ s \in Student /\ n(i) \in 0..CountMax
             /\ students[i].id \in {s, NoStudent}
             /\ \A k \in Slots \ {i} : students'[k] = students[k]
             /\ students'[i].id = s
             /\ students'[i].submit_count = m(i)
             /\ students[i].submitted => students'[i].submitted
    BY <1>2, RecordAnswer
  <2>2. CASE j = i
    BY <1>0, <2>1, <2>2
  <2>3. CASE j # i
    BY <1>0, <2>1, <2>3
  <2>4. QED BY <2>2, <2>3
<1>3. QED BY <1>1, <1>2

LEMMA NoAttemptStep == Inv /\ NoAttemptYet /\ [Next]_vars => NoAttemptYet'
<1> SUFFICES ASSUME Inv, NoAttemptYet, [Next]_vars
             PROVE  NoAttemptYet'
  OBVIOUS
<1> USE DEF NoAttemptYet
<1>1. ASSUME NEW w \in Worker, WorkerNext(w)
      PROVE  NoAttemptYet'
  <2>1. \A v \in Worker \ {w} : pc'[v] = pc[v] /\ task'[v] = task[v]
    BY <1>1, WorkerStepFacts DEF Inv
  <2>2. pc'[w] \in {"grading", "result", "record"} => task'[w].attempt = 0
    <3> USE DEF Inv, TypeOK, Tasks, Step
    <3>1. CASE StartJob(w)
      BY <3>1 DEF StartJob, NewTask
    <3>2. CASE DropJob(w) \/ SendResult(w)
      BY <3>2 DEF DropJob, SendResult
    <3>3. CASE GradeFault(w) \/ GradeOutput(w)
      BY <3>3 DEF GradeFault, GradeOutput
    <3>4. CASE EnterResult(w)
      BY <3>4 DEF EnterResult
    <3>5. CASE RecordSubmission(w) \/ CheckCsv(w) \/ WriteCsv(w) \/ LeaveResult(w)
      BY <3>5 DEF RecordSubmission, CheckCsv, WriteCsv, LeaveResult
    <3>6. QED
      BY <1>1, <3>1, <3>2, <3>3, <3>4, <3>5 DEF WorkerNext, WorkerFinish
  <2>3. QED BY <2>1, <2>2
<1>2. CASE MainNext
  BY <1>2, MainStepFacts
<1>3. CASE UNCHANGED vars
  BY <1>3 DEF vars, workerVars
<1>4. QED BY <1>1, <1>2, <1>3 DEF Next

(* Only the step of a recording adds to recorded, and only its worker. *)
LEMMA RecordedGrows ==
    ASSUME TypeOK, [Next]_vars, NEW v \in Worker, Records(v)
    PROVE  RecordSubmission(v)
<1> USE DEF Records
<1>1. ASSUME NEW w \in Worker, WorkerNext(w)
      PROVE  RecordSubmission(v)
  <2>1. v = w
    BY <1>1, WorkerStepFacts
  <2>2. QED
    BY <1>1, <2>1 DEF TypeOK, WorkerNext, WorkerFinish, StartJob, DropJob, GradeFault,
       GradeOutput, EnterResult, CheckCsv, WriteCsv, LeaveResult, SendResult, Step
<1>2. CASE MainNext
  BY <1>2, MainStepFacts
<1>3. CASE UNCHANGED vars
  BY <1>3 DEF vars, workerVars
<1>4. QED BY <1>1, <1>2, <1>3 DEF Next

(* The third phase is the clearing. *)
LEMMA ClearingIsReset ==
    ASSUME TypeOK, ResetTracker PROVE TableCleared
BY DEF ResetTracker, MainStep, TableCleared, TypeOK

(* Of an answer on its way, the worker's next step changes nothing but the *)
(* place; before the recording there is none.                              *)
LEMMA AnswerStays ==
    ASSUME Inv, NoAttemptYet, [Next]_vars, NEW v \in Worker, Answering(v)',
           ~RecordSubmission(v)
    PROVE  Answering(v) /\ task'[v] = task[v]
<1> USE DEF Answering
<1>1. ASSUME NEW w \in Worker, WorkerNext(w)
      PROVE  Answering(v) /\ task'[v] = task[v]
  <2>1. CASE v # w
    BY <1>1, <2>1, WorkerStepFacts DEF Inv
  <2>2. CASE v = w
    <3> USE DEF Inv, TypeOK, Step
    <3>1. CASE StartJob(w) \/ DropJob(w) \/ GradeFault(w) \/ GradeOutput(w)
                 \/ SendResult(w)
      BY <2>2, <3>1 DEF StartJob, DropJob, GradeFault, GradeOutput, SendResult
    <3>2. CASE EnterResult(w)
      BY <2>2, <3>2 DEF EnterResult, NoAttemptYet
    <3>3. CASE CheckCsv(w) \/ WriteCsv(w) \/ LeaveResult(w)
      BY <2>2, <3>3 DEF CheckCsv, WriteCsv, LeaveResult
    <3>4. QED
      BY <1>1, <2>2, <3>1, <3>2, <3>3 DEF WorkerNext, WorkerFinish
  <2>3. QED BY <2>1, <2>2
<1>2. CASE MainNext
  BY <1>2, MainStepFacts
<1>3. CASE UNCHANGED vars
  BY <1>3 DEF vars, workerVars
<1>4. QED BY <1>1, <1>2, <1>3 DEF Next

(* The recording of w: what becomes of the other answers. *)
LEMMA RecordKeepsAnswers ==
    ASSUME InvH, NEW w \in Worker, RecordSubmission(w),
           recorded' \subseteq recorded \cup {w}
    PROVE  AnswerIsInTable' /\ AttemptNumbersDiffer'
<1> USE DEF InvH
<1>0. /\ CountMax \in Nat /\ ReplyMax \in Nat /\ NoStudent \notin Student
      /\ \A v \in Worker : task[v].attempt \in 0..ReplyMax
      /\ \A i \in Slots : students[i].submit_count \in 0..CountMax
  BY ConstAssumption DEF Inv, TypeOK, Tasks, StudentRecord
<1>1. WorkerNext(w) /\ [Next]_vars
  BY DEF WorkerNext, WorkerFinish, Next
<1>2. \A v \in Worker \ {w} : pc'[v] = pc[v] /\ task'[v] = task[v]
  BY <1>1, WorkerStepFacts DEF Inv
<1>3. \A v \in Worker \ {w} : Answering(v)' => Answering(v)
  BY <1>2 DEF Answering
<1>4. \A v \in recorded' \ {w} : v \in recorded /\ v \in Worker /\ v # w
  OBVIOUS
<1>5. ASSUME NEW v \in recorded' \ {w}, Answering(v)'
      PROVE  \E i \in Slots : /\ students'[i].id = task'[v].student
                              /\ task'[v].attempt <= students'[i].submit_count
                              /\ task'[v].grade = "AC" => i \in SolvedSlots'
  <2>1. PICK i \in Slots : /\ students[i].id = task[v].student
                           /\ task[v].attempt <= students[i].submit_count
                           /\ task[v].grade = "AC" => i \in SolvedSlots
    BY <1>3, <1>4, <1>5 DEF AnswerIsInTable
  <2>2. students[i].id # NoStudent
    BY <1>0, <1>3, <1>4, <1>5, <2>1 DEF Answering, Inv, JobHasStudent
  <2>3. /\ students'[i].id = students[i].id
        /\ students'[i].submit_count >= students[i].submit_count
        /\ students[i].submitted => students'[i].submitted
    BY <2>2, RecordImproves
  <2>4. students'[i].submit_count \in Int
    BY <1>1, TypeStep, ConstAssumption DEF TypeOK, StudentRecord
  <2>5. i \in SolvedSlots => i \in SolvedSlots'
    BY <2>3 DEF SolvedSlots
  <2>6. task'[v] = task[v]
    BY <1>2, <1>4
  <2>7. task[v].attempt <= students'[i].submit_count
    BY <1>0, <1>4, <2>1, <2>3, <2>4
  <2>8. QED BY <2>1, <2>3, <2>5, <2>6, <2>7
<1>6. CASE SlotFor(students, task[w].student) = {}
  <2>1. task'[w].attempt = 0
    BY <1>6 DEF RecordSubmission, NoAttemptYet, Step
  <2>2. ~Answering(w)'
    BY <2>1 DEF Answering
  <2>3. AnswerIsInTable'
    BY <1>5, <2>2 DEF AnswerIsInTable
  <2>4. AttemptNumbersDiffer'
    BY <1>2, <1>3, <1>4, <2>2 DEF AttemptNumbersDiffer
  <2>5. QED BY <2>3, <2>4
<1>7. CASE SlotFor(students, task[w].student) # {}
  <2> DEFINE s == task[w].student
             n(i) == IF students[i].id = s THEN students[i].submit_count ELSE 0
             m(i) == IF n(i) < CountMax THEN n(i) + 1 ELSE n(i)
  <2>1. PICK i \in Slots :
             /\ s \in Student /\ n(i) \in 0..CountMax
             /\ \A j \in Slots : students[j].id = s => j = i
             /\ students'[i].id = s
             /\ students'[i].submit_count = m(i)
             /\ task[w].grade = "AC" => students'[i].submitted
             /\ task'[w].attempt = Saturate(m(i), ReplyMax)
             /\ task'[w].student = s /\ task'[w].grade = task[w].grade
    BY <1>7, RecordAnswer
  <2>2. m(i) \in 0..CountMax
    BY <1>0, <2>1
  <2>3. task'[w].attempt <= students'[i].submit_count
    BY <1>0, <2>1, <2>2 DEF Saturate
  <2>4. task'[w].grade = "AC" => i \in SolvedSlots'
    BY <2>1 DEF SolvedSlots
  <2>5. AnswerIsInTable'
    BY <1>5, <2>1, <2>3, <2>4 DEF AnswerIsInTable
  <2>6. ASSUME NEW v \in recorded' \ {w}, Answering(v)', task'[v].student = s,
               task'[v].attempt = task'[w].attempt
        PROVE  task'[v].attempt \in {CountMax, ReplyMax}
    <3>1. task'[v] = task[v]
      BY <1>2, <1>4
    <3>2. PICK j \in Slots : /\ students[j].id = task[v].student
                             /\ task[v].attempt <= students[j].submit_count
      BY <1>3, <1>4, <2>6 DEF AnswerIsInTable
    <3>3. j = i
      BY <2>1, <2>6, <3>1, <3>2
    <3>4. students[i].id = s /\ task[v].attempt <= students[i].submit_count
      BY <2>6, <3>1, <3>2, <3>3
    <3>5. n(i) = students[i].submit_count
      BY <3>4
    <3>6. task[v].attempt <= n(i)
      BY <3>4, <3>5
    <3>7. task[v].attempt = Saturate(m(i), ReplyMax) /\ task[v].attempt \in Nat
      BY <1>0, <1>4, <2>1, <2>6, <3>1
    <3>8. /\ n(i) \in 0..CountMax
          /\ m(i) = IF n(i) < CountMax THEN n(i) + 1 ELSE n(i)
      BY <2>1
    <3> HIDE DEF n, m
    <3>9. task[v].attempt = m(i) \/ task[v].attempt = ReplyMax
      BY <3>7 DEF Saturate
    <3>10. CASE task[v].attempt = m(i)
      BY <1>0, <3>1, <3>6, <3>8, <3>10
    <3>11. QED BY <3>1, <3>9, <3>10
  <2>7. AttemptNumbersDiffer'
    <3> SUFFICES ASSUME NEW u \in recorded', NEW v \in recorded', u # v,
                        Answering(u)', Answering(v)',
                        task'[u].student = task'[v].student,
                        task'[u].attempt = task'[v].attempt
                 PROVE  task'[u].attempt \in {CountMax, ReplyMax}
      BY DEF AttemptNumbersDiffer
    <3>1. CASE u = w
      BY <2>1, <2>6, <3>1
    <3>2. CASE v = w
      BY <2>1, <2>6, <3>2
    <3>3. CASE u # w /\ v # w
      BY <1>2, <1>3, <1>4, <3>3 DEF AttemptNumbersDiffer
    <3>4. QED BY <3>1, <3>2, <3>3
  <2>8. QED BY <2>5, <2>7
<1>8. QED BY <1>6, <1>7

LEMMA InvHStep == InvH /\ [NextH]_varsH => InvH'
<1> SUFFICES ASSUME InvH, [NextH]_varsH
             PROVE  InvH'
  OBVIOUS
<1>0. [Next]_vars
  BY DEF NextH, varsH
<1>1. Inv' /\ NoAttemptYet'
  BY <1>0, InvStep, NoAttemptStep DEF InvH
<1>2. recorded' \subseteq Worker
  BY DEF InvH, NextH, varsH
<1>3. AnswerIsInTable' /\ AttemptNumbersDiffer'
  <2>1. CASE TableCleared /\ NextH
    BY <2>1 DEF NextH, AnswerIsInTable, AttemptNumbersDiffer
  <2>2. CASE ~TableCleared /\ NextH
    <3>1. recorded' = recorded \cup {v \in Worker : Records(v)}
      BY <2>2 DEF NextH
    <3>2. ~ResetTracker
      BY <2>2, ClearingIsReset DEF InvH, Inv
    <3>3. ASSUME NEW w \in Worker, RecordSubmission(w)
          PROVE  AnswerIsInTable' /\ AttemptNumbersDiffer'
      <4>1. \A v \in Worker : Records(v) => v = w
        <5>1. WorkerNext(w)
          BY <3>3 DEF WorkerNext, WorkerFinish
        <5>2. QED BY <5>1, WorkerStepFacts DEF InvH, Inv, Records
      <4>2. recorded' \subseteq recorded \cup {w}
        BY <3>1, <4>1
      <4>3. QED BY <3>3, <4>2, RecordKeepsAnswers
    <3>4. CASE \A w \in Worker : ~RecordSubmission(w)
      <4>1. recorded' = recorded
        BY <1>0, <3>1, <3>4, RecordedGrows DEF InvH, Inv
      <4>2. students' = students /\ SolvedSlots' = SolvedSlots
        BY <1>0, <3>2, <3>4, TableUnchanged DEF SolvedSlots
      <4>3. \A v \in recorded : Answering(v)' => Answering(v) /\ task'[v] = task[v]
        BY <1>0, <3>4, AnswerStays DEF InvH
      <4>4. QED
        BY <4>1, <4>2, <4>3 DEF InvH, AnswerIsInTable, AttemptNumbersDiffer
    <3>5. QED BY <3>3, <3>4
  <2>3. CASE UNCHANGED varsH
    BY <2>3 DEF varsH, vars, trackerVars, workerVars, InvH, AnswerIsInTable,
                AttemptNumbersDiffer, Answering, SolvedSlots
  <2>4. QED BY <2>1, <2>2, <2>3
<1>4. QED BY <1>1, <1>2, <1>3 DEF InvH

LEMMA InvHAlways == SpecH => []InvH
<1>1. InitH => InvH
  BY InvInit DEF InitH, InvH, Init, IdleTask, NoAttemptYet, AnswerIsInTable,
                 AttemptNumbersDiffer
<1>2. InvH /\ [NextH]_varsH => InvH'
  BY InvHStep
<1>3. QED BY <1>1, <1>2, PTL DEF SpecH

-----------------------------------------------------------------------------
(* What a student is told stays true until the table is cleared: the       *)
(* answer to an accepted submission comes from a table that has the        *)
(* student among the solved, for any number of workers and any             *)
(* interleaving.  So AcceptedIsCounted fails by a clearing between         *)
(* recording and answer and in no other way.                               *)
THEOREM AnswersInTable == SpecH => []AnswerIsInTable
<1>1. InvH => AnswerIsInTable
  BY DEF InvH
<1>2. QED BY <1>1, InvHAlways, PTL

(* No two submissions of a student in flight are told the same attempt     *)
(* number below the numbers' limits.                                       *)
THEOREM AttemptsNumbered == SpecH => []AttemptNumbersDiffer
<1>1. InvH => AttemptNumbersDiffer
  BY DEF InvH
<1>2. QED BY <1>1, InvHAlways, PTL

(* Nothing but the clearing takes a record, a solved mark or a counted     *)
(* attempt from a student.                                                 *)
THEOREM RecordsKept == Spec => RecordsOnlyImprove
<1>1. ASSUME Inv, [Next]_vars, ~TableCleared, NEW i \in Slots,
             students[i].id # NoStudent
      PROVE  /\ students'[i].id = students[i].id
             /\ students'[i].submit_count >= students[i].submit_count
             /\ students[i].submitted =>
                  students'[i].submitted /\ students'[i].best_result = "AC"
  <2>1. ~ResetTracker
    BY <1>1, ClearingIsReset DEF Inv
  <2>2. /\ students'[i].id = students[i].id
        /\ students'[i].submit_count >= students[i].submit_count
        /\ students[i].submitted => students'[i].submitted
    <3>1. CASE \E w \in Worker : RecordSubmission(w)
      BY <1>1, <3>1, RecordImproves
    <3>2. CASE \A w \in Worker : ~RecordSubmission(w)
      <4>1. students[i].submit_count \in Int
        BY <1>1, ConstAssumption DEF Inv, TypeOK, StudentRecord
      <4>2. QED BY <1>1, <2>1, <3>2, <4>1, TableUnchanged
    <3>3. QED BY <3>1, <3>2
  <2>3. students'[i].submitted => students'[i].best_result = "AC"
    BY <1>1, <2>2, InvStep DEF Inv, CountIsSolvedStudents
  <2>4. QED BY <2>2, <2>3
<1>2. Inv /\ [Next]_vars =>
        [~TableCleared =>
           \A i \in Slots : students[i].id # NoStudent =>
               /\ students'[i].id = students[i].id
               /\ students'[i].submit_count >= students[i].submit_count
               /\ students[i].submitted =>
                    students'[i].submitted /\ students'[i].best_result = "AC"]_students
  BY <1>1
<1>3. QED BY <1>2, InvAlways, PTL DEF Spec, RecordsOnlyImprove
=============================================================================
