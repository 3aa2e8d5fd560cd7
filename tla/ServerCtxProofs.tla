--------------------------- MODULE ServerCtxProofs ---------------------------
(***************************************************************************)
(* Theorems about ServerCtx for every number of workers, students, weeks   *)
(* and table slots.  Inv is the inductive invariant: the properties the    *)
(* runs check, and what they need to be preserved together.                *)
(***************************************************************************)
EXTENDS ServerCtx, FiniteSetTheorems, TLAPS

(* A worker between EnterResult and LeaveResult holds hw_lock. *)
HoldsHwLock ==
    \A w \in Worker : pc[w] \in Recording \cup {"leave"} => w \in readers

(* A worker at work has a student, and a week to grade for. *)
JobHasStudent ==
    \A w \in Worker : pc[w] # "idle" => task[w].student \in Student

(* From the first phase of a switch to its last, the week being set is a   *)
(* week, and from the second on it is the one in force.                    *)
SwitchPhases ==
    /\ main.pc \in {"wrlock", "reset", "close_csv", "open_csv"} => main.week \in Week
    /\ main.pc \in {"reset", "close_csv", "open_csv"} => main.week = current_hw
    /\ main.pc = "open_csv" => csv_fd = NoWeek

(* A free slot does not count as solved. *)
FreeSlotsUnsolved ==
    \A i \in Slots : students[i].id = NoStudent => ~students[i].submitted

(* The open file exists, and nothing is in a file that does not exist. *)
FilesMade ==
    /\ csv_fd \in csv_made \cup {NoWeek}
    /\ \A k \in Week \ csv_made : csv_file[k] = <<>>

HeadersFirst(files) ==
    \A k \in Week : \A i \in 1..Len(files[k]) : files[k][i] = Header => i = 1

Inv ==
    /\ TypeOK
    /\ HoldsHwLock
    /\ JobHasStudent
    /\ SwitchPhases
    /\ FreeSlotsUnsolved
    /\ FilesMade
    /\ CountIsSolvedStudents
    /\ OneRecordPerStudent
    /\ RecordingWeekIsCurrent
    /\ TrackerHoldsCurrentWeek
    /\ OpenCsvIsCurrentWeeks
    /\ HeaderOnlyFirst

-----------------------------------------------------------------------------
(* The student table.                                                      *)

(* The slot record after one more attempt: it is the student's, it is      *)
(* solved if it was or the attempt is accepted, and its best result says   *)
(* so provided it did before.                                              *)
LEMMA AttemptedFacts ==
    ASSUME NEW slot \in StudentRecord, NEW s \in Student, NEW g \in Grade,
           slot.id \in {s, NoStudent},
           slot.id = NoStudent => ~slot.submitted
    PROVE  LET r == Attempted(slot, s, g)
           IN /\ r \in StudentRecord
              /\ r.id = s
              /\ r.submitted <=> slot.submitted \/ g = "AC"
              /\ FirstAC(slot, s, g) <=> r.submitted /\ ~slot.submitted
              /\ (slot.id = s => (slot.submitted <=> slot.best_result = "AC"))
                   => (r.submitted <=> r.best_result = "AC")
<1> DEFINE r0 == IF slot.id = s THEN slot ELSE OpenedSlot(s)
           r  == Attempted(slot, s, g)
<1>1. CountMax \in Nat /\ NoStudent \notin Student
  BY ConstAssumption
<1>2. r0 \in StudentRecord /\ r0.id = s /\ (r0.submitted <=> slot.submitted)
  BY <1>1 DEF StudentRecord, OpenedSlot, Grade
<1>3. (slot.id = s => (slot.submitted <=> slot.best_result = "AC"))
        => (r0.submitted <=> r0.best_result = "AC")
  BY <1>1 DEF StudentRecord, OpenedSlot
<1>4. /\ r = [id           |-> s,
             submitted    |-> r0.submitted \/ g = "AC",
             best_result  |-> IF \/ g = "AC" /\ r0.submitted
                                 \/ g # "AC" /\ r0.best_result = "AC"
                              THEN r0.best_result ELSE g,
             submit_count |-> IF r0.submit_count < CountMax
                              THEN r0.submit_count + 1 ELSE r0.submit_count]
  BY DEF Attempted
<1> HIDE DEF r0
<1>5. r \in StudentRecord
  <2>1. r0.submit_count \in 0..CountMax /\ r0.best_result \in Grade
        /\ r0.submitted \in BOOLEAN /\ r0.id \in Student \cup {NoStudent}
    BY <1>2 DEF StudentRecord
  <2>2. (IF r0.submit_count < CountMax
         THEN r0.submit_count + 1 ELSE r0.submit_count) \in 0..CountMax
    BY <1>1, <2>1
  <2>3. QED BY <1>4, <2>1, <2>2 DEF StudentRecord
<1>6. r.id = s /\ (r.submitted <=> slot.submitted \/ g = "AC")
  <2>1. r.submitted = (r0.submitted \/ g = "AC") /\ r.id = s
    BY <1>4
  <2> HIDE DEF r
  <2>2. QED BY <1>2, <2>1
<1>7. FirstAC(slot, s, g) <=> r.submitted /\ ~slot.submitted
  BY <1>6 DEF FirstAC
<1>8. (slot.id = s => (slot.submitted <=> slot.best_result = "AC"))
        => (r.submitted <=> r.best_result = "AC")
  <2>1. /\ r.submitted = (r0.submitted \/ g = "AC")
        /\ r.best_result = IF \/ g = "AC" /\ r0.submitted
                              \/ g # "AC" /\ r0.best_result = "AC"
                           THEN r0.best_result ELSE g
    BY <1>4
  <2>2. r0.submitted \in BOOLEAN /\ r.submitted \in BOOLEAN
    BY <1>2, <1>5 DEF StudentRecord
  <2> HIDE DEF r
  <2>3. QED BY <1>3, <2>1, <2>2
<1>9. QED BY <1>5, <1>6, <1>7, <1>8

(* The solved slots are finitely many, at most as many as there are slots. *)
LEMMA SolvedBound ==
    /\ IsFiniteSet(SolvedSlots)
    /\ Cardinality(SolvedSlots) \in 0..MaxStudents
<1>1. MaxStudents \in Nat
  BY ConstAssumption
<1>2. IsFiniteSet(Slots) /\ Cardinality(Slots) = MaxStudents
  BY <1>1, FS_Interval DEF Slots
<1>3. SolvedSlots \in SUBSET Slots
  BY DEF SolvedSlots
<1>4. IsFiniteSet(SolvedSlots) /\ Cardinality(SolvedSlots) <= MaxStudents
  BY <1>2, <1>3, FS_Subset
<1>5. Cardinality(SolvedSlots) \in Nat
  BY <1>4, FS_CardinalityType
<1>6. QED BY <1>1, <1>4, <1>5

(* Recording an attempt when a slot is found: what becomes of the table.   *)
LEMMA RecordFacts ==
    ASSUME TypeOK, JobHasStudent, FreeSlotsUnsolved, NEW w \in Worker,
           RecordSubmission(w), SlotFor(students, task[w].student) # {}
    PROVE  \E i \in Slots :
             LET s == task[w].student
                 g == task[w].grade
             IN /\ s \in Student /\ g \in Grade
                /\ i \in SlotFor(students, s)
                /\ students[i] \in StudentRecord
                /\ students[i].id \in {s, NoStudent}
                /\ students[i].id = NoStudent => ~students[i].submitted
                /\ \A j \in 1..(i - 1) : students[j].id \notin {s, NoStudent}
                /\ students' = [students EXCEPT ![i] = Attempted(students[i], s, g)]
                /\ submitted_count' = submitted_count +
                        (IF FirstAC(students[i], s, g) THEN 1 ELSE 0)
<1> DEFINE s == task[w].student
           g == task[w].grade
<1>1. s \in Student /\ g \in Grade
  BY DEF TypeOK, Tasks, JobHasStudent, RecordSubmission, Step
<1>2. PICK i \in SlotFor(students, s) :
        /\ students' = [students EXCEPT ![i] = Attempted(students[i], s, g)]
        /\ submitted_count' = submitted_count +
               (IF FirstAC(students[i], s, g) THEN 1 ELSE 0)
  BY DEF RecordSubmission
<1>3. /\ i \in Slots /\ students[i].id \in {s, NoStudent}
      /\ \A j \in 1..(i - 1) : students[j].id \notin {s, NoStudent}
  BY <1>2 DEF SlotFor
<1>4. students[i] \in StudentRecord
  BY <1>3 DEF TypeOK
<1>5. students[i].id = NoStudent => ~students[i].submitted
  BY <1>3 DEF FreeSlotsUnsolved
<1>6. QED BY <1>1, <1>2, <1>3, <1>4, <1>5

-----------------------------------------------------------------------------
(* Steps that leave a group of variables alone.                            *)

(* Only recording and the second phase of a switch touch the table. *)
LEMMA TableUnchanged ==
    ASSUME [Next]_vars, ~ResetTracker, \A w \in Worker : ~RecordSubmission(w)
    PROVE  UNCHANGED <<students, submitted_count, tracker_weeks>>
<1>1. CASE MainNext
  BY <1>1 DEF MainNext, SwitchNext, RequestSwitch, SwitchHw, CloseCsv, OpenCsv,
              SetStudents, SnapCounts, SnapList, trackerVars
<1>2. CASE \E w \in Worker : WorkerNext(w)
  BY <1>2 DEF WorkerNext, WorkerFinish, StartJob, DropJob, GradeFault, GradeOutput,
              EnterResult, CheckCsv, WriteCsv, LeaveResult, SendResult, trackerVars
<1>3. CASE UNCHANGED vars
  BY <1>3 DEF vars, trackerVars
<1>4. QED BY <1>1, <1>2, <1>3 DEF Next

(* Recording into a full table changes nothing in it. *)
LEMMA RecordNothing ==
    ASSUME NEW w \in Worker, RecordSubmission(w),
           SlotFor(students, task[w].student) = {}
    PROVE  UNCHANGED <<students, submitted_count, tracker_weeks>>
BY DEF RecordSubmission

-----------------------------------------------------------------------------
(* The table invariants are preserved.                                     *)

LEMMA OneRecordStep ==
    Inv /\ [Next]_vars => OneRecordPerStudent' /\ FreeSlotsUnsolved'
<1> SUFFICES ASSUME Inv, [Next]_vars
             PROVE  OneRecordPerStudent' /\ FreeSlotsUnsolved'
  OBVIOUS
<1>0. NoStudent \notin Student /\ MaxStudents \in Nat
  BY ConstAssumption
<1>1. CASE ResetTracker
  BY <1>1 DEF ResetTracker, OneRecordPerStudent, FreeSlotsUnsolved, FreeSlot
<1>2. ASSUME NEW w \in Worker, RecordSubmission(w)
      PROVE  OneRecordPerStudent' /\ FreeSlotsUnsolved'
  <2>1. CASE SlotFor(students, task[w].student) = {}
    BY <1>2, <2>1, RecordNothing DEF Inv, OneRecordPerStudent, FreeSlotsUnsolved
  <2>2. CASE SlotFor(students, task[w].student) # {}
    <3> DEFINE s == task[w].student
               g == task[w].grade
    <3>1. PICK i \in Slots :
             /\ s \in Student /\ g \in Grade
             /\ students[i] \in StudentRecord
             /\ students[i].id \in {s, NoStudent}
             /\ students[i].id = NoStudent => ~students[i].submitted
             /\ \A j \in 1..(i - 1) : students[j].id \notin {s, NoStudent}
             /\ students' = [students EXCEPT ![i] = Attempted(students[i], s, g)]
      BY <1>2, <2>2, RecordFacts DEF Inv
    <3>2. Attempted(students[i], s, g).id = s
      BY <3>1, AttemptedFacts
    <3>3. students \in [Slots -> StudentRecord]
      BY DEF Inv, TypeOK
    <3>4. \A j \in Slots : students'[j].id = IF j = i THEN s ELSE students[j].id
      BY <3>1, <3>2, <3>3
    <3>5. \A j \in Slots \ {i} : students[j].id # s
      <4>1. SUFFICES ASSUME NEW j \in Slots, j # i, students[j].id = s
                     PROVE  FALSE
        OBVIOUS
      <4>2. ~(j < i)
        BY <1>0, <3>1, <4>1 DEF Slots
      <4>3. students[i].id = NoStudent
        BY <1>0, <3>1, <4>1 DEF Inv, OneRecordPerStudent
      <4>4. students[j].id = NoStudent
        BY <1>0, <4>1, <4>2, <4>3 DEF Inv, OneRecordPerStudent, Slots
      <4>5. QED BY <1>0, <3>1, <4>1, <4>4
    <3>6. \A j, k \in Slots :
             students'[j].id = students'[k].id /\ students'[j].id # NoStudent => j = k
      BY <3>4, <3>5 DEF Inv, OneRecordPerStudent
    <3>7. \A j, k \in Slots :
             j < k /\ students'[j].id = NoStudent => students'[k].id = NoStudent
      <4>1. SUFFICES ASSUME NEW j \in Slots, NEW k \in Slots, j < k,
                            students'[j].id = NoStudent
                     PROVE  students'[k].id = NoStudent
        OBVIOUS
      <4>2. j # i /\ students[j].id = NoStudent
        BY <1>0, <3>1, <3>4, <4>1
      <4>3. k # i
        BY <1>0, <3>1, <4>1, <4>2 DEF Slots
      <4>4. QED BY <3>4, <4>1, <4>2, <4>3 DEF Inv, OneRecordPerStudent
    <3>8. FreeSlotsUnsolved'
      BY <1>0, <3>1, <3>3, <3>4 DEF Inv, FreeSlotsUnsolved
    <3>9. QED BY <3>6, <3>7, <3>8 DEF OneRecordPerStudent
  <2>3. QED BY <2>1, <2>2
<1>3. CASE ~ResetTracker /\ \A w \in Worker : ~RecordSubmission(w)
  BY <1>3, TableUnchanged DEF Inv, OneRecordPerStudent, FreeSlotsUnsolved
<1>4. QED BY <1>1, <1>2, <1>3

(* One recording adds at most its own slot to the solved ones, and the     *)
(* count follows.                                                          *)
LEMMA RecordSolved ==
    ASSUME Inv, NEW w \in Worker, RecordSubmission(w),
           SlotFor(students, task[w].student) # {}
    PROVE  \E i \in Slots :
             LET s == task[w].student
                 new == FirstAC(students[i], s, task[w].grade)
             IN /\ s \in Student
                /\ students[i].id \in {s, NoStudent}
                /\ students'[i].id = s
                /\ \A j \in Slots \ {i} : students'[j] = students[j]
                /\ students'[i] \in StudentRecord
                /\ new => i \notin SolvedSlots
                /\ SolvedSlots' = IF new THEN SolvedSlots \cup {i} ELSE SolvedSlots
                /\ submitted_count' = submitted_count + (IF new THEN 1 ELSE 0)
                /\ students'[i].submitted <=> students'[i].best_result = "AC"
<1> DEFINE s == task[w].student
           g == task[w].grade
<1>1. PICK i \in Slots :
         /\ s \in Student /\ g \in Grade
         /\ students[i] \in StudentRecord
         /\ students[i].id \in {s, NoStudent}
         /\ students[i].id = NoStudent => ~students[i].submitted
         /\ students' = [students EXCEPT ![i] = Attempted(students[i], s, g)]
         /\ submitted_count' = submitted_count +
                (IF FirstAC(students[i], s, g) THEN 1 ELSE 0)
  BY RecordFacts DEF Inv
<1> DEFINE r == Attempted(students[i], s, g)
<1>2. /\ r \in StudentRecord
      /\ r.id = s
      /\ r.submitted <=> students[i].submitted \/ g = "AC"
      /\ FirstAC(students[i], s, g) <=> r.submitted /\ ~students[i].submitted
      /\ (students[i].id = s => (students[i].submitted <=> students[i].best_result = "AC"))
            => (r.submitted <=> r.best_result = "AC")
  BY <1>1, AttemptedFacts
<1>3. students \in [Slots -> StudentRecord] /\ NoStudent \notin Student
  BY ConstAssumption DEF Inv, TypeOK
<1>4. students'[i] = r /\ \A j \in Slots \ {i} : students'[j] = students[j]
  BY <1>1, <1>3
<1>5. students[i].id = s => (students[i].submitted <=> students[i].best_result = "AC")
  BY <1>1, <1>3 DEF Inv, CountIsSolvedStudents
<1> HIDE DEF r
<1>6. FirstAC(students[i], s, g) => i \notin SolvedSlots
  BY <1>2 DEF SolvedSlots
<1>7. SolvedSlots' = IF FirstAC(students[i], s, g)
                     THEN SolvedSlots \cup {i} ELSE SolvedSlots
  <2>1. \A j \in Slots \ {i} : j \in SolvedSlots' <=> j \in SolvedSlots
    BY <1>4 DEF SolvedSlots
  <2>2. i \in SolvedSlots' <=> r.submitted
    BY <1>1, <1>4 DEF SolvedSlots
  <2>3. i \in SolvedSlots <=> students[i].submitted
    BY <1>1 DEF SolvedSlots
  <2>4. SolvedSlots \subseteq Slots /\ SolvedSlots' \subseteq Slots
    BY DEF SolvedSlots
  <2>5. CASE FirstAC(students[i], s, g)
    BY <1>1, <1>2, <2>1, <2>2, <2>4, <2>5
  <2>6. CASE ~FirstAC(students[i], s, g)
    <3>1. i \in SolvedSlots' <=> i \in SolvedSlots
      BY <1>2, <2>2, <2>3, <2>6
    <3>2. SolvedSlots' = SolvedSlots
      BY <2>1, <2>4, <3>1
    <3>3. QED BY <2>6, <3>2
  <2>7. QED BY <2>5, <2>6
<1>8. QED BY <1>1, <1>2, <1>4, <1>5, <1>6, <1>7

LEMMA CountStep == Inv /\ [Next]_vars => CountIsSolvedStudents'
<1> SUFFICES ASSUME Inv, [Next]_vars
             PROVE  CountIsSolvedStudents'
  OBVIOUS
<1>1. CASE ResetTracker
  <2>1. SolvedSlots' = {} /\ submitted_count' = 0
    BY <1>1 DEF ResetTracker, SolvedSlots, FreeSlot
  <2>2. \A i \in Slots : students'[i].id = NoStudent
    BY <1>1 DEF ResetTracker, FreeSlot
  <2>3. QED BY <2>1, <2>2, FS_EmptySet DEF CountIsSolvedStudents
<1>2. ASSUME NEW w \in Worker, RecordSubmission(w)
      PROVE  CountIsSolvedStudents'
  <2>1. CASE SlotFor(students, task[w].student) = {}
    <3>1. SolvedSlots' = SolvedSlots
      BY <1>2, <2>1, RecordNothing DEF SolvedSlots
    <3>2. QED
      BY <1>2, <2>1, <3>1, RecordNothing DEF Inv, CountIsSolvedStudents
  <2>2. CASE SlotFor(students, task[w].student) # {}
    <3> DEFINE new(i) == FirstAC(students[i], task[w].student, task[w].grade)
    <3>1. PICK i \in Slots :
             /\ \A j \in Slots \ {i} : students'[j] = students[j]
             /\ students'[i] \in StudentRecord
             /\ new(i) => i \notin SolvedSlots
             /\ SolvedSlots' = IF new(i) THEN SolvedSlots \cup {i} ELSE SolvedSlots
             /\ submitted_count' = submitted_count + (IF new(i) THEN 1 ELSE 0)
             /\ students'[i].submitted <=> students'[i].best_result = "AC"
      BY <1>2, <2>2, RecordSolved
    <3> HIDE DEF new
    <3>2. submitted_count' = Cardinality(SolvedSlots')
      <4>1. submitted_count = Cardinality(SolvedSlots) /\ submitted_count \in Nat
        BY ConstAssumption DEF Inv, CountIsSolvedStudents, TypeOK
      <4>2. CASE new(i)
        BY <3>1, <4>1, <4>2, SolvedBound, FS_AddElement
      <4>3. CASE ~new(i)
        BY <3>1, <4>1, <4>3
      <4>4. QED BY <4>2, <4>3
    <3>3. ASSUME NEW j \in Slots, students'[j].id # NoStudent
          PROVE  students'[j].submitted <=> students'[j].best_result = "AC"
      BY <3>1, <3>3 DEF Inv, CountIsSolvedStudents
    <3>4. QED BY <3>2, <3>3 DEF CountIsSolvedStudents
  <2>3. QED BY <2>1, <2>2
<1>3. CASE ~ResetTracker /\ \A w \in Worker : ~RecordSubmission(w)
  <2>1. SolvedSlots' = SolvedSlots
    BY <1>3, TableUnchanged DEF SolvedSlots
  <2>2. QED BY <1>3, <2>1, TableUnchanged DEF Inv, CountIsSolvedStudents
<1>4. QED BY <1>1, <1>2, <1>3

-----------------------------------------------------------------------------
(* hw_lock and the weeks.                                                  *)

(* What a worker's step leaves alone, and where it goes. *)
LEMMA WorkerStepFacts ==
    ASSUME TypeOK, NEW w \in Worker, WorkerNext(w)
    PROVE  /\ main' = main /\ epoch' = epoch /\ current_hw' = current_hw
           /\ csv_fd' = csv_fd /\ csv_locked' = csv_locked
           /\ total_students' = total_students
           /\ \A v \in Worker \ {w} : pc'[v] = pc[v] /\ task'[v] = task[v]
           /\ \A v \in Worker \ {w} : v \in readers' <=> v \in readers
           /\ pc' \in [Worker -> WorkerPc]
BY DEF TypeOK, WorkerPc, WorkerNext, WorkerFinish, StartJob, DropJob, GradeFault,
       GradeOutput, EnterResult, RecordSubmission, CheckCsv, WriteCsv, LeaveResult,
       SendResult, Step, trackerVars, hwVars, csvVars

(* What the main thread's step leaves alone. *)
LEMMA MainStepFacts ==
    ASSUME MainNext
    PROVE  /\ pc' = pc /\ task' = task /\ jobs' = jobs /\ readers' = readers
           /\ ~SwitchHw => current_hw' = current_hw /\ epoch' = epoch
BY DEF MainNext, SwitchNext, RequestSwitch, SwitchHw, ResetTracker, CloseCsv,
       OpenCsv, SetStudents, SnapCounts, SnapList, workerVars, hwVars

LEMMA LockStep ==
    Inv /\ [Next]_vars
        => HoldsHwLock' /\ JobHasStudent' /\ RecordingWeekIsCurrent' /\ SwitchPhases'
<1> SUFFICES ASSUME Inv, [Next]_vars
             PROVE  HoldsHwLock' /\ JobHasStudent' /\ RecordingWeekIsCurrent'
                    /\ SwitchPhases'
  OBVIOUS
<1> USE DEF Inv
<1>1. ASSUME NEW w \in Worker, WorkerNext(w)
      PROVE  HoldsHwLock' /\ JobHasStudent' /\ RecordingWeekIsCurrent' /\ SwitchPhases'
  <2>1. /\ main' = main /\ current_hw' = current_hw /\ csv_fd' = csv_fd
        /\ \A v \in Worker \ {w} : pc'[v] = pc[v] /\ task'[v] = task[v]
        /\ \A v \in Worker \ {w} : v \in readers' <=> v \in readers
    BY <1>1, WorkerStepFacts
  <2>2. SwitchPhases'
    BY <2>1 DEF SwitchPhases
  <2>3. /\ pc'[w] \in Recording \cup {"leave"} => w \in readers'
        /\ pc'[w] # "idle" => task'[w].student \in Student
        /\ pc'[w] \in Recording => current_hw = task'[w].hw
    <3> USE DEF Recording, TypeOK, Tasks, Step, HoldsHwLock, JobHasStudent,
                RecordingWeekIsCurrent
    <3>1. CASE StartJob(w)
      BY <3>1 DEF StartJob, NewTask
    <3>2. CASE DropJob(w)
      BY <3>2 DEF DropJob
    <3>3. CASE GradeFault(w)
      BY <3>3 DEF GradeFault
    <3>4. CASE GradeOutput(w)
      BY <3>4 DEF GradeOutput
    <3>5. CASE EnterResult(w)
      BY <3>5 DEF EnterResult
    <3>6. CASE RecordSubmission(w)
      BY <3>6 DEF RecordSubmission, hwVars
    <3>7. CASE CheckCsv(w)
      BY <3>7 DEF CheckCsv, hwVars
    <3>8. CASE WriteCsv(w)
      BY <3>8 DEF WriteCsv, hwVars
    <3>9. CASE LeaveResult(w)
      BY <3>9 DEF LeaveResult
    <3>10. CASE SendResult(w)
      BY <3>10 DEF SendResult
    <3>11. QED
      BY <1>1, <3>1, <3>2, <3>3, <3>4, <3>5, <3>6, <3>7, <3>8, <3>9, <3>10
         DEF WorkerNext, WorkerFinish
  <2>4. HoldsHwLock'
    BY <2>1, <2>3 DEF HoldsHwLock
  <2>5. JobHasStudent'
    BY <2>1, <2>3 DEF JobHasStudent
  <2>6. RecordingWeekIsCurrent'
    BY <2>1, <2>3 DEF RecordingWeekIsCurrent
  <2>7. QED BY <2>2, <2>4, <2>5, <2>6
<1>2. CASE MainNext
  <2>1. pc' = pc /\ task' = task /\ readers' = readers
    BY <1>2, MainStepFacts
  <2>2. HoldsHwLock' /\ JobHasStudent'
    BY <2>1 DEF HoldsHwLock, JobHasStudent
  <2>3. RecordingWeekIsCurrent'
    <3>1. CASE SwitchHw
      BY <2>1, <3>1 DEF SwitchHw, RecordingWeekIsCurrent, HoldsHwLock
    <3>2. CASE ~SwitchHw
      BY <1>2, <2>1, <3>2, MainStepFacts DEF RecordingWeekIsCurrent
    <3>3. QED BY <3>1, <3>2
  <2>4. SwitchPhases'
    <3> USE DEF SwitchPhases, MainStep, TypeOK, MainPc
    <3>1. CASE RequestSwitch
      BY <3>1 DEF RequestSwitch
    <3>2. CASE SwitchHw
      BY <3>2 DEF SwitchHw
    <3>3. CASE ResetTracker
      BY <3>3 DEF ResetTracker, hwVars
    <3>4. CASE CloseCsv
      BY <3>4 DEF CloseCsv, hwVars
    <3>5. CASE OpenCsv \/ SnapList
      BY <3>5 DEF OpenCsv, SnapList, IdleMain
    <3>6. CASE SetStudents
      BY <3>6 DEF SetStudents
    <3>7. CASE SnapCounts
      BY <3>7 DEF SnapCounts
    <3>8. QED
      BY <1>2, <3>1, <3>2, <3>3, <3>4, <3>5, <3>6, <3>7 DEF MainNext, SwitchNext
  <2>5. QED BY <2>2, <2>3, <2>4
<1>3. CASE UNCHANGED vars
  BY <1>3 DEF vars, hwVars, csvVars, workerVars, HoldsHwLock, JobHasStudent,
              RecordingWeekIsCurrent, SwitchPhases
<1>4. QED BY <1>1, <1>2, <1>3 DEF Next

(* Results are recorded for the week in force only, so between two resets  *)
(* the tracker holds one week.                                             *)
LEMMA TrackerWeekStep == Inv /\ [Next]_vars => TrackerHoldsCurrentWeek'
<1> SUFFICES ASSUME Inv, [Next]_vars
             PROVE  TrackerHoldsCurrentWeek'
  OBVIOUS
<1> USE DEF Inv, TrackerHoldsCurrentWeek
<1>1. ASSUME NEW w \in Worker, WorkerNext(w)
      PROVE  TrackerHoldsCurrentWeek'
  <2>1. main' = main /\ current_hw' = current_hw
    BY <1>1, WorkerStepFacts
  <2>2. CASE RecordSubmission(w)
    <3>1. tracker_weeks' \subseteq tracker_weeks \cup {task[w].hw}
      BY <2>2 DEF RecordSubmission
    <3>2. task[w].hw = current_hw
      BY <2>2 DEF RecordSubmission, Step, RecordingWeekIsCurrent, Recording
    <3>3. QED BY <2>1, <3>1, <3>2
  <2>3. CASE ~RecordSubmission(w)
    <3>1. tracker_weeks' = tracker_weeks
      BY <1>1, <2>3 DEF WorkerNext, WorkerFinish, StartJob, DropJob, GradeFault,
           GradeOutput, EnterResult, CheckCsv, WriteCsv, LeaveResult, SendResult,
           trackerVars
    <3>2. QED BY <2>1, <3>1
  <2>4. QED BY <2>2, <2>3
<1>2. CASE MainNext
  <2>1. CASE ResetTracker
    BY <2>1 DEF ResetTracker
  <2>2. CASE SwitchHw
    BY <2>2 DEF SwitchHw, MainStep, TypeOK
  <2>3. CASE ~ResetTracker /\ ~SwitchHw
    <3>1. tracker_weeks' = tracker_weeks /\ current_hw' = current_hw
      BY <1>2, <2>3, MainStepFacts DEF MainNext, SwitchNext, RequestSwitch, CloseCsv,
           OpenCsv, SetStudents, SnapCounts, SnapList, trackerVars
    <3>2. main.pc # "reset"
      BY <1>2, <2>3 DEF MainNext, SwitchNext, RequestSwitch, CloseCsv, MainStep,
           OpenCsv, SetStudents, SnapCounts, SnapList
    <3>3. QED BY <3>1, <3>2
  <2>4. QED BY <2>1, <2>2, <2>3
<1>3. CASE UNCHANGED vars
  BY <1>3 DEF vars, hwVars, trackerVars
<1>4. QED BY <1>1, <1>2, <1>3 DEF Next

-----------------------------------------------------------------------------
(* The CSV files.                                                          *)

(* Opening a file gives it a header only if it has nothing in it. *)
LEMMA HeadedFacts ==
    ASSUME NEW files \in [Week -> Seq(Week \cup {Header})], NEW made,
           NEW k \in Week, HeadersFirst(files), k \notin made => files[k] = <<>>,
           NEW f \in Headed(files, made, k)
    PROVE  /\ f \in [Week -> Seq(Week \cup {Header})]
           /\ HeadersFirst(f)
           /\ \A j \in Week \ {k} : f[j] = files[j]
<1>1. CASE f = files
  BY <1>1
<1>2. CASE k \notin made /\ f = [files EXCEPT ![k] = Append(@, Header)]
  <2>1. Append(files[k], Header) = <<Header>>
    BY <1>2
  <2>2. <<Header>> \in Seq(Week \cup {Header})
    OBVIOUS
  <2>3. f = [files EXCEPT ![k] = <<Header>>]
    BY <1>2, <2>1
  <2>4. f[k] = <<Header>> /\ \A j \in Week \ {k} : f[j] = files[j]
    BY <2>3
  <2>5. HeadersFirst(f)
    BY <2>4 DEF HeadersFirst
  <2>6. QED BY <2>2, <2>3, <2>4, <2>5
<1>3. QED BY <1>1, <1>2 DEF Headed

LEMMA CsvStep ==
    Inv /\ [Next]_vars
        => /\ OpenCsvIsCurrentWeeks' /\ FilesMade' /\ HeaderOnlyFirst'
           /\ csv_file' \in [Week -> Seq(Week \cup {Header})] /\ csv_made' \subseteq Week
<1> SUFFICES ASSUME Inv, [Next]_vars
             PROVE  /\ OpenCsvIsCurrentWeeks' /\ FilesMade' /\ HeaderOnlyFirst'
                    /\ csv_file' \in [Week -> Seq(Week \cup {Header})]
                    /\ csv_made' \subseteq Week
  OBVIOUS
<1>0. /\ csv_file \in [Week -> Seq(Week \cup {Header})] /\ csv_made \subseteq Week
      /\ csv_fd \in Week \cup {NoWeek} /\ NoWeek \notin Week /\ Header \notin Week
      /\ OpenCsvIsCurrentWeeks /\ FilesMade /\ HeadersFirst(csv_file)
  BY ConstAssumption DEF Inv, TypeOK, HeaderOnlyFirst, HeadersFirst
<1> SUFFICES /\ OpenCsvIsCurrentWeeks' /\ FilesMade' /\ HeadersFirst(csv_file')
             /\ csv_file' \in [Week -> Seq(Week \cup {Header})]
             /\ csv_made' \subseteq Week
  BY DEF HeaderOnlyFirst, HeadersFirst
<1>1. ASSUME NEW w \in Worker, WriteCsv(w)
      PROVE  /\ OpenCsvIsCurrentWeeks' /\ FilesMade' /\ HeadersFirst(csv_file')
             /\ csv_file' \in [Week -> Seq(Week \cup {Header})]
             /\ csv_made' \subseteq Week
  <2>1. main' = main /\ current_hw' = current_hw /\ csv_fd' = csv_fd
        /\ csv_made' = csv_made
    BY <1>1 DEF WriteCsv, hwVars
  <2>2. CASE csv_file' = csv_file
    BY <1>0, <2>1, <2>2 DEF OpenCsvIsCurrentWeeks, FilesMade
  <2>3. CASE csv_file' # csv_file
    <3> DEFINE old == csv_file[csv_fd]
               row == task[w].hw
    <3>1. csv_fd \in Week /\ csv_file' = [csv_file EXCEPT ![csv_fd] = Append(old, row)]
      BY <1>0, <1>1, <2>3 DEF WriteCsv
    <3>2. row \in Week
      BY <1>1 DEF WriteCsv, Step, Inv, TypeOK, RecordingWeekIsCurrent, Recording
    <3>3. old \in Seq(Week \cup {Header}) /\ Len(old) \in Nat
      BY <1>0, <3>1
    <3>4. /\ Append(old, row) \in Seq(Week \cup {Header})
          /\ Len(Append(old, row)) = Len(old) + 1
          /\ \A i \in 1..Len(old) : Append(old, row)[i] = old[i]
          /\ Append(old, row)[Len(old) + 1] = row
      BY <3>2, <3>3
    <3>5. csv_file'[csv_fd] = Append(old, row)
          /\ \A k \in Week \ {csv_fd} : csv_file'[k] = csv_file[k]
      BY <1>0, <3>1
    <3>6. csv_file' \in [Week -> Seq(Week \cup {Header})]
      BY <1>0, <3>1, <3>4
    <3>7. FilesMade' /\ OpenCsvIsCurrentWeeks'
      BY <1>0, <2>1, <3>5 DEF FilesMade, OpenCsvIsCurrentWeeks
    <3>8. \A i \in 1..Len(Append(old, row)) : Append(old, row)[i] = Header => i = 1
      <4>1. \A i \in 1..Len(old) : old[i] = Header => i = 1
        BY <1>0, <3>1 DEF HeadersFirst
      <4> HIDE DEF old, row
      <4>2. SUFFICES ASSUME NEW i \in 1..(Len(old) + 1)
                     PROVE  Append(old, row)[i] = Header => i = 1
        BY <3>4
      <4>3. CASE i \in 1..Len(old)
        BY <3>4, <4>1, <4>3
      <4>4. CASE i = Len(old) + 1
        BY <1>0, <3>2, <3>4, <4>4
      <4>5. QED BY <3>3, <4>2, <4>3, <4>4
    <3>9. HeadersFirst(csv_file')
      <4> SUFFICES ASSUME NEW k \in Week
                   PROVE  \A i \in 1..Len(csv_file'[k]) :
                             csv_file'[k][i] = Header => i = 1
        BY DEF HeadersFirst
      <4>1. CASE k = csv_fd
        BY <3>5, <3>8, <4>1
      <4>2. CASE k # csv_fd
        BY <1>0, <3>5, <4>2 DEF HeadersFirst
      <4>3. QED BY <4>1, <4>2
    <3>10. QED BY <1>0, <2>1, <3>6, <3>7, <3>9
  <2>4. QED BY <2>2, <2>3
<1>2. CASE OpenCsv
  <2>1. main' = IdleMain /\ current_hw' = current_hw /\ csv_fd = NoWeek
        /\ main.week = current_hw /\ current_hw \in Week
    BY <1>2 DEF OpenCsv, hwVars, Inv, SwitchPhases, TypeOK
  <2>2. CASE csv_fd' = csv_fd /\ csv_file' = csv_file /\ csv_made' = csv_made
    BY <1>0, <2>1, <2>2 DEF OpenCsvIsCurrentWeeks, FilesMade
  <2>3. CASE /\ csv_fd' = main.week
             /\ csv_made' = csv_made \cup {main.week}
             /\ csv_file' \in Headed(csv_file, csv_made, main.week)
    <3>1. main.week \in Week /\ (main.week \notin csv_made => csv_file[main.week] = <<>>)
      BY <1>0, <2>1 DEF FilesMade
    <3>2. /\ csv_file' \in [Week -> Seq(Week \cup {Header})]
          /\ HeadersFirst(csv_file')
          /\ \A j \in Week \ {main.week} : csv_file'[j] = csv_file[j]
      <4>1. /\ csv_file \in [Week -> Seq(Week \cup {Header})] /\ main.week \in Week
            /\ HeadersFirst(csv_file)
            /\ main.week \notin csv_made => csv_file[main.week] = <<>>
            /\ csv_file' \in Headed(csv_file, csv_made, main.week)
        BY <1>0, <2>3, <3>1
      <4>2. QED BY <4>1, HeadedFacts
    <3>3. FilesMade' /\ csv_made' \subseteq Week
      BY <1>0, <2>3, <3>1, <3>2 DEF FilesMade
    <3>4. OpenCsvIsCurrentWeeks'
      BY <2>1, <2>3 DEF OpenCsvIsCurrentWeeks
    <3>5. QED BY <3>2, <3>3, <3>4
  <2>4. QED BY <1>2, <2>2, <2>3 DEF OpenCsv
<1>3. CASE CloseCsv
  BY <1>0, <1>3 DEF CloseCsv, OpenCsvIsCurrentWeeks, FilesMade
<1>4. CASE SwitchHw \/ ResetTracker
  BY <1>0, <1>4 DEF SwitchHw, ResetTracker, MainStep, csvVars, hwVars, Inv, TypeOK,
                    OpenCsvIsCurrentWeeks, FilesMade
<1>5. ASSUME \/ RequestSwitch \/ SetStudents \/ SnapCounts \/ SnapList \/ UNCHANGED vars
             \/ \E w \in Worker : WorkerNext(w) /\ ~WriteCsv(w)
      PROVE  /\ OpenCsvIsCurrentWeeks' /\ FilesMade' /\ HeadersFirst(csv_file')
             /\ csv_file' \in [Week -> Seq(Week \cup {Header})]
             /\ csv_made' \subseteq Week
  <2>1. /\ csv_file' = csv_file /\ csv_fd' = csv_fd
        /\ csv_made' = csv_made /\ current_hw' = current_hw
    BY <1>5 DEF RequestSwitch, SetStudents, SnapCounts, SnapList, vars, WorkerNext,
         WorkerFinish, StartJob, DropJob, GradeFault, GradeOutput, EnterResult,
         RecordSubmission, CheckCsv, LeaveResult, SendResult, csvVars, hwVars
  <2>2. main.pc \notin {"reset", "close_csv"}
           \/ main' = main
    BY <1>5 DEF RequestSwitch, SetStudents, SnapCounts, SnapList, vars, WorkerNext,
         WorkerFinish, StartJob, DropJob, GradeFault, GradeOutput, EnterResult,
         RecordSubmission, CheckCsv, LeaveResult, SendResult
  <2>3. QED BY <1>0, <2>1, <2>2
               DEF OpenCsvIsCurrentWeeks, FilesMade
<1>6. QED BY <1>1, <1>2, <1>3, <1>4, <1>5 DEF Next, MainNext, SwitchNext

-----------------------------------------------------------------------------
(* Types.                                                                  *)

(* Steps other than recording change a task in ways that keep its type.    *)
LEMMA TaskTypeStep ==
    ASSUME Inv, NEW w \in Worker, WorkerNext(w), ~RecordSubmission(w)
    PROVE  task' \in [Worker -> Tasks]
<1>0. /\ task \in [Worker -> Tasks] /\ current_hw \in Week /\ epoch \in Nat
      /\ 0 \in 0..ReplyMax
  BY ConstAssumption DEF Inv, TypeOK
<1>1. IdleTask \in Tasks
  BY <1>0 DEF IdleTask, Tasks, Grade
<1>2. CASE StartJob(w)
  <2>1. PICK s \in Student : task' = [task EXCEPT ![w] = NewTask(s)]
    BY <1>2 DEF StartJob
  <2>2. NewTask(s) \in Tasks
    BY <1>0 DEF NewTask, Tasks, Grade
  <2>3. QED BY <1>0, <2>1, <2>2
<1>3. CASE DropJob(w) \/ SendResult(w)
  BY <1>0, <1>1, <1>3 DEF DropJob, SendResult
<1>4. CASE GradeFault(w)
  <2>1. PICK g \in Grade : task' = [task EXCEPT ![w].grade = g]
    BY <1>4 DEF GradeFault, Grade
  <2>2. [task[w] EXCEPT !.grade = g] \in Tasks
    BY <1>0 DEF Tasks
  <2>3. task' = [task EXCEPT ![w] = [task[w] EXCEPT !.grade = g]]
    BY <2>1
  <2>4. QED BY <1>0, <2>2, <2>3
<1>5. CASE GradeOutput(w)
  <2>1. PICK g \in Grade : task' = [task EXCEPT ![w].grade = g, ![w].ans = current_hw]
    BY <1>5 DEF GradeOutput, Grade
  <2>2. [task[w] EXCEPT !.grade = g, !.ans = current_hw] \in Tasks
    BY <1>0 DEF Tasks
  <2>3. task' = [task EXCEPT ![w] = [task[w] EXCEPT !.grade = g, !.ans = current_hw]]
    BY <1>0, <2>1
  <2>4. QED BY <1>0, <2>2, <2>3
<1>6. CASE EnterResult(w) \/ CheckCsv(w) \/ WriteCsv(w) \/ LeaveResult(w)
  BY <1>0, <1>6 DEF EnterResult, CheckCsv, WriteCsv, LeaveResult
<1>7. QED BY <1>2, <1>3, <1>4, <1>5, <1>6 DEF WorkerNext, WorkerFinish

LEMMA WorkerTypeStep ==
    ASSUME Inv, NEW w \in Worker, WorkerNext(w)
    PROVE  /\ readers' \subseteq Worker
           /\ students' \in [Slots -> StudentRecord]
           /\ total_records' \in Nat /\ jobs' \in Nat
           /\ task' \in [Worker -> Tasks]
           /\ tracker_weeks' \subseteq Week
<1>1. CASE RecordSubmission(w)
  <2> USE DEF Inv, TypeOK, Tasks, Grade, Step, hwVars, trackerVars, csvVars, workerVars
  <2>1. readers' = readers /\ total_records' = total_records /\ jobs' = jobs
    BY <1>1 DEF RecordSubmission
  <2>2. task[w].hw = current_hw
    BY <1>1 DEF RecordSubmission, RecordingWeekIsCurrent, Recording
  <2>3. tracker_weeks' \subseteq Week
    BY <1>1, <2>2 DEF RecordSubmission
  <2>4. CASE SlotFor(students, task[w].student) = {}
    BY <1>1, <2>1, <2>3, <2>4 DEF RecordSubmission
  <2>5. CASE SlotFor(students, task[w].student) # {}
    <3>1. PICK i \in Slots : /\ \A j \in Slots \ {i} : students'[j] = students[j]
                             /\ students'[i] \in StudentRecord
      BY <1>1, <2>5, RecordSolved
    <3>2. students' \in [Slots -> StudentRecord]
      <4>1. \E i0 \in Slots : \E r : students' = [students EXCEPT ![i0] = r]
        BY <1>1, <2>5 DEF RecordSubmission, SlotFor
      <4>2. QED BY <3>1, <4>1
    <3>3. task' \in [Worker -> Tasks]
      <4>1. PICK i0 \in SlotFor(students, task[w].student) :
              task' = [task EXCEPT ![w].attempt =
                  Saturate(Attempted(students[i0], task[w].student,
                                     task[w].grade).submit_count, ReplyMax)]
        BY <1>1, <2>5 DEF RecordSubmission
      <4>2. /\ students[i0] \in StudentRecord /\ task[w].student \in Student
            /\ students[i0].id \in {task[w].student, NoStudent}
            /\ students[i0].id = NoStudent => ~students[i0].submitted
        BY <1>1, <4>1 DEF SlotFor, RecordSubmission, JobHasStudent, FreeSlotsUnsolved
      <4> DEFINE n == Attempted(students[i0], task[w].student,
                                task[w].grade).submit_count
      <4>3. n \in 0..CountMax
        <5>1. Attempted(students[i0], task[w].student, task[w].grade) \in StudentRecord
          BY <4>2, AttemptedFacts
        <5>2. QED BY <5>1 DEF StudentRecord
      <4> HIDE DEF n
      <4>4. Saturate(n, ReplyMax) \in 0..ReplyMax
        BY <4>3, ConstAssumption DEF Saturate
      <4>5. task' = [task EXCEPT ![w].attempt = Saturate(n, ReplyMax)]
        BY <4>1 DEF n
      <4>6. QED BY <4>4, <4>5
    <3>4. QED BY <2>1, <2>3, <3>2, <3>3
  <2>6. QED BY <2>4, <2>5
<1>2. CASE ~RecordSubmission(w)
  <2>1. students' = students /\ tracker_weeks' = tracker_weeks
    BY <1>2 DEF WorkerNext, WorkerFinish, StartJob, DropJob, GradeFault, GradeOutput,
         EnterResult, CheckCsv, WriteCsv, LeaveResult, SendResult, trackerVars
  <2>2. readers' \subseteq Worker /\ total_records' \in Nat /\ jobs' \in Nat
    <3>0. readers \subseteq Worker /\ total_records \in Nat /\ jobs \in Nat
      BY DEF Inv, TypeOK
    <3>1. CASE StartJob(w)
      BY <3>0, <3>1 DEF StartJob, hwVars, csvVars
    <3>2. CASE DropJob(w) \/ GradeFault(w) \/ GradeOutput(w) \/ CheckCsv(w)
                 \/ SendResult(w)
      BY <3>0, <3>2
         DEF DropJob, GradeFault, GradeOutput, CheckCsv, SendResult, hwVars, csvVars
    <3>3. CASE EnterResult(w) \/ LeaveResult(w)
      BY <3>0, <3>3 DEF EnterResult, LeaveResult, csvVars
    <3>4. CASE WriteCsv(w)
      BY <3>0, <3>4 DEF WriteCsv, hwVars
    <3>5. QED BY <1>2, <3>1, <3>2, <3>3, <3>4 DEF WorkerNext, WorkerFinish
  <2>3. task' \in [Worker -> Tasks]
    BY <1>2, TaskTypeStep
  <2>4. QED BY <2>1, <2>2, <2>3 DEF Inv, TypeOK
<1>3. QED BY <1>1, <1>2

LEMMA MainTypeStep ==
    ASSUME Inv, MainNext
    PROVE  /\ current_hw' \in Week
           /\ students' \in [Slots -> StudentRecord]
           /\ total_students' \in 0..MaxStudents
           /\ csv_fd' \in Week \cup {NoWeek}
           /\ csv_locked' \in BOOLEAN
           /\ total_records' \in Nat /\ epoch' \in Nat
           /\ main' \in [pc : MainPc, week : Week \cup {NoWeek},
                         submitted : 0..MaxStudents]
           /\ tracker_weeks' \subseteq Week
<1> USE DEF Inv, TypeOK, MainPc, MainStep, IdleMain, hwVars, trackerVars, csvVars
<1>0. MaxStudents \in Nat /\ CountMax \in Nat /\ ClassSizes \subseteq 1..MaxStudents
  BY ConstAssumption
<1>1. CASE RequestSwitch
  BY <1>1 DEF RequestSwitch
<1>2. CASE SwitchHw
  <2>1. main.week \in Week
    BY <1>2 DEF SwitchHw, SwitchPhases
  <2>2. main' \in [pc : MainPc, week : Week \cup {NoWeek}, submitted : 0..MaxStudents]
    BY <1>2 DEF SwitchHw
  <2>3. QED BY <1>2, <2>1, <2>2 DEF SwitchHw
<1>3. CASE ResetTracker
  <2>1. FreeSlot \in StudentRecord
    BY <1>0 DEF FreeSlot, StudentRecord, Grade
  <2>2. QED BY <1>3, <2>1 DEF ResetTracker
<1>4. CASE CloseCsv
  BY <1>4 DEF CloseCsv
<1>5. CASE OpenCsv
  <2>1. main.week \in Week
    BY <1>5 DEF OpenCsv, SwitchPhases
  <2>2. main' \in [pc : MainPc, week : Week \cup {NoWeek}, submitted : 0..MaxStudents]
    BY <1>0, <1>5 DEF OpenCsv
  <2>3. csv_fd' \in Week \cup {NoWeek} /\ total_records' \in Nat
    BY <1>5, <2>1 DEF OpenCsv
  <2>4. QED BY <1>5, <2>2, <2>3 DEF OpenCsv
<1>6. CASE SetStudents
  BY <1>0, <1>6 DEF SetStudents
<1>7. CASE SnapCounts
  BY <1>7 DEF SnapCounts
<1>8. CASE SnapList
  BY <1>0, <1>8 DEF SnapList
<1>9. QED
  BY <1>1, <1>2, <1>3, <1>4, <1>5, <1>6, <1>7, <1>8 DEF MainNext, SwitchNext

LEMMA TypeStep == Inv /\ [Next]_vars => TypeOK'
<1> SUFFICES ASSUME Inv, [Next]_vars
             PROVE  TypeOK'
  OBVIOUS
<1>1. csv_file' \in [Week -> Seq(Week \cup {Header})] /\ csv_made' \subseteq Week
  BY CsvStep
<1>2. submitted_count' \in 0..MaxStudents
  <2>1. submitted_count' = Cardinality(SolvedSlots')
    BY CountStep DEF CountIsSolvedStudents
  <2>2. SolvedSlots' \in SUBSET Slots
    BY DEF SolvedSlots
  <2>3. MaxStudents \in Nat /\ IsFiniteSet(Slots) /\ Cardinality(Slots) = MaxStudents
    BY ConstAssumption, FS_Interval DEF Slots
  <2>4. IsFiniteSet(SolvedSlots') /\ Cardinality(SolvedSlots') <= MaxStudents
    BY <2>2, <2>3, FS_Subset
  <2>5. Cardinality(SolvedSlots') \in Nat
    BY <2>4, FS_CardinalityType
  <2>6. QED BY <2>1, <2>3, <2>4, <2>5
<1>3. ASSUME NEW w \in Worker, WorkerNext(w)
      PROVE  TypeOK'
  BY <1>1, <1>2, <1>3, WorkerTypeStep, WorkerStepFacts DEF Inv, TypeOK
<1>4. CASE MainNext
  BY <1>1, <1>2, <1>4, MainTypeStep, MainStepFacts DEF Inv, TypeOK
<1>5. CASE UNCHANGED vars
  BY <1>5 DEF Inv, TypeOK, vars, hwVars, trackerVars, csvVars, workerVars
<1>6. QED BY <1>3, <1>4, <1>5 DEF Next

-----------------------------------------------------------------------------
LEMMA InvInit == Init => Inv
<1> SUFFICES ASSUME Init
             PROVE  Inv
  OBVIOUS
<1> USE ConstAssumption DEF Init
<1>1. FreeSlot \in StudentRecord /\ IdleTask \in Tasks
  BY DEF FreeSlot, StudentRecord, IdleTask, Tasks, Grade
<1>2. /\ csv_file \in [Week -> Seq(Week \cup {Header})] /\ csv_made \subseteq Week
      /\ HeadersFirst(csv_file) /\ FilesMade
  <2> DEFINE old == [k \in Week |-> IF k \in OldFiles THEN <<Header>> ELSE <<>>]
  <2>1. <<Header>> \in Seq(Week \cup {Header}) /\ << >> \in Seq(Week \cup {Header})
    OBVIOUS
  <2>2. old \in [Week -> Seq(Week \cup {Header})]
    BY <2>1
  <2>3. HeadersFirst(old)
    BY DEF HeadersFirst
  <2>4. \A k \in Week \ OldFiles : old[k] = <<>>
    OBVIOUS
  <2>5. csv_made \subseteq Week /\ csv_fd \in csv_made \cup {NoWeek}
        /\ csv_fd \in {FirstWeek, NoWeek} /\ OldFiles \subseteq csv_made
    OBVIOUS
  <2> HIDE DEF old
  <2>6. CASE csv_fd = NoWeek
    <3>1. csv_file = old
      BY <2>6 DEF old
    <3>2. QED BY <2>2, <2>3, <2>4, <2>5, <3>1 DEF FilesMade
  <2>7. CASE csv_fd # NoWeek
    <3>1. csv_file \in Headed(old, OldFiles, csv_fd) /\ csv_fd \in Week
          /\ csv_fd \in csv_made
      BY <2>5, <2>7 DEF old
    <3>2. /\ csv_file \in [Week -> Seq(Week \cup {Header})]
          /\ HeadersFirst(csv_file)
          /\ \A j \in Week \ {csv_fd} : csv_file[j] = old[j]
      BY <2>2, <2>3, <2>4, <3>1, HeadedFacts
    <3>3. QED BY <2>4, <2>5, <3>1, <3>2 DEF FilesMade
  <2>8. QED BY <2>6, <2>7
<1>3. TypeOK
  <2>1. main \in [pc : MainPc, week : Week \cup {NoWeek}, submitted : 0..MaxStudents]
    BY DEF IdleMain, MainPc
  <2>2. pc \in [Worker -> WorkerPc] /\ task \in [Worker -> Tasks]
    BY <1>1 DEF WorkerPc
  <2>3. students \in [Slots -> StudentRecord]
    BY <1>1
  <2>4. /\ current_hw \in Week /\ readers \subseteq Worker
        /\ csv_fd \in Week \cup {NoWeek} /\ csv_locked \in BOOLEAN
        /\ tracker_weeks \subseteq Week
    OBVIOUS
  <2>5. /\ submitted_count \in 0..MaxStudents /\ total_students \in 0..MaxStudents
        /\ total_records \in Nat /\ jobs \in Nat /\ epoch \in Nat
    OBVIOUS
  <2>6. QED BY <1>2, <2>1, <2>2, <2>3, <2>4, <2>5 DEF TypeOK
<1>4. SolvedSlots = {}
  BY DEF SolvedSlots, FreeSlot
<1>5. CountIsSolvedStudents
  BY <1>4, FS_EmptySet DEF CountIsSolvedStudents, FreeSlot
<1>6. OneRecordPerStudent /\ FreeSlotsUnsolved
  BY DEF OneRecordPerStudent, FreeSlotsUnsolved, FreeSlot
<1>7. HoldsHwLock /\ JobHasStudent /\ RecordingWeekIsCurrent
  BY DEF HoldsHwLock, JobHasStudent, RecordingWeekIsCurrent, Recording
<1>8. SwitchPhases /\ TrackerHoldsCurrentWeek /\ OpenCsvIsCurrentWeeks
  BY DEF SwitchPhases, TrackerHoldsCurrentWeek, OpenCsvIsCurrentWeeks, IdleMain
<1>9. HeaderOnlyFirst
  BY <1>2 DEF HeaderOnlyFirst, HeadersFirst
<1>10. QED BY <1>2, <1>3, <1>5, <1>6, <1>7, <1>8, <1>9 DEF Inv

LEMMA InvStep == Inv /\ [Next]_vars => Inv'
BY TypeStep, LockStep, CountStep, OneRecordStep, TrackerWeekStep, CsvStep DEF Inv

(* The inductive invariant holds in every reachable state: types (and with *)
(* them the bound that keeps the 16-bit submitted_count from wrapping) and *)
(* all the safety invariants of the context.                               *)
THEOREM InvAlways == Spec => []Inv
<1>1. Init => Inv
  BY InvInit
<1>2. Inv /\ [Next]_vars => Inv'
  BY InvStep
<1>3. QED BY <1>1, <1>2, PTL DEF Spec

(* submitted_count stays within 0..MAX_STUDENTS, and every variable has    *)
(* its type.                                                               *)
THEOREM TypeCorrect == Spec => []TypeOK
<1>1. Inv => TypeOK
  BY DEF Inv
<1>2. QED BY <1>1, InvAlways, PTL

(* The number of solved students the server reports is the number of       *)
(* records marked solved, whatever is recorded and switched meanwhile.     *)
THEOREM CountCorrect == Spec => []CountIsSolvedStudents
<1>1. Inv => CountIsSolvedStudents
  BY DEF Inv
<1>2. QED BY <1>1, InvAlways, PTL

(* No student ever has two records, and no record lies behind a free slot. *)
THEOREM TableCorrect == Spec => []OneRecordPerStudent
<1>1. Inv => OneRecordPerStudent
  BY DEF Inv
<1>2. QED BY <1>1, InvAlways, PTL

(* hw_lock keeps a week switch from slipping between the week comparison   *)
(* of build_and_send_result and the end of the recording.                  *)
THEOREM RecordingSafe == Spec => []RecordingWeekIsCurrent
<1>1. Inv => RecordingWeekIsCurrent
  BY DEF Inv
<1>2. QED BY <1>1, InvAlways, PTL

(* Except while a switch has yet to clear it, the tracker never mixes      *)
(* results of the current week with another's.                             *)
THEOREM TrackerOneWeek == Spec => []TrackerHoldsCurrentWeek
<1>1. Inv => TrackerHoldsCurrentWeek
  BY DEF Inv
<1>2. QED BY <1>1, InvAlways, PTL

(* A completed switch leaves the new week's CSV file open or none.         *)
THEOREM OpenCsvCorrect == Spec => []OpenCsvIsCurrentWeeks
<1>1. Inv => OpenCsvIsCurrentWeeks
  BY DEF Inv
<1>2. QED BY <1>1, InvAlways, PTL

(* A CSV file has one header, in front, however often its week returns.    *)
THEOREM HeaderCorrect == Spec => []HeaderOnlyFirst
<1>1. Inv => HeaderOnlyFirst
  BY DEF Inv
<1>2. QED BY <1>1, InvAlways, PTL
-----------------------------------------------------------------------------
(* The response to CMD_GET_TRACKER.                                        *)

(* The count the main thread has copied is at most the count now: only the *)
(* main thread itself ever lowers it.                                      *)
CopiedCount == main.pc = "snap_list" => main.submitted <= submitted_count

UsedSlots == {i \in Slots : students[i].id # NoStudent}

ListAgrees ==
    main.pc = "snap_list" /\ Cardinality(UsedSlots) <= ListMax
      => main.submitted <= Cardinality(ListedSolved)

(* Recording never lowers the count. *)
LEMMA RecordingCounts ==
    ASSUME Inv, NEW w \in Worker, RecordSubmission(w)
    PROVE  submitted_count' >= submitted_count
<1>1. submitted_count \in Int
  BY ConstAssumption DEF Inv, TypeOK
<1>2. CASE SlotFor(students, task[w].student) = {}
  BY <1>1, <1>2, RecordNothing
<1>3. CASE SlotFor(students, task[w].student) # {}
  BY <1>1, <1>3, RecordSolved
<1>4. QED BY <1>2, <1>3

LEMMA CopiedCountStep ==
    Inv /\ CopiedCount /\ [Next]_vars => CopiedCount'
<1> SUFFICES ASSUME Inv, CopiedCount, [Next]_vars
             PROVE  CopiedCount'
  OBVIOUS
<1>0. submitted_count \in Int
  BY ConstAssumption DEF Inv, TypeOK
<1>1. CASE SnapCounts
  <2>1. main'.submitted = submitted_count /\ submitted_count' = submitted_count
    BY <1>1 DEF SnapCounts, Inv, TypeOK, trackerVars
  <2>2. QED BY <1>0, <2>1 DEF CopiedCount
<1>2. CASE SwitchNext \/ SnapList \/ RequestSwitch
  <2>1. main.pc \in MainPc /\ main = [pc |-> main.pc, week |-> main.week,
                                      submitted |-> main.submitted]
    BY DEF Inv, TypeOK
  <2>2. CASE SwitchHw \/ ResetTracker \/ CloseCsv
    BY <2>1, <2>2 DEF SwitchHw, ResetTracker, CloseCsv, MainStep, CopiedCount
  <2>3. CASE OpenCsv \/ SnapList
    BY <2>3 DEF OpenCsv, SnapList, IdleMain, CopiedCount
  <2>4. CASE RequestSwitch
    BY <2>1, <2>4 DEF RequestSwitch, CopiedCount
  <2>5. QED BY <1>2, <2>2, <2>3, <2>4 DEF SwitchNext
<1>3. CASE SetStudents \/ UNCHANGED vars
  BY <1>3 DEF SetStudents, vars, trackerVars, CopiedCount
<1>4. ASSUME NEW w \in Worker, WorkerNext(w)
      PROVE  CopiedCount'
  <2>1. main' = main
    BY <1>4 DEF WorkerNext, WorkerFinish, StartJob, DropJob, GradeFault,
         GradeOutput, EnterResult, RecordSubmission, CheckCsv, WriteCsv,
         LeaveResult, SendResult
  <2>2. submitted_count' >= submitted_count
    <3>1. CASE RecordSubmission(w)
      BY <3>1, RecordingCounts
    <3>2. CASE ~RecordSubmission(w)
      <4>1. submitted_count' = submitted_count
        BY <1>4, <3>2 DEF WorkerNext, WorkerFinish, StartJob, DropJob, GradeFault,
             GradeOutput, EnterResult, CheckCsv, WriteCsv, LeaveResult, SendResult,
             trackerVars
      <4>2. QED BY <1>0, <4>1
    <3>3. QED BY <3>1, <3>2
  <2>3. submitted_count' \in Int /\ main.submitted \in Int
    BY TypeStep, ConstAssumption DEF Inv, TypeOK
  <2>4. QED BY <1>0, <2>1, <2>2, <2>3 DEF CopiedCount
<1>5. QED BY <1>1, <1>2, <1>3, <1>4 DEF Next, MainNext

(* If the used slots fit into the response, every solved student is in it: *)
(* the used slots are a prefix of the table.                               *)
LEMMA SolvedAreListed ==
    ASSUME Inv, Cardinality(UsedSlots) <= ListMax
    PROVE  SolvedSlots \subseteq ListedSolved
<1> SUFFICES ASSUME NEW i \in SolvedSlots
             PROVE  i \in ListedSolved
  OBVIOUS
<1>0. MaxStudents \in Nat /\ ListMax \in Nat
  BY ConstAssumption
<1>1. i \in Slots /\ students[i].submitted
  BY DEF SolvedSlots
<1>2. students[i].id # NoStudent
  BY <1>1 DEF Inv, FreeSlotsUnsolved
<1>3. students[i].best_result = "AC"
  BY <1>1, <1>2 DEF Inv, CountIsSolvedStudents
<1>4. \A j \in 1..i : j \in UsedSlots
  BY <1>0, <1>1, <1>2 DEF Inv, OneRecordPerStudent, UsedSlots, Slots
<1>5. IsFiniteSet(UsedSlots)
  <2>1. IsFiniteSet(Slots) /\ UsedSlots \in SUBSET Slots
    BY <1>0, FS_Interval DEF Slots, UsedSlots
  <2>2. QED BY <2>1, FS_Subset
<1>6. i <= Cardinality(UsedSlots)
  <2>1. i \in Int /\ Cardinality(1..i) = i
    BY <1>0, <1>1, FS_Interval DEF Slots
  <2>2. Cardinality(1..i) <= Cardinality(UsedSlots)
    <3>1. 1..i \in SUBSET UsedSlots
      BY <1>4
    <3>2. QED BY <1>5, <3>1, FS_Subset
  <2>3. QED BY <2>1, <2>2
<1>7. i <= ListMax
  <2>1. Cardinality(UsedSlots) \in Nat /\ i \in Int
    BY <1>0, <1>1, <1>5, FS_CardinalityType DEF Slots
  <2>2. QED BY <1>0, <1>6, <2>1
<1>8. QED BY <1>1, <1>3, <1>4, <1>7 DEF ListedSolved, ListedSlots, UsedSlots

LEMMA ListAgreesAlways ==
    Inv /\ CopiedCount => ListAgrees
<1> SUFFICES ASSUME Inv, CopiedCount, main.pc = "snap_list",
                    Cardinality(UsedSlots) <= ListMax
             PROVE  main.submitted <= Cardinality(ListedSolved)
  BY DEF ListAgrees
<1>1. SolvedSlots \in SUBSET ListedSolved
  BY SolvedAreListed
<1>2. IsFiniteSet(ListedSolved) /\ Cardinality(ListedSolved) \in Nat
  <2>1. IsFiniteSet(Slots) /\ ListedSolved \in SUBSET Slots
    BY ConstAssumption, FS_Interval DEF Slots, ListedSolved, ListedSlots
  <2>2. IsFiniteSet(ListedSolved)
    BY <2>1, FS_Subset
  <2>3. QED BY <2>2, FS_CardinalityType
<1>3. submitted_count <= Cardinality(ListedSolved)
  BY <1>1, <1>2, FS_Subset DEF Inv, CountIsSolvedStudents
<1>4. main.submitted <= submitted_count
  BY DEF CopiedCount
<1>5. submitted_count \in Int /\ main.submitted \in Int
  BY ConstAssumption DEF Inv, TypeOK
<1>6. QED BY <1>2, <1>3, <1>4, <1>5

(* The number of solved students in a response is never ahead of the list  *)
(* in the same response, though CMD_GET_TRACKER copies the two under       *)
(* separate holds of tracker_lock and workers record in between.           *)
THEOREM SnapshotConsistent == Spec => SnapshotNotAhead
<1>1. Init => CopiedCount
  BY DEF Init, IdleMain, CopiedCount
<1>2. Inv /\ CopiedCount /\ [Next]_vars => CopiedCount'
  BY CopiedCountStep
<1>3. Inv /\ CopiedCount =>
        [main.pc = "snap_list"
           /\ Cardinality({i \in Slots : students[i].id # NoStudent}) <= ListMax
           => main.submitted <= Cardinality(ListedSolved)]_main
  BY ListAgreesAlways DEF ListAgrees, UsedSlots
<1>4. QED BY <1>1, <1>2, <1>3, InvAlways, PTL DEF Spec, SnapshotNotAhead

-----------------------------------------------------------------------------
(* Waiting for the locks.                                                  *)

(* csv_lock is held exactly while the main thread replaces the file, and   *)
(* hw_lock for reading only by workers on their way to releasing it.       *)
LockUse ==
    /\ csv_locked <=> main.pc = "open_csv"
    /\ \A w \in readers : pc[w] \in Recording \cup {"leave"}

(* A worker waits for csv_lock in ctx_write_csv, hw_lock in hand. *)
WaitsForCsvLock(w) == pc[w] = "write_csv" /\ csv_locked

(* The main thread waits for hw_lock or csv_lock in ctx_set_hw. *)
MainWaits ==
    \/ main.pc = "wrlock" /\ readers # {}
    \/ main.pc = "close_csv" /\ csv_locked

(* Workers take hw_lock and then csv_lock, ctx_set_hw takes both, and yet  *)
(* nobody waits in a circle: who waits for csv_lock waits for a main       *)
(* thread that has all it needs, and a main thread that waits does so for  *)
(* workers none of which waits for anything.                               *)
NoCircularWait ==
    /\ (\E w \in Worker : WaitsForCsvLock(w)) => main.pc = "open_csv" /\ ~MainWaits
    /\ MainWaits => /\ \E w \in Worker : w \in readers
                    /\ \A w \in readers : /\ pc[w] \in Recording \cup {"leave"}
                                          /\ ~WaitsForCsvLock(w)

LEMMA LockUseStep == Inv /\ LockUse /\ [Next]_vars => LockUse'
<1> SUFFICES ASSUME Inv, LockUse, [Next]_vars
             PROVE  LockUse'
  OBVIOUS
<1> USE DEF LockUse
<1>1. ASSUME NEW w \in Worker, WorkerNext(w)
      PROVE  LockUse'
  <2>1. /\ main' = main /\ csv_locked' = csv_locked
        /\ \A v \in Worker \ {w} : pc'[v] = pc[v]
        /\ \A v \in Worker \ {w} : v \in readers' <=> v \in readers
    BY <1>1, WorkerStepFacts DEF Inv
  <2>2. readers' \subseteq Worker
    BY <1>1, WorkerTypeStep
  <2>3. w \in readers' => pc'[w] \in Recording \cup {"leave"}
    <3> USE DEF Step, Inv, TypeOK, Recording
    <3>1. CASE StartJob(w) \/ DropJob(w) \/ GradeFault(w) \/ GradeOutput(w)
                 \/ SendResult(w)
      BY <3>1 DEF StartJob, DropJob, GradeFault, GradeOutput, SendResult, hwVars
    <3>2. CASE EnterResult(w)
      BY <3>2 DEF EnterResult
    <3>3. CASE RecordSubmission(w)
      BY <3>3 DEF RecordSubmission, hwVars
    <3>4. CASE CheckCsv(w) \/ WriteCsv(w)
      BY <3>4 DEF CheckCsv, WriteCsv, hwVars
    <3>5. CASE LeaveResult(w)
      BY <3>5 DEF LeaveResult
    <3>6. QED
      BY <1>1, <3>1, <3>2, <3>3, <3>4, <3>5 DEF WorkerNext, WorkerFinish
  <2>4. QED BY <2>1, <2>2, <2>3
<1>2. CASE MainNext
  <2>1. pc' = pc /\ readers' = readers
    BY <1>2, MainStepFacts
  <2>2. csv_locked' <=> main'.pc = "open_csv"
    <3> USE DEF MainStep, Inv, TypeOK
    <3>1. CASE RequestSwitch \/ SwitchHw \/ ResetTracker
      <4>1. csv_locked' = csv_locked /\ main.pc # "open_csv"
        BY <3>1 DEF RequestSwitch, SwitchHw, ResetTracker, csvVars
      <4>2. main'.pc # "open_csv"
        BY <3>1 DEF RequestSwitch, SwitchHw, ResetTracker
      <4>3. QED BY <4>1, <4>2
    <3>2. CASE SetStudents
      BY <3>2 DEF SetStudents, csvVars
    <3>3. CASE SnapCounts \/ SnapList
      <4>1. csv_locked' = csv_locked /\ main.pc # "open_csv"
        BY <3>3 DEF SnapCounts, SnapList, csvVars
      <4>2. main'.pc # "open_csv"
        <5>1. CASE SnapCounts
          BY <5>1 DEF SnapCounts
        <5>2. CASE SnapList
          BY <5>2 DEF SnapList, IdleMain
        <5>3. QED BY <3>3, <5>1, <5>2
      <4>3. QED BY <4>1, <4>2
    <3>4. CASE CloseCsv \/ OpenCsv
      BY <3>4 DEF CloseCsv, OpenCsv, IdleMain
    <3>5. QED BY <1>2, <3>1, <3>2, <3>3, <3>4 DEF MainNext, SwitchNext
  <2>3. QED BY <2>1, <2>2
<1>3. CASE UNCHANGED vars
  BY <1>3 DEF vars, hwVars, csvVars, workerVars
<1>4. QED BY <1>1, <1>2, <1>3 DEF Next

(* No deadlock between the workers' hw_lock, csv_lock order and the main   *)
(* thread's switch, whatever the number of workers.                        *)
THEOREM LocksNeverCircular == Spec => []NoCircularWait
<1>1. Init => LockUse
  BY DEF Init, LockUse, IdleMain
<1>2. Inv /\ LockUse /\ [Next]_vars => LockUse'
  BY LockUseStep
<1>3. Inv /\ LockUse => NoCircularWait
  BY DEF Inv, TypeOK, LockUse, NoCircularWait, WaitsForCsvLock, MainWaits
<1>4. QED BY <1>1, <1>2, <1>3, InvAlways, PTL DEF Spec

-----------------------------------------------------------------------------
(* The rows of the CSV files.                                              *)

(* Except between the first phase of ctx_set_hw and the fourth, what is    *)
(* written to a week's CSV file is a result of that week at its end, or    *)
(* the header of a file that was empty: only a recording inside a switch   *)
(* can put a row into another week's file.                                 *)
RowsMisplacedOnlyInSwitch ==
    [][main.pc \notin {"reset", "close_csv"} =>
         \A k \in Week : \/ csv_file'[k] = csv_file[k]
                         \/ csv_file'[k] = Append(csv_file[k], k)
                         \/ csv_file[k] = <<>> /\ csv_file'[k] = <<Header>>]_csv_file

LEMMA RowStep ==
    ASSUME Inv, [Next]_vars, main.pc \notin {"reset", "close_csv"}, NEW k \in Week
    PROVE  \/ csv_file'[k] = csv_file[k]
           \/ csv_file'[k] = Append(csv_file[k], k)
           \/ csv_file[k] = <<>> /\ csv_file'[k] = <<Header>>
<1>0. csv_file \in [Week -> Seq(Week \cup {Header})] /\ NoWeek \notin Week
      /\ csv_fd \in Week \cup {NoWeek}
  BY ConstAssumption DEF Inv, TypeOK
<1>1. ASSUME NEW w \in Worker, WriteCsv(w)
      PROVE  csv_file'[k] = csv_file[k] \/ csv_file'[k] = Append(csv_file[k], k)
  <2>1. CASE csv_file' = csv_file
    BY <2>1
  <2>2. CASE csv_file' # csv_file
    <3>1. csv_fd # NoWeek
          /\ csv_file' = [csv_file EXCEPT ![csv_fd] = Append(@, task[w].hw)]
      BY <1>1, <2>2 DEF WriteCsv
    <3>2. csv_fd = current_hw /\ task[w].hw = current_hw
      BY <1>1, <3>1 DEF WriteCsv, Step, Inv, OpenCsvIsCurrentWeeks,
                        RecordingWeekIsCurrent, Recording
    <3>3. QED BY <1>0, <3>1, <3>2
  <2>3. QED BY <2>1, <2>2
<1>2. CASE OpenCsv
  <2>1. csv_file' = csv_file \/ csv_file' \in Headed(csv_file, csv_made, main.week)
    BY <1>2 DEF OpenCsv
  <2>2. main.week \in Week
    BY <1>2 DEF OpenCsv, Inv, SwitchPhases
  <2>3. CASE main.week \notin csv_made
             /\ csv_file' = [csv_file EXCEPT ![main.week] = Append(@, Header)]
    <3>1. csv_file[main.week] = <<>>
      BY <2>2, <2>3 DEF Inv, FilesMade
    <3>2. Append(csv_file[main.week], Header) = <<Header>>
      BY <3>1
    <3>3. QED BY <1>0, <2>2, <2>3, <3>1, <3>2
  <2>4. QED BY <2>1, <2>3 DEF Headed
<1>3. CASE ~OpenCsv /\ \A w \in Worker : ~WriteCsv(w)
  <2>1. csv_file' = csv_file
    BY <1>3 DEF Next, MainNext, SwitchNext, RequestSwitch, SwitchHw, ResetTracker,
         CloseCsv, SetStudents, SnapCounts, SnapList, vars, WorkerNext, WorkerFinish,
         StartJob, DropJob, GradeFault, GradeOutput, EnterResult, RecordSubmission,
         CheckCsv, LeaveResult, SendResult, csvVars
  <2>2. QED BY <2>1
<1>4. QED BY <1>1, <1>2, <1>3

(* A row goes astray only while a week switch is between its phases.       *)
THEOREM RowsInPlace == Spec => RowsMisplacedOnlyInSwitch
<1>1. Inv /\ [Next]_vars =>
        [main.pc \notin {"reset", "close_csv"} =>
           \A k \in Week : \/ csv_file'[k] = csv_file[k]
                           \/ csv_file'[k] = Append(csv_file[k], k)
                           \/ csv_file[k] = <<>> /\ csv_file'[k] = <<Header>>]_csv_file
  BY RowStep
<1>2. QED BY <1>1, InvAlways, PTL DEF Spec, RowsMisplacedOnlyInSwitch
=============================================================================
