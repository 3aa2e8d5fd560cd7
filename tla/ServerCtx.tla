------------------------------ MODULE ServerCtx ------------------------------
(***************************************************************************)
(* The grading server's shared context g_ctx (server/server_ctx.c) as the  *)
(* worker threads and the main thread of server/server.c use it.           *)
(*                                                                         *)
(* A worker grades one submission at a time: it copies the current week,   *)
(* compiles and runs the program, compares the output with the answer file *)
(* of the week current at that moment, and records the result in the       *)
(* tracker and in the CSV file while it holds hw_lock for reading.  The    *)
(* main thread runs the administrator's commands one after the other; a    *)
(* week switch (ctx_set_hw) goes through hw_lock, tracker_lock and         *)
(* csv_lock one by one and holds no two of them together.                  *)
(*                                                                         *)
(* A critical section that touches only data nobody reads without its lock *)
(* is one action.  hw_lock held for reading across a recording and         *)
(* csv_lock held while the CSV file is replaced span several actions and   *)
(* are state.                                                              *)
(***************************************************************************)
EXTENDS Integers, Sequences, FiniteSets

CONSTANTS
    Worker,         \* worker threads
    Student,        \* student identifiers (7 to 15 digits, never empty)
    Week,           \* week names the administrator uses
    FirstWeek,      \* "week_1", set by ctx_init
    OldFiles,       \* weeks whose CSV file an earlier run of the server left
    Fault,          \* the grades given without comparing output
    ClassSizes,     \* class sizes the administrator enters
    MaxStudents,    \* MAX_STUDENTS, slots of the student table
    CountMax,       \* UINT32_MAX, where submit_count saturates
    ReplyMax,       \* UINT16_MAX, where the reported attempt saturates
    ListMax,        \* table entries that fit into one IPC payload
    MaxJobs,        \* bound: submissions taken from the queue
    MaxSwitches,    \* bound: week switches requested
    MaxEvents,      \* bound: submissions and week switches together
    NoStudent,      \* the empty student_id of a free slot
    NoWeek,         \* no week: no file open, no answer file read
    Header          \* the header line of a CSV file

ASSUME ConstAssumption ==
    /\ FirstWeek \in Week
    /\ OldFiles \subseteq Week
    /\ Fault \subseteq {"TLE", "RE", "CE"}
    /\ ClassSizes \subseteq 1..MaxStudents
    /\ MaxStudents \in Nat \ {0}
    /\ CountMax \in Nat /\ ReplyMax \in Nat /\ ListMax \in Nat
    /\ MaxJobs \in Nat /\ MaxSwitches \in Nat /\ MaxEvents \in Nat
    /\ NoStudent \notin Student
    /\ NoWeek \notin Week
    /\ Header \notin Week

VARIABLES
    current_hw,       \* week in force; ans_path and submit_dir derive from it
    readers,          \* workers that hold hw_lock for reading while recording
    students,         \* the table of StudentRecords
    submitted_count,  \* students with an AC, as the server counts them
    total_students,   \* class size set by the administrator
    csv_fd,           \* week whose CSV file is open, or NoWeek
    csv_locked,       \* csv_lock is held by the main thread
    total_records,    \* rows written since the file was opened
    csv_made,         \* weeks whose CSV file exists
    csv_file,         \* content of each week's CSV file: Header or row's week
    main,             \* the main thread: pc, week to set, count snapshot
    pc,               \* where each worker is
    task,             \* the submission each worker is grading
    jobs,             \* submissions taken from the queue so far (bounded)
    epoch,            \* week switches begun so far (bounded)
    tracker_weeks     \* history: weeks of the results in the student table

hwVars      == <<current_hw, readers, epoch>>
trackerVars == <<students, submitted_count, total_students, tracker_weeks>>
csvVars     == <<csv_fd, csv_locked, total_records, csv_made, csv_file>>
workerVars  == <<pc, task, jobs>>
vars == <<hwVars, trackerVars, csvVars, workerVars, main>>

Grade == {"AC", "WA"} \cup Fault
Slots == 1..MaxStudents

-----------------------------------------------------------------------------
(* The student table: pure operators of ctx_record_submission.             *)

StudentRecord ==
    [id : Student \cup {NoStudent}, submitted : BOOLEAN,
     best_result : Grade, submit_count : 0..CountMax]

(* memset 0: no student, and GRADE_AC is 0. *)
FreeSlot == [id |-> NoStudent, submitted |-> FALSE,
             best_result |-> "AC", submit_count |-> 0]

(* A slot just given to student s. *)
OpenedSlot(s) == [id |-> s, submitted |-> FALSE,
                  best_result |-> "WA", submit_count |-> 0]

(* Mutant: the search for an existing record is lost. *)
SlotForFree(table, s) ==
    {i \in Slots : /\ table[i].id = NoStudent
                   /\ \A j \in 1..(i - 1) : table[j].id # NoStudent}

(* The slot the two scans settle on: the first that holds s or is free.    *)
(* Empty when the table is full of other students.                         *)
SlotFor(table, s) ==
    {i \in Slots : /\ table[i].id \in {s, NoStudent}
                   /\ \A j \in 1..(i - 1) : table[j].id \notin {s, NoStudent}}

(* Mutant: a later failure overwrites the result of a solved problem. *)
AttemptedOverwrites(slot, s, g) ==
    LET r == IF slot.id = s THEN slot ELSE OpenedSlot(s)
    IN [id           |-> s,
        submitted    |-> r.submitted \/ g = "AC",
        best_result  |-> g,
        submit_count |-> IF r.submit_count < CountMax
                         THEN r.submit_count + 1 ELSE r.submit_count]

(* One more attempt of s with grade g, on a slot that holds s or is free: *)
(* the first AC is kept for good, until then the last result counts.      *)
Attempted(slot, s, g) ==
    LET r == IF slot.id = s THEN slot ELSE OpenedSlot(s)
    IN [id           |-> s,
        submitted    |-> r.submitted \/ g = "AC",
        best_result  |-> IF \/ g = "AC" /\ r.submitted
                            \/ g # "AC" /\ r.best_result = "AC"
                         THEN r.best_result ELSE g,
        submit_count |-> IF r.submit_count < CountMax
                         THEN r.submit_count + 1 ELSE r.submit_count]

(* Mutant: every AC counts, not only a student's first. *)
EveryAC(slot, s, g) == g = "AC"

(* The attempt makes s a student who has solved the week's problem. *)
FirstAC(slot, s, g) == g = "AC" /\ ~(slot.id = s /\ slot.submitted)

Saturate(n, cap) == IF n > cap THEN cap ELSE n

-----------------------------------------------------------------------------
IdleTask == [student |-> NoStudent, hw |-> NoWeek, ans |-> NoWeek,
             grade |-> "AC", attempt |-> 0, epoch |-> 0]

NewTask(s) == [student |-> s, hw |-> current_hw, ans |-> NoWeek,
               grade |-> "AC", attempt |-> 0, epoch |-> epoch]

IdleMain == [pc |-> "idle", week |-> NoWeek, submitted |-> 0]

(* What the CSV files hold once week k has been opened: a file that did    *)
(* not exist is given its header, a write whose failure goes unnoticed.    *)
Headed(files, made, k) ==
    {files} \cup (IF k \in made THEN {}
                 ELSE {[files EXCEPT ![k] = Append(@, Header)]})

(* ctx_init sets the first week before any thread runs: its CSV file is    *)
(* opened, unless that fails.  Files of an earlier run are appended to.    *)
Init ==
    /\ current_hw = FirstWeek
    /\ readers = {}
    /\ students = [i \in Slots |-> FreeSlot]
    /\ submitted_count = 0
    /\ total_students = 0
    /\ csv_fd \in {FirstWeek, NoWeek}
    /\ csv_locked = FALSE
    /\ total_records = 0
    /\ csv_made = OldFiles \cup ({csv_fd} \cap Week)
    /\ csv_file \in LET old == [k \in Week |-> IF k \in OldFiles
                                            THEN <<Header>> ELSE <<>>]
                    IN IF csv_fd = NoWeek THEN {old}
                       ELSE Headed(old, OldFiles, csv_fd)
    /\ main = IdleMain
    /\ pc = [w \in Worker |-> "idle"]
    /\ task = [w \in Worker |-> IdleTask]
    /\ jobs = 0
    /\ epoch = 0
    /\ tracker_weeks = {}

-----------------------------------------------------------------------------
(* Worker threads: handle_client and build_and_send_result.                *)

Step(w, from, to) == pc[w] = from /\ pc' = [pc EXCEPT ![w] = to]

(* A connection is taken from the queue; the current week is copied before *)
(* the header, and with it the student's identity, has been received.      *)
StartJob(w) ==
    /\ jobs < MaxJobs /\ jobs + epoch < MaxEvents
    /\ Step(w, "idle", "grading")
    /\ \E s \in Student :
         task' = [task EXCEPT ![w] = NewTask(s)]
    /\ jobs' = jobs + 1
    /\ UNCHANGED <<hwVars, trackerVars, csvVars, main>>

(* The peer hangs up before its header is complete, no work directory can  *)
(* be made, or the request was for files: nothing is graded.               *)
DropJob(w) ==
    /\ Step(w, "grading", "idle")
    /\ task' = [task EXCEPT ![w] = IdleTask]
    /\ UNCHANGED <<hwVars, trackerVars, csvVars, main, jobs>>

(* Compile error, time limit or run-time error: no answer file is read. *)
GradeFault(w) ==
    /\ Step(w, "grading", "result")
    /\ \E g \in Fault : task' = [task EXCEPT ![w].grade = g]
    /\ UNCHANGED <<hwVars, trackerVars, csvVars, main, jobs>>

(* The program exited with 0: its output is compared with the answer file  *)
(* of the week in force now.  A missing answer file grades AC.             *)
GradeOutput(w) ==
    /\ Step(w, "grading", "result")
    /\ \E g \in {"AC", "WA"} :
         task' = [task EXCEPT ![w].grade = g, ![w].ans = current_hw]
    /\ UNCHANGED <<hwVars, trackerVars, csvVars, main, jobs>>

(* Mutant: the week is not compared again before recording. *)
EnterResultUnchecked(w) ==
    /\ Step(w, "result", "record")
    /\ readers' = readers \cup {w}
    /\ UNCHANGED <<current_hw, epoch, trackerVars, csvVars, main, task, jobs>>

(* hw_lock is taken for reading and stays held; a result of a week that is *)
(* no longer in force is not recorded.                                     *)
EnterResult(w) ==
    /\ Step(w, "result", IF current_hw = task[w].hw THEN "record" ELSE "leave")
    /\ readers' = readers \cup {w}
    /\ UNCHANGED <<current_hw, epoch, trackerVars, csvVars, main, task, jobs>>

(* ctx_record_submission under tracker_lock; a full table records nothing. *)
RecordSubmission(w) ==
    LET s == task[w].student
        g == task[w].grade
    IN /\ Step(w, "record", "check_csv")
       /\ \/ \E i \in SlotFor(students, s) :
               LET r == Attempted(students[i], s, g)
               IN /\ students' = [students EXCEPT ![i] = r]
                  /\ submitted_count' =
                       submitted_count + (IF FirstAC(students[i], s, g) THEN 1 ELSE 0)
                  /\ task' = [task EXCEPT
                                ![w].attempt = Saturate(r.submit_count, ReplyMax)]
                  /\ tracker_weeks' = tracker_weeks \cup {task[w].hw}
          \/ /\ SlotFor(students, s) = {}
             /\ UNCHANGED <<students, submitted_count, task, tracker_weeks>>
       /\ UNCHANGED <<hwVars, csvVars, main, jobs, total_students>>

(* Mutant: without a CSV file the worker returns with hw_lock held. *)
CheckCsvLeaks(w) ==
    /\ Step(w, "check_csv", IF csv_fd = NoWeek THEN "reply" ELSE "write_csv")
    /\ UNCHANGED <<hwVars, trackerVars, csvVars, main, task, jobs>>

(* ctx_write_csv looks at csv_fd before it takes csv_lock. *)
CheckCsv(w) ==
    /\ Step(w, "check_csv", IF csv_fd = NoWeek THEN "leave" ELSE "write_csv")
    /\ UNCHANGED <<hwVars, trackerVars, csvVars, main, task, jobs>>

(* The row goes to whatever file is open once csv_lock is held.  The write *)
(* fails if none is any more, and may fail if one is: the row is lost.     *)
WriteCsv(w) ==
    /\ ~csv_locked
    /\ Step(w, "write_csv", "leave")
    /\ \/ /\ csv_fd # NoWeek
          /\ csv_file' = [csv_file EXCEPT ![csv_fd] = Append(@, task[w].hw)]
          /\ total_records' = total_records + 1
       \/ UNCHANGED <<csv_file, total_records>>
    /\ UNCHANGED <<hwVars, trackerVars, csv_fd, csv_locked, csv_made, main, task,
                   jobs>>

(* hw_lock is released. *)
LeaveResult(w) ==
    /\ Step(w, "leave", "reply")
    /\ readers' = readers \ {w}
    /\ UNCHANGED <<current_hw, epoch, trackerVars, csvVars, main, task, jobs>>

(* The counts are read under tracker_lock and the result is sent. *)
SendResult(w) ==
    /\ Step(w, "reply", "idle")
    /\ task' = [task EXCEPT ![w] = IdleTask]
    /\ UNCHANGED <<hwVars, trackerVars, csvVars, main, jobs>>

-----------------------------------------------------------------------------
(* The main thread: handle_ctl_client, one command at a time.              *)

MainStep(from, to) == main.pc = from /\ main' = [main EXCEPT !.pc = to]

(* CMD_SET_HW: the week name is not empty, ctx_set_hw is called. *)
RequestSwitch ==
    /\ epoch < MaxSwitches /\ jobs + epoch < MaxEvents
    /\ main.pc = "idle"
    /\ \E k \in Week : main' = [main EXCEPT !.pc = "wrlock", !.week = k]
    /\ UNCHANGED <<hwVars, trackerVars, csvVars, workerVars>>

(* Mutant: hw_lock is not taken for writing. *)
SwitchHwUnlocked ==
    /\ MainStep("wrlock", "reset")
    /\ current_hw' = main.week
    /\ epoch' = epoch + 1
    /\ UNCHANGED <<readers, trackerVars, csvVars, workerVars>>

(* Phase 1, under hw_lock for writing: no recording is under way. *)
SwitchHw ==
    /\ readers = {}
    /\ MainStep("wrlock", "reset")
    /\ current_hw' = main.week
    /\ epoch' = epoch + 1
    /\ UNCHANGED <<readers, trackerVars, csvVars, workerVars>>

(* Mutant: the count survives the reset of the table. *)
ResetTrackerKeepsCount ==
    /\ MainStep("reset", "close_csv")
    /\ students' = [i \in Slots |-> FreeSlot]
    /\ tracker_weeks' = {}
    /\ UNCHANGED <<hwVars, submitted_count, total_students, csvVars, workerVars>>

(* Phase 3, under tracker_lock: the table and the count are cleared, the   *)
(* class size is kept.                                                     *)
ResetTracker ==
    /\ MainStep("reset", "close_csv")
    /\ students' = [i \in Slots |-> FreeSlot]
    /\ submitted_count' = 0
    /\ tracker_weeks' = {}
    /\ UNCHANGED <<hwVars, total_students, csvVars, workerVars>>

(* Mutant: the old file stays open until the new one is. *)
CloseCsvLater ==
    /\ ~csv_locked
    /\ MainStep("close_csv", "open_csv")
    /\ csv_locked' = TRUE
    /\ UNCHANGED <<hwVars, trackerVars, csv_fd, total_records, csv_made, csv_file,
                   workerVars>>

(* Phase 4, csv_lock taken: the old file is closed, ... *)
CloseCsv ==
    /\ ~csv_locked
    /\ MainStep("close_csv", "open_csv")
    /\ csv_locked' = TRUE
    /\ csv_fd' = NoWeek
    /\ UNCHANGED <<hwVars, trackerVars, total_records, csv_made, csv_file, workerVars>>

(* Mutant: the header is written whether or not the file existed. *)
OpenCsvHeaderAlways ==
    /\ main.pc = "open_csv"
    /\ main' = IdleMain
    /\ csv_locked' = FALSE
    /\ \/ /\ csv_fd' = main.week
          /\ csv_made' = csv_made \cup {main.week}
          /\ csv_file' \in Headed(csv_file, {}, main.week)
          /\ total_records' = 0
       \/ UNCHANGED <<csv_fd, csv_made, csv_file, total_records>>
    /\ UNCHANGED <<hwVars, trackerVars, workerVars>>

(* Mutant: a failed open returns without releasing csv_lock. *)
OpenCsvFailureLeaks ==
    /\ main.pc = "open_csv"
    /\ main' = IdleMain
    /\ \/ /\ csv_fd' = main.week
          /\ csv_locked' = FALSE
          /\ csv_made' = csv_made \cup {main.week}
          /\ csv_file' \in Headed(csv_file, csv_made, main.week)
          /\ total_records' = 0
       \/ UNCHANGED <<csv_fd, csv_locked, csv_made, csv_file, total_records>>
    /\ UNCHANGED <<hwVars, trackerVars, workerVars>>

(* ... the new one is opened for appending, with a header if it did not    *)
(* exist, and csv_lock is released.  If open fails no file is open.        *)
OpenCsv ==
    /\ main.pc = "open_csv"
    /\ main' = IdleMain
    /\ csv_locked' = FALSE
    /\ \/ /\ csv_fd' = main.week
          /\ csv_made' = csv_made \cup {main.week}
          /\ csv_file' \in Headed(csv_file, csv_made, main.week)
          /\ total_records' = 0
       \/ UNCHANGED <<csv_fd, csv_made, csv_file, total_records>>
    /\ UNCHANGED <<hwVars, trackerVars, workerVars>>

(* CMD_SET_STUDENTS with a number in range; any other is refused. *)
SetStudents ==
    /\ main.pc = "idle"
    /\ total_students' \in ClassSizes
    /\ UNCHANGED <<hwVars, students, submitted_count, tracker_weeks,
                   csvVars, workerVars, main>>

(* CMD_GET_TRACKER takes each lock on its own: first the counts are read,  *)
(* then the week and the number of rows (the switch runs on this thread,   *)
(* so the week is that of the counts), ...                                 *)
SnapCounts ==
    /\ main.pc = "idle"
    /\ main' = [main EXCEPT !.pc = "snap_list", !.submitted = submitted_count]
    /\ UNCHANGED <<hwVars, trackerVars, csvVars, workerVars>>

(* ... and last, as many table entries as fit; the response is sent. *)
SnapList ==
    /\ main.pc = "snap_list"
    /\ main' = IdleMain
    /\ UNCHANGED <<hwVars, trackerVars, csvVars, workerVars>>

(* The entries SnapList copies into the response. *)
ListedSlots ==
    {i \in Slots : i <= ListMax /\ \A j \in 1..i : students[j].id # NoStudent}

-----------------------------------------------------------------------------
WorkerFinish(w) ==
    \/ EnterResult(w) \/ RecordSubmission(w) \/ CheckCsv(w) \/ WriteCsv(w)
    \/ LeaveResult(w) \/ SendResult(w)

WorkerNext(w) ==
    \/ StartJob(w) \/ DropJob(w) \/ GradeFault(w) \/ GradeOutput(w)
    \/ WorkerFinish(w)

SwitchNext == SwitchHw \/ ResetTracker \/ CloseCsv \/ OpenCsv

MainNext ==
    \/ RequestSwitch \/ SwitchNext \/ SetStudents
    \/ SnapCounts \/ SnapList

Next == MainNext \/ \E w \in Worker : WorkerNext(w)

(* Threads that can run do run.  Grading is not fair: a program that waits *)
(* without using CPU time is never stopped, and a peer may never send.     *)
(* SF on the two acquisitions others may overtake: hw_lock for writing and *)
(* csv_lock against the main thread are handed out again and again, and    *)
(* the waiter is assumed to get its turn.                                  *)
Fairness ==
    /\ WF_vars(SwitchNext \/ SnapList)
    /\ SF_vars(SwitchHw)
    /\ \A w \in Worker : WF_vars(WorkerFinish(w)) /\ SF_vars(WriteCsv(w))

Spec == Init /\ [][Next]_vars /\ Fairness

-----------------------------------------------------------------------------
(* Invariants.                                                             *)

Tasks == [student : Student \cup {NoStudent}, hw : Week \cup {NoWeek},
          ans : Week \cup {NoWeek}, grade : Grade,
          attempt : 0..ReplyMax, epoch : Nat]

WorkerPc == {"idle", "grading", "result", "record", "check_csv",
             "write_csv", "leave", "reply"}

MainPc == {"idle", "wrlock", "reset", "close_csv", "open_csv", "snap_list"}

(* The types of the variables.  That submitted_count stays within the      *)
(* table size is what keeps the 16-bit counter of server_ctx.h from        *)
(* wrapping: nothing in ctx_record_submission checks it.                   *)
TypeOK ==
    /\ current_hw \in Week
    /\ readers \subseteq Worker
    /\ students \in [Slots -> StudentRecord]
    /\ submitted_count \in 0..MaxStudents
    /\ total_students \in 0..MaxStudents
    /\ csv_fd \in Week \cup {NoWeek}
    /\ csv_locked \in BOOLEAN
    /\ total_records \in Nat
    /\ csv_made \subseteq Week
    /\ csv_file \in [Week -> Seq(Week \cup {Header})]
    /\ main \in [pc : MainPc, week : Week \cup {NoWeek},
                submitted : 0..MaxStudents]
    /\ pc \in [Worker -> WorkerPc]
    /\ task \in [Worker -> Tasks]
    /\ jobs \in Nat
    /\ epoch \in Nat
    /\ tracker_weeks \subseteq Week

SolvedSlots == {i \in Slots : students[i].submitted}

(* submitted_count (ctx_record_submission) is the number of students whose *)
(* record says solved, whatever mixture of first, repeated and failed      *)
(* attempts and week switches came before; and the dashboard's best result *)
(* AC means solved and nothing else.                                       *)
CountIsSolvedStudents ==
    /\ submitted_count = Cardinality(SolvedSlots)
    /\ \A i \in Slots :
         students[i].id # NoStudent =>
           (students[i].submitted <=> students[i].best_result = "AC")

(* The table the two scans of ctx_record_submission build: no student has  *)
(* two records, and the used slots are a prefix, so that the scans, which  *)
(* stop at the first free slot, see every record.                          *)
OneRecordPerStudent ==
    /\ \A i, j \in Slots :
         students[i].id = students[j].id /\ students[i].id # NoStudent => i = j
    /\ \A i, j \in Slots :
         i < j /\ students[i].id = NoStudent => students[j].id = NoStudent

Recording == {"record", "check_csv", "write_csv"}

(* While build_and_send_result records a result, the week of the           *)
(* submission is the week in force: hw_lock keeps ctx_set_hw out between   *)
(* the comparison and the last write.                                      *)
RecordingWeekIsCurrent ==
    \A w \in Worker : pc[w] \in Recording => current_hw = task[w].hw

(* Outside the window between the first and the third phase of ctx_set_hw  *)
(* the student table holds results of the week in force only: a submission *)
(* of the old week that was graded during the switch cannot get in.        *)
TrackerHoldsCurrentWeek ==
    main.pc # "reset" => tracker_weeks \subseteq {current_hw}

(* When ctx_set_hw has returned, the open CSV file is the current week's;  *)
(* if it could not be opened no file is, and never the old one.            *)
OpenCsvIsCurrentWeeks ==
    main.pc \notin {"reset", "close_csv"} /\ csv_fd # NoWeek => csv_fd = current_hw

(* Whenever the weeks are switched to, and back, and the server restarted, *)
(* no CSV file gets a header line anywhere but in front; a header whose    *)
(* write failed stays missing.                                             *)
HeaderOnlyFirst ==
    \A k \in Week : \A i \in 1..Len(csv_file[k]) :
        csv_file[k][i] = Header => i = 1

(* A result judged against another week's answer file (handle_client reads *)
(* ans_path long after it copied current_hw) is recorded only if the       *)
(* administrator switched away and back while it was being graded.         *)
ForeignAnswerNeedsTwoSwitches ==
    \A w \in Worker :
        pc[w] \in Recording /\ task[w].ans \notin {NoWeek, task[w].hw}
            => epoch >= task[w].epoch + 2

-----------------------------------------------------------------------------
(* Action properties.                                                      *)

ListedSolved == {i \in ListedSlots : students[i].best_result = "AC"}

(* A CMD_GET_TRACKER response is put together under separate locks while   *)
(* workers record: provided the whole table fits, the number of solved     *)
(* students it reports is never more than its list shows.                  *)
SnapshotNotAhead ==
    [][main.pc = "snap_list"
         /\ Cardinality({i \in Slots : students[i].id # NoStudent}) <= ListMax
         => main.submitted <= Cardinality(ListedSolved)]_main

(* A client told AC with an attempt number, by a worker during whose work  *)
(* no week switch began, is among the students counted in its response.    *)
AcceptedIsCounted ==
    [][\A w \in Worker :
         /\ pc[w] = "reply" /\ pc'[w] = "idle"
         /\ task[w].grade = "AC" /\ task[w].attempt > 0
         /\ task[w].epoch = epoch
         => submitted_count > 0]_vars

(* Every row of a week's CSV file is a result of that week. *)
CsvRowsOfOwnWeek ==
    \A k \in Week : \A i \in 1..Len(csv_file[k]) : csv_file[k][i] \in {k, Header}

(* ServerCtx implements ScoreBoard: the solved students only grow until    *)
(* the tracker is cleared, and the count shown is theirs at every moment.  *)
Board == INSTANCE ScoreBoard
            WITH Capacity <- MaxStudents,
                 solved   <- {students[i].id : i \in SolvedSlots},
                 shown    <- submitted_count

BoardSpec == Board!Spec

-----------------------------------------------------------------------------
(* Liveness.                                                               *)

(* A graded submission is answered, even while weeks are switched. *)
ResultIsSent == \A w \in Worker : pc[w] = "result" ~> pc[w] = "idle"

(* A week switch completes, even if every submission being graded hangs. *)
SwitchCompletes == main.pc = "wrlock" ~> main.pc = "idle"
=============================================================================
