---------------------------- MODULE SandboxProofs ----------------------------
(***************************************************************************)
(* Proofs about Sandbox.                                                   *)
(*                                                                         *)
(* The invariant is JobInv(j), one for every job: what the server and the  *)
(* children of the job hold, and how far worker, wrapper and program can   *)
(* be apart.  A step of one job changes nothing another job's JobInv       *)
(* mentions (Frame), except the death of the server, so a step has to be   *)
(* looked at for its own job only.                                         *)
(***************************************************************************)
EXTENDS Sandbox, FiniteSetTheorems, TLAPS

-----------------------------------------------------------------------------
(* The inductive invariant.                                                *)

(* The ends of its own pipes the server holds, by the worker's progress. *)
ServerEnds(p) ==
    IF p = "fork_gcc" THEN {"err_r", "err_w"}
    ELSE IF p \in {"wait_gcc", "read_err", "open_monitor", "wait_wrapper"}
         THEN {"err_r"}
    ELSE IF p = "fork_wrapper"
         THEN {"err_r", "sync_r", "sync_w", "pid_r", "pid_w"}
    ELSE IF p = "read_pid" THEN {"err_r", "sync_w", "pid_r"}
    ELSE IF p = "start" THEN {"err_r", "sync_w"} ELSE {}

ServerHolds(j) ==
    server_up => \A n \in EndName : <<j, n>> \in server_fds <=> n \in ServerEnds(pc[j])

(* Until they have reported and started, wrapper and program hold the ends *)
(* the worker's next step depends on.                                      *)
ChildHolds(j) ==
    /\ proc[Wrapper(j)] \in {"forked", "run"} =>
         /\ <<j, "sync_r">> \in fds[Wrapper(j)]
         /\ <<j, "pid_w">> \in fds[Wrapper(j)]
    /\ proc[Inner(j)] = "forked" => <<j, "sync_r">> \in fds[Inner(j)]

(* The job has a gcc of its own and its worker has its status. *)
GccIsOwn(j) == proc[Gcc(j)] # "none" /\ Gcc(j) \notin reaped

Compiled(j) ==
    /\ pc[j] \in {"none", "fork_gcc"} => proc[Gcc(j)] = "none"
    /\ GccIsOwn(j) =>
         /\ pc[j] = "read_err" => proc[Gcc(j)] \in Ended \ {"exit0"}
         /\ pc[j] \in {"open_monitor", "fork_wrapper", "read_pid", "start",
                       "wait_wrapper"} => proc[Gcc(j)] = "exit0"
    /\ pc[j] \in {"none", "fork_gcc", "wait_gcc", "read_err", "open_monitor",
                  "fork_wrapper"} => proc[Wrapper(j)] = "none"
    /\ monitor[j] = "closed" <=>
         \/ pc[j] \in {"none", "fork_gcc", "wait_gcc", "read_err", "open_monitor"}
         \/ pc[j] = "done" /\ grade[j] = "CE"

(* A child that was taken had ended. *)
TakenEnded(j) ==
    /\ Gcc(j) \in reaped => proc[Gcc(j)] \in Ended
    /\ Wrapper(j) \in reaped => proc[Wrapper(j)] \in Ended

(* The ways the wrapper may have ended: it could not fork, it ended as the *)
(* program did, or nobody was there to read the pid.                       *)
Wrapped(j) ==
    /\ proc[Wrapper(j)] \in {"none", "forked"} => proc[Inner(j)] = "none"
    /\ proc[Wrapper(j)] \in {"run", "wait"} => proc[Inner(j)] # "none"
    /\ proc[Wrapper(j)] = "wait" => j \in pid_sent
    /\ j \in pid_sent => proc[Wrapper(j)] \in {"wait"} \cup Ended
    /\ proc[Wrapper(j)] \in Ended =>
         \/ proc[Wrapper(j)] = "exit1" /\ proc[Inner(j)] = "none"
         \/ proc[Wrapper(j)] = proc[Inner(j)] /\ j \in pid_sent
         \/ /\ proc[Wrapper(j)] = "SIGPIPE" /\ proc[Inner(j)] # "none"
            /\ monitor[j] = "none" \/ ~server_up
    /\ proc[Inner(j)] # "wait"
    /\ program[j] = "unknown" <=> proc[Inner(j)] \in {"none", "forked"}

(* The program has left its read of run_sync_pipe only after the signal. *)
Started(j) ==
    /\ j \in go => pc[j] \in {"wait_wrapper", "done"}
    /\ pc[j] = "wait_wrapper" => j \in go
    /\ pc[j] = "done" /\ proc[Wrapper(j)] # "none" => j \in go
    /\ server_up /\ proc[Inner(j)] \in {"run"} \cup Ended => j \in go

(* Past the read of pid_report_pipe the wrapper has reported or is gone. *)
Reported(j) ==
    monitor[j] # "none" /\ pc[j] \in {"start", "wait_wrapper", "done"} =>
        /\ proc[Wrapper(j)] \notin {"forked", "run"}
        /\ monitor[j] = "loaded" /\ proc[Inner(j)] # "none" => j \in tracked

Judged(j) ==
    pc[j] = "done" /\ Intact(j) =>
        /\ proc[Gcc(j)] \in Ended
        /\ proc[Wrapper(j)] = "none" => proc[Gcc(j)] # "exit0" /\ grade[j] = "CE"
        /\ proc[Wrapper(j)] # "none" /\ monitor[j] # "none" =>
             /\ proc[Gcc(j)] = "exit0"
             /\ proc[Wrapper(j)] \in Ended
             /\ proc[Inner(j)] \in {"none"} \cup Ended
             /\ proc[Wrapper(j)] = "exit0" <=> proc[Inner(j)] = "exit0"
             /\ grade[j] \in GradesOf(proc[Wrapper(j)])

JobInv(j) ==
    /\ ServerHolds(j) /\ ChildHolds(j) /\ Compiled(j) /\ TakenEnded(j)
    /\ Wrapped(j) /\ Started(j) /\ Reported(j) /\ Judged(j)

NothingLeftBehind == ~server_up => server_fds = {}

Inv ==
    /\ TypeOK
    /\ \A j \in Job : JobInv(j)
    /\ NothingLeftBehind
    /\ ServerSurvivesPrograms

-----------------------------------------------------------------------------
(* Facts about pipe ends.                                                  *)

(* EndsOf(i, S) holds the ends of job i named in S and no others. *)
LEMMA EndsOfMember ==
    ASSUME NEW i, NEW S, NEW j, NEW n
    PROVE  <<j, n>> \in EndsOf(i, S) <=> j = i /\ n \in S
BY DEF EndsOf

(* The ends a job opens are ends. *)
LEMMA EndsOfEnds ==
    ASSUME NEW j \in Job, NEW S \in SUBSET EndName
    PROVE  EndsOf(j, S) \subseteq End
BY DEF EndsOf, End

(* The children of a job are children. *)
LEMMA ChildrenOf ==
    ASSUME NEW j \in Job
    PROVE  Gcc(j) \in Child /\ Wrapper(j) \in Child /\ Inner(j) \in Child
BY DEF Gcc, Wrapper, Inner, Child

(* How a program ends is a way a child may end. *)
LEMMA DeathEnds ==
    ASSUME NEW p \in ({"fail"} \cup Program) \ {"wait"}
    PROVE  Death(p) \in {"exit0", "exit1", "SIGSEGV", "SIGKILL"}
BY SandboxAssumption DEF Death, CpuLimitSignal, timeout_seconds

(* A wait takes at most one child, which has ended and which its own       *)
(* worker has not waited for, and gives none back.                         *)
LEMMA WaitTakes ==
    ASSUME TypeOK, NEW c, NEW status, NEW unset, WaitFor(c, status, unset)
    PROVE  /\ reaped \subseteq reaped'
           /\ reaped' \subseteq Child
           /\ \A k \in reaped' \ reaped : proc[k] \in Ended /\ k \in Unwaited
BY DEF WaitFor, Unwaited, TypeOK

-----------------------------------------------------------------------------
(* The types.                                                              *)

(* What the actions of the worker do to the types. *)
LEMMA WorkerTypes ==
    ASSUME TypeOK, NEW j \in Job, StartJob(j) \/ WorkerNext(j)
    PROVE  TypeOK'
<1> USE DEF TypeOK, WorkerPc, WorkerStep
<1>1. \A S \in SUBSET EndName : EndsOf(j, S) \subseteq End
  BY EndsOfEnds
<1>2. Gcc(j) \in Child /\ Wrapper(j) \in Child
  BY ChildrenOf
<1>3. CASE StartJob(j)
  BY <1>1, <1>3 DEF StartJob, childVars, EndName
<1>4. CASE ForkGcc(j)
  <2>1. server_fds \ EndsOf(j, {"err_r"}) \in SUBSET End
    OBVIOUS
  <2>2. fds' \in [Child -> SUBSET End]
    BY <1>2, <1>4, <2>1 DEF ForkGcc
  <2>3. QED BY <1>2, <1>4, <2>2 DEF ForkGcc
<1>5. CASE WaitGcc(j)
  BY <1>5, WaitTakes DEF WaitGcc, childVars
<1>6. CASE ReadErr(j)
  BY <1>6 DEF ReadErr, Finish, childVars
<1>7. CASE OpenMonitor(j)
  BY <1>1, <1>7 DEF OpenMonitor, childVars, EndName
<1>8. CASE ForkWrapper(j)
  <2>1. server_fds \ EndsOf(j, {"sync_w", "pid_r"}) \in SUBSET End
    OBVIOUS
  <2>2. fds' \in [Child -> SUBSET End]
    BY <1>2, <1>8, <2>1 DEF ForkWrapper
  <2>3. QED BY <1>2, <1>8, <2>2 DEF ForkWrapper
<1>9. CASE SkipPid(j)
  BY <1>9 DEF SkipPid, childVars
<1>10. CASE ReadPid(j)
  BY <1>10 DEF ReadPid, childVars
<1>11. CASE SendStart(j)
  BY <1>11 DEF SendStart, childVars
<1>12. CASE SigPipe(j)
  BY <1>12 DEF SigPipe, childVars
<1>13. CASE WaitWrapper(j)
  <2>1. PICK status \in Ended : /\ Finish(j, "wait_wrapper", GradesOf(status))
                                /\ WaitFor(Wrapper(j), status, {"exit0"})
    BY <1>13 DEF WaitWrapper
  <2>2. GradesOf(status) \subseteq {"none", "AC", "WA", "TLE", "RE", "CE"}
    BY DEF GradesOf
  <2>3. reaped' \subseteq Child
    BY <2>1, WaitTakes
  <2>4. QED BY <2>1, <2>2, <2>3 DEF Finish, childVars
<1>14. CASE ForkGccFails(j) \/ ForkWrapperFails(j)
  BY <1>14 DEF ForkGccFails, ForkWrapperFails, childVars
<1>15. QED BY <1>3, <1>4, <1>5, <1>6, <1>7, <1>8, <1>9, <1>10, <1>11, <1>12, <1>13,
              <1>14
           DEF WorkerNext

(* What the actions of the children do to the types. *)
LEMMA ChildTypes ==
    ASSUME TypeOK, NEW j \in Job, Wrapped(j),
           GccEnd(j) \/ WrapperNext(j) \/ InnerNext(j)
    PROVE  TypeOK'
<1> USE DEF TypeOK, workerVars, Ended
<1>1. Gcc(j) \in Child /\ Wrapper(j) \in Child /\ Inner(j) \in Child
  BY ChildrenOf
<1>2. CASE GccEnd(j)
  BY <1>1, <1>2 DEF GccEnd
<1>3. CASE WrapperFails(j)
  BY <1>1, <1>3 DEF WrapperFails
<1>4. CASE ForkInner(j)
  <2>1. fds[Wrapper(j)] \ EndsOf(j, {"pid_w"}) \in SUBSET End
    BY <1>1
  <2>2. QED BY <1>1, <1>4, <2>1 DEF ForkInner
<1>5. CASE ReportPid(j)
  <2>1. fds[Wrapper(j)] \ EndsOf(j, {"sync_r", "pid_w"}) \in SUBSET End
    BY <1>1
  <2>2. QED BY <1>1, <1>5, <2>1 DEF ReportPid
<1>6. CASE ReportPidFails(j)
  BY <1>1, <1>6 DEF ReportPidFails
<1>7. CASE WrapperEnd(j)
  BY <1>1, <1>7 DEF WrapperEnd
<1>8. CASE InnerStart(j)
  <2>1. fds[Inner(j)] \ EndsOf(j, {"sync_r"}) \in SUBSET End
    BY <1>1
  <2>2. QED BY <1>1, <1>8, <2>1 DEF InnerStart
<1>9. CASE InnerEnd(j)
  <2>1. program[j] \in ({"fail"} \cup Program) \ {"wait"}
    BY <1>1, <1>9 DEF InnerEnd, Wrapped, Ended
  <2>2. Death(program[j]) \in Ended
    BY <2>1, DeathEnds
  <2>3. QED BY <1>1, <1>9, <2>2 DEF InnerEnd
<1>10. QED BY <1>2, <1>3, <1>4, <1>5, <1>6, <1>7, <1>8, <1>9
           DEF WrapperNext, InnerNext

-----------------------------------------------------------------------------
(* One job and the others.                                                 *)

(* Nothing JobInv(j) mentions changes, except that a child that has ended  *)
(* may be taken before its worker has its status.                          *)
Frame(j) ==
    /\ server_up' = server_up
    /\ pc[j]' = pc[j] /\ grade[j]' = grade[j]
    /\ monitor[j]' = monitor[j] /\ program[j]' = program[j]
    /\ j \in tracked' <=> j \in tracked
    /\ j \in go' <=> j \in go
    /\ j \in pid_sent' <=> j \in pid_sent
    /\ proc[Gcc(j)]' = proc[Gcc(j)]
    /\ proc[Wrapper(j)]' = proc[Wrapper(j)] /\ fds[Wrapper(j)]' = fds[Wrapper(j)]
    /\ proc[Inner(j)]' = proc[Inner(j)] /\ fds[Inner(j)]' = fds[Inner(j)]
    /\ \A n \in EndName : <<j, n>> \in server_fds' <=> <<j, n>> \in server_fds
    /\ \A c \in {Gcc(j), Wrapper(j)} :
         /\ c \in reaped => c \in reaped'
         /\ c \in reaped' => c \in reaped \/ proc[c] \in Ended

(* A step that changes nothing of the job keeps its invariant. *)
LEMMA FrameKeeps ==
    ASSUME NEW j \in Job, JobInv(j), Frame(j)
    PROVE  JobInv(j)'
<1> USE DEF Frame, JobInv
<1>1. ServerHolds(j)' /\ ChildHolds(j)' /\ Compiled(j)' /\ TakenEnded(j)'
  BY DEF ServerHolds, ChildHolds, Compiled, GccIsOwn, ServerEnds, TakenEnded
<1>2. Wrapped(j)' /\ Started(j)' /\ Reported(j)'
  BY DEF Wrapped, Started, Reported
<1>3. Judged(j)'
  <2>1. Intact(j)' => Intact(j)
    BY DEF Intact, GccMissing, WrapperMissing
  <2>2. QED BY <2>1 DEF Judged, GradesOf
<1>4. QED BY <1>1, <1>2, <1>3

(* The children of two jobs are different. *)
LEMMA ChildrenDiffer ==
    ASSUME NEW i \in Job, NEW j \in Job, i # j
    PROVE  {Gcc(i), Wrapper(i), Inner(i)} \cap {Gcc(j), Wrapper(j), Inner(j)} = {}
BY DEF Gcc, Wrapper, Inner

(* What one job's worker and children do leaves the other jobs alone,      *)
(* unless it ends the server.                                              *)
LEMMA OthersFrame ==
    ASSUME TypeOK, NEW i \in Job, NEW j \in Job, i # j,
           \/ StartJob(i) \/ (WorkerNext(i) /\ ~SigPipe(i))
           \/ GccEnd(i) \/ WrapperNext(i) \/ InnerNext(i)
    PROVE  Frame(j)
<1> USE DEF Frame, TypeOK
<1>1. \A S, n : <<j, n>> \notin EndsOf(i, S)
  BY EndsOfMember
<1>2. /\ Gcc(j) \in Child /\ Wrapper(j) \in Child /\ Inner(j) \in Child
      /\ {Gcc(i), Wrapper(i), Inner(i)} \cap {Gcc(j), Wrapper(j), Inner(j)} = {}
  BY ChildrenOf, ChildrenDiffer
<1>3. CASE StartJob(i)
  BY <1>1, <1>3 DEF StartJob, WorkerStep, childVars
<1>4. CASE ForkGcc(i)
  BY <1>1, <1>2, <1>4 DEF ForkGcc, WorkerStep
<1>5. CASE WaitGcc(i)
  BY <1>5, WaitTakes DEF WaitGcc, WorkerStep, childVars
<1>6. CASE ReadErr(i)
  BY <1>1, <1>6 DEF ReadErr, Finish, WorkerStep, childVars
<1>7. CASE OpenMonitor(i)
  BY <1>1, <1>7 DEF OpenMonitor, WorkerStep, childVars
<1>8. CASE ForkWrapper(i)
  BY <1>1, <1>2, <1>8 DEF ForkWrapper, WorkerStep
<1>9. CASE SkipPid(i)
  BY <1>1, <1>9 DEF SkipPid, WorkerStep, childVars
<1>10. CASE ReadPid(i)
  BY <1>1, <1>10 DEF ReadPid, WorkerStep, childVars
<1>11. CASE SendStart(i)
  BY <1>1, <1>11 DEF SendStart, WorkerStep, childVars
<1>12. CASE WaitWrapper(i)
  BY <1>1, <1>12, WaitTakes DEF WaitWrapper, Finish, WorkerStep, childVars
<1>13. CASE GccEnd(i)
  BY <1>2, <1>13 DEF GccEnd, workerVars
<1>14. CASE WrapperNext(i)
  BY <1>2, <1>14 DEF WrapperNext, WrapperFails, ForkInner, ReportPid,
                     ReportPidFails, WrapperEnd, workerVars
<1>15. CASE InnerNext(i)
  BY <1>2, <1>15 DEF InnerNext, InnerStart, InnerEnd, workerVars
<1>16. CASE ForkGccFails(i) \/ ForkWrapperFails(i)
  BY <1>1, <1>16 DEF ForkGccFails, ForkWrapperFails, WorkerStep, childVars
<1>17. QED BY <1>3, <1>4, <1>5, <1>6, <1>7, <1>8, <1>9, <1>10, <1>11, <1>12,
              <1>13, <1>14, <1>15, <1>16 DEF WorkerNext

-----------------------------------------------------------------------------
(* The steps of a job itself.                                              *)

(* The children of one job are three. *)
LEMMA ChildrenApart ==
    ASSUME NEW j \in Job
    PROVE  Gcc(j) # Wrapper(j) /\ Gcc(j) # Inner(j) /\ Wrapper(j) # Inner(j)
BY DEF Gcc, Wrapper, Inner

(* When the worker gives up waiting for the pid, the wrapper has written   *)
(* it or has ended before it forked the program.                           *)
LEMMA PidReadOrGone ==
    ASSUME TypeOK, NEW j \in Job, JobInv(j), ReadPid(j)
    PROVE  /\ proc[Wrapper(j)] \notin {"forked", "run"}
           /\ j \in pid_sent \/ proc[Inner(j)] = "none"
<1>1. pc[j] = "read_pid" /\ server_up /\ monitor[j] # "none"
  BY DEF ReadPid, WorkerStep
<1>2. j \in pid_sent \/ proc[Wrapper(j)] \notin {"forked", "run"}
  BY ChildrenOf DEF ReadPid, Held, JobInv, ChildHolds
<1>3. proc[Wrapper(j)] \in {"none", "forked", "run", "wait"} \cup Ended
  BY ChildrenOf DEF TypeOK
<1>4. QED BY <1>1, <1>2, <1>3 DEF JobInv, Wrapped, Ended

(* The actions of the worker keep the invariant of their job. *)
LEMMA WorkerKeeps ==
    ASSUME TypeOK, NEW j \in Job, JobInv(j),
           StartJob(j) \/ (WorkerNext(j) /\ ~SigPipe(j))
    PROVE  JobInv(j)'
<1> USE DEF TypeOK, WorkerStep, JobInv, GccIsOwn, TakenEnded,
            Intact, GccMissing, WrapperMissing
<1>1. \A S, n : <<j, n>> \in EndsOf(j, S) <=> n \in S
  BY EndsOfMember
<1>2. /\ Gcc(j) \in Child /\ Wrapper(j) \in Child /\ Inner(j) \in Child
      /\ Gcc(j) # Wrapper(j) /\ Gcc(j) # Inner(j) /\ Wrapper(j) # Inner(j)
  BY ChildrenOf, ChildrenApart
<1>3. CASE StartJob(j)
  <2> USE <1>3 DEF StartJob, childVars
  <2>1. ServerHolds(j)' /\ ChildHolds(j)' /\ Compiled(j)' /\ TakenEnded(j)'
    BY <1>1 DEF ServerHolds, ServerEnds, EndName, ChildHolds, Compiled
  <2>2. Wrapped(j)' /\ Started(j)' /\ Reported(j)' /\ Judged(j)'
    BY DEF Wrapped, Started, Reported, Judged
  <2>3. QED BY <2>1, <2>2
<1>4. CASE ForkGcc(j)
  <2> USE <1>2, <1>4 DEF ForkGcc
  <2>1. ServerHolds(j)' /\ ChildHolds(j)' /\ Compiled(j)' /\ TakenEnded(j)'
    BY <1>1 DEF ServerHolds, ServerEnds, EndName, ChildHolds, Compiled,
                Ended
  <2>2. Wrapped(j)' /\ Started(j)' /\ Reported(j)' /\ Judged(j)'
    BY DEF Wrapped, Started, Reported, Judged
  <2>3. QED BY <2>1, <2>2
<1>5. CASE WaitGcc(j)
  <2>1. PICK status \in Ended :
           /\ WorkerStep(j, "wait_gcc",
                         IF status = "exit0" THEN "open_monitor" ELSE "read_err")
           /\ WaitFor(Gcc(j), status, {"exit0", "exit1"})
    BY <1>5 DEF WaitGcc
  <2>2. /\ server_up' = server_up /\ server_fds' = server_fds
        /\ UNCHANGED <<grade, monitor, tracked, go, fds, proc, program, pid_sent>>
    BY <1>5 DEF WaitGcc, childVars
  <2>3. ServerHolds(j)' /\ ChildHolds(j)'
    BY <2>1, <2>2 DEF ServerHolds, ServerEnds, ChildHolds
  <2>4. TakenEnded(j)'
    BY <2>1, <2>2, WaitTakes
  <2>5. GccIsOwn(j)' => proc[Gcc(j)] = status
    BY <2>1, <2>2 DEF WaitFor
  <2>6. Compiled(j)'
    BY <2>1, <2>2, <2>5 DEF Compiled, Ended
  <2>7. Wrapped(j)' /\ Started(j)' /\ Reported(j)' /\ Judged(j)'
    BY <2>1, <2>2 DEF Wrapped, Started, Reported, Judged, Ended
  <2>8. QED BY <2>3, <2>4, <2>6, <2>7
<1>6. CASE ReadErr(j)
  <2> USE <1>6 DEF ReadErr, Finish, childVars
  <2>1. ServerHolds(j)' /\ ChildHolds(j)' /\ Compiled(j)' /\ TakenEnded(j)'
    BY <1>1 DEF ServerHolds, ServerEnds, EndName, ChildHolds, Compiled
  <2>2. Wrapped(j)' /\ Started(j)' /\ Reported(j)' /\ Judged(j)'
    BY DEF Wrapped, Started, Reported, Judged, Compiled
  <2>3. QED BY <2>1, <2>2
<1>7. CASE OpenMonitor(j)
  <2> USE <1>7, SandboxAssumption DEF OpenMonitor, childVars
  <2>1. ServerHolds(j)' /\ ChildHolds(j)' /\ Compiled(j)' /\ TakenEnded(j)'
    BY <1>1 DEF ServerHolds, ServerEnds, EndName, ChildHolds, Compiled
  <2>2. Wrapped(j)' /\ Started(j)' /\ Reported(j)' /\ Judged(j)'
    BY DEF Wrapped, Started, Reported, Judged, Compiled, Ended
  <2>3. QED BY <2>1, <2>2
<1>8. CASE ForkWrapper(j)
  <2> USE <1>2, <1>8 DEF ForkWrapper
  <2>1. ServerHolds(j)' /\ Compiled(j)' /\ TakenEnded(j)'
    BY <1>1 DEF ServerHolds, ServerEnds, EndName, Compiled, Ended
  <2>2. ChildHolds(j)'
    BY <1>1 DEF ServerHolds, ServerEnds, EndName, ChildHolds, Compiled, Wrapped
  <2>3. Wrapped(j)' /\ Started(j)' /\ Reported(j)' /\ Judged(j)'
    BY DEF Wrapped, Started, Reported, Judged, Compiled, Ended
  <2>4. QED BY <2>1, <2>2, <2>3
<1>9. CASE SkipPid(j)
  <2> USE <1>9 DEF SkipPid, childVars
  <2>1. ServerHolds(j)' /\ ChildHolds(j)' /\ Compiled(j)' /\ TakenEnded(j)'
    BY <1>1 DEF ServerHolds, ServerEnds, EndName, ChildHolds, Compiled
  <2>2. Wrapped(j)' /\ Started(j)' /\ Reported(j)' /\ Judged(j)'
    BY DEF Wrapped, Started, Reported, Judged
  <2>3. QED BY <2>1, <2>2
<1>10. CASE ReadPid(j)
  <2> USE <1>10 DEF ReadPid, childVars
  <2>1. ServerHolds(j)' /\ ChildHolds(j)' /\ Compiled(j)' /\ TakenEnded(j)'
    BY <1>1 DEF ServerHolds, ServerEnds, EndName, ChildHolds, Compiled
  <2>2. Reported(j)'
    BY PidReadOrGone DEF Reported
  <2>3. Wrapped(j)' /\ Started(j)' /\ Judged(j)'
    BY DEF Wrapped, Started, Judged
  <2>4. QED BY <2>1, <2>2, <2>3
<1>11. CASE SendStart(j)
  <2> USE <1>11 DEF SendStart, childVars
  <2>1. ServerHolds(j)' /\ ChildHolds(j)' /\ Compiled(j)' /\ TakenEnded(j)'
    BY <1>1 DEF ServerHolds, ServerEnds, EndName, ChildHolds, Compiled
  <2>2. Wrapped(j)' /\ Started(j)' /\ Reported(j)' /\ Judged(j)'
    BY DEF Wrapped, Started, Reported, Judged
  <2>3. QED BY <2>1, <2>2
<1>12. CASE WaitWrapper(j)
  <2>1. PICK status \in Ended : /\ Finish(j, "wait_wrapper", GradesOf(status))
                                /\ WaitFor(Wrapper(j), status, {"exit0"})
    BY <1>12 DEF WaitWrapper
  <2>2. /\ pc[j] = "wait_wrapper" /\ pc[j]' = "done" /\ server_up /\ server_up'
        /\ server_fds' = server_fds \ EndsOf(j, {"err_r"})
        /\ UNCHANGED <<monitor, tracked, go, fds, proc, program, pid_sent>>
        /\ grade[j]' \in GradesOf(status)
    BY <2>1 DEF Finish, childVars
  <2>3. GradesOf(status) \subseteq {"AC", "WA", "TLE", "RE"}
    BY DEF GradesOf
  <2>4. ServerHolds(j)' /\ ChildHolds(j)' /\ Compiled(j)'
    BY <1>1, <2>2, <2>3
       DEF ServerHolds, ServerEnds, EndName, ChildHolds, Compiled
  <2>5. TakenEnded(j)'
    BY <2>1, <2>2, WaitTakes
  <2>6. Wrapped(j)' /\ Started(j)' /\ Reported(j)'
    BY <2>2 DEF Wrapped, Started, Reported
  <2>7. Judged(j)'
    <3> SUFFICES ASSUME Intact(j)'
                 PROVE  /\ proc[Gcc(j)] = "exit0"
                        /\ proc[Wrapper(j)] \in Ended
                        /\ monitor[j] # "none" =>
                             /\ proc[Inner(j)] \in {"none"} \cup Ended
                             /\ proc[Wrapper(j)] = "exit0" <=> proc[Inner(j)] = "exit0"
                        /\ grade[j]' \in GradesOf(proc[Wrapper(j)])
      BY <2>2 DEF Judged, Ended, GradesOf
    <3>1. monitor[j] # "closed"
      BY <2>2 DEF Compiled
    <3>2. /\ proc[Gcc(j)] # "none" /\ proc[Wrapper(j)] # "none"
          /\ Gcc(j) \notin reaped /\ Wrapper(j) \notin reaped
      BY <2>1, <2>2, <3>1, WaitTakes
    <3>3. proc[Gcc(j)] = "exit0"
      BY <2>2, <3>2 DEF Compiled
    <3>4. proc[Wrapper(j)] \in Ended /\ status = proc[Wrapper(j)]
      BY <2>1, <3>2 DEF WaitFor
    <3>5. monitor[j] # "none" =>
             /\ proc[Inner(j)] \in {"none"} \cup Ended
             /\ proc[Wrapper(j)] = "exit0" <=> proc[Inner(j)] = "exit0"
      BY <2>2, <3>4 DEF Wrapped, Ended
    <3>6. QED BY <2>2, <3>3, <3>4, <3>5
  <2>8. QED BY <2>4, <2>5, <2>6, <2>7
<1>13. CASE ForkGccFails(j)
  <2> USE <1>13 DEF ForkGccFails, childVars
  <2>1. ServerHolds(j)' /\ ChildHolds(j)' /\ Compiled(j)' /\ TakenEnded(j)'
    BY <1>1 DEF ServerHolds, ServerEnds, EndName, ChildHolds, Compiled
  <2>2. Wrapped(j)' /\ Started(j)' /\ Reported(j)' /\ Judged(j)'
    BY DEF Wrapped, Started, Reported, Judged
  <2>3. QED BY <2>1, <2>2
<1>14. CASE ForkWrapperFails(j)
  <2> USE <1>14 DEF ForkWrapperFails, childVars
  <2>1. ServerHolds(j)' /\ ChildHolds(j)' /\ Compiled(j)' /\ TakenEnded(j)'
    BY <1>1 DEF ServerHolds, ServerEnds, EndName, ChildHolds, Compiled
  <2>2. Wrapped(j)' /\ Started(j)' /\ Reported(j)' /\ Judged(j)'
    BY DEF Wrapped, Started, Reported, Judged
  <2>3. QED BY <2>1, <2>2
<1>15. QED BY <1>3, <1>4, <1>5, <1>6, <1>7, <1>8, <1>9, <1>10, <1>11, <1>12, <1>13,
              <1>14
           DEF WorkerNext

(* The program does not leave its read of run_sync_pipe by an end of file  *)
(* while the server lives.                                                 *)
LEMMA StartIsSignalled ==
    ASSUME TypeOK, NEW j \in Job, JobInv(j), InnerStart(j), server_up
    PROVE  j \in go
<1>1. proc[Inner(j)] = "forked" /\ (j \in go \/ <<j, "sync_w">> \notin server_fds)
  BY DEF InnerStart, Held
<1>2. proc[Wrapper(j)] # "none"
  BY <1>1 DEF JobInv, Wrapped
<1>3. pc[j] \in {"read_pid", "start", "wait_wrapper", "done"}
  BY <1>2 DEF JobInv, Compiled, TypeOK, WorkerPc
<1>4. CASE pc[j] \in {"read_pid", "start"}
  BY <1>1, <1>4 DEF JobInv, ServerHolds, ServerEnds, EndName
<1>5. CASE pc[j] \in {"wait_wrapper", "done"}
  BY <1>2, <1>5 DEF JobInv, Started
<1>6. QED BY <1>3, <1>4, <1>5

(* The pid finds its reader while the server lives, if it is read at all. *)
LEMMA PidHasReader ==
    ASSUME TypeOK, NEW j \in Job, JobInv(j), ReportPidFails(j)
    PROVE  monitor[j] = "none" \/ ~server_up
<1>1. proc[Wrapper(j)] = "run" /\ <<j, "pid_r">> \notin server_fds
  BY DEF ReportPidFails, Held
<1>2. pc[j] \in {"read_pid", "start", "wait_wrapper", "done"}
  BY <1>1 DEF JobInv, Compiled, TypeOK, WorkerPc
<1>3. ASSUME server_up, monitor[j] # "none" PROVE FALSE
  <2>1. pc[j] = "read_pid"
    BY <1>1, <1>2, <1>3 DEF JobInv, Reported
  <2>2. QED BY <1>1, <1>3, <2>1 DEF JobInv, ServerHolds, ServerEnds, EndName
<1>4. QED BY <1>3

(* The actions of the children keep the invariant of their job. *)
LEMMA ChildrenKeep ==
    ASSUME TypeOK, NEW j \in Job, JobInv(j),
           GccEnd(j) \/ WrapperNext(j) \/ InnerNext(j)
    PROVE  JobInv(j)'
<1> USE DEF TypeOK, JobInv, workerVars, GccIsOwn, TakenEnded,
            Intact, GccMissing, WrapperMissing
<1>1. \A S, n : <<j, n>> \in EndsOf(j, S) <=> n \in S
  BY EndsOfMember
<1>2. /\ Gcc(j) \in Child /\ Wrapper(j) \in Child /\ Inner(j) \in Child
      /\ Gcc(j) # Wrapper(j) /\ Gcc(j) # Inner(j) /\ Wrapper(j) # Inner(j)
  BY ChildrenOf, ChildrenApart
<1>3. GradesOf(proc[Wrapper(j)])' = GradesOf(proc[Wrapper(j)]')
  BY DEF GradesOf
<1>4. ServerHolds(j)'
  BY DEF ServerHolds, ServerEnds, GccEnd, WrapperNext, WrapperFails, ForkInner,
         ReportPid, ReportPidFails, WrapperEnd, InnerNext, InnerStart, InnerEnd
<1>5. CASE GccEnd(j)
  <2> USE <1>2, <1>5 DEF GccEnd
  <2>1. ChildHolds(j)' /\ Compiled(j)' /\ TakenEnded(j)'
    BY DEF ChildHolds, Compiled, Ended
  <2>2. Wrapped(j)' /\ Started(j)' /\ Reported(j)' /\ Judged(j)'
    BY <1>3 DEF Wrapped, Started, Reported, Judged, Ended
  <2>3. QED BY <1>4, <2>1, <2>2
<1>6. CASE WrapperFails(j)
  <2> USE <1>2, <1>6 DEF WrapperFails
  <2>1. ChildHolds(j)' /\ Compiled(j)' /\ TakenEnded(j)'
    BY DEF ChildHolds, Compiled, Ended
  <2>2. Wrapped(j)' /\ Started(j)' /\ Reported(j)' /\ Judged(j)'
    BY <1>3 DEF Wrapped, Started, Reported, Judged, Ended
  <2>3. QED BY <1>4, <2>1, <2>2
<1>7. CASE ForkInner(j)
  <2> USE <1>2, <1>7 DEF ForkInner
  <2>1. ChildHolds(j)' /\ Compiled(j)' /\ TakenEnded(j)'
    BY <1>1 DEF ChildHolds, Compiled, Ended
  <2>2. Wrapped(j)' /\ Started(j)' /\ Reported(j)' /\ Judged(j)'
    BY <1>3 DEF Wrapped, Started, Reported, Judged, Ended
  <2>3. QED BY <1>4, <2>1, <2>2
<1>8. CASE ReportPid(j)
  <2> USE <1>2, <1>8 DEF ReportPid
  <2>1. ChildHolds(j)' /\ Compiled(j)' /\ TakenEnded(j)'
    BY DEF ChildHolds, Compiled, Ended
  <2>2. Wrapped(j)' /\ Started(j)' /\ Reported(j)' /\ Judged(j)'
    BY <1>3 DEF Wrapped, Started, Reported, Judged, Ended
  <2>3. QED BY <1>4, <2>1, <2>2
<1>9. CASE ReportPidFails(j)
  <2> USE <1>2, <1>9 DEF ReportPidFails
  <2>1. ChildHolds(j)' /\ Compiled(j)' /\ TakenEnded(j)'
    BY DEF ChildHolds, Compiled, Ended
  <2>2. Wrapped(j)'
    BY PidHasReader DEF Wrapped, Ended
  <2>3. Started(j)' /\ Reported(j)' /\ Judged(j)'
    BY <1>3 DEF Started, Reported, Judged, Ended
  <2>4. QED BY <1>4, <2>1, <2>2, <2>3
<1>10. CASE InnerStart(j)
  <2> USE <1>2, <1>10 DEF InnerStart
  <2>1. ChildHolds(j)' /\ Compiled(j)' /\ TakenEnded(j)'
    BY DEF ChildHolds, Compiled, Ended
  <2>2. Wrapped(j)'
    BY SandboxAssumption DEF Wrapped, Ended
  <2>3. Started(j)'
    BY StartIsSignalled DEF Started
  <2>4. Reported(j)' /\ Judged(j)'
    BY <1>3 DEF Reported, Judged, Wrapped, Ended
  <2>5. QED BY <1>4, <2>1, <2>2, <2>3, <2>4
<1>11. CASE InnerEnd(j)
  <2> USE <1>2, <1>11 DEF InnerEnd
  <2>1. proc[Inner(j)]' \in {"exit0", "exit1", "SIGSEGV", "SIGKILL"}
    BY DeathEnds DEF Wrapped
  <2>2. ChildHolds(j)' /\ Compiled(j)' /\ TakenEnded(j)'
    BY <2>1 DEF ChildHolds, Compiled, Ended
  <2>3. Wrapped(j)' /\ Started(j)' /\ Reported(j)' /\ Judged(j)'
    BY <1>3, <2>1 DEF Wrapped, Started, Reported, Judged, Ended
  <2>4. QED BY <1>4, <2>2, <2>3
<1>12. CASE WrapperEnd(j)
  <2> USE <1>2, <1>12 DEF WrapperEnd
  <2>1. ChildHolds(j)' /\ Compiled(j)' /\ TakenEnded(j)'
    BY DEF ChildHolds, Compiled, Ended
  <2>2. Wrapped(j)' /\ Started(j)' /\ Reported(j)' /\ Judged(j)'
    BY <1>3 DEF Wrapped, Started, Reported, Judged, Ended
  <2>3. QED BY <1>4, <2>1, <2>2
<1>13. QED BY <1>5, <1>6, <1>7, <1>8, <1>9, <1>10, <1>11, <1>12
           DEF WrapperNext, InnerNext

(* When the start signal finds no reader, the wrapper was never made or    *)
(* has ended before it forked the program.                                 *)
LEMMA NoReaderNoProgram ==
    ASSUME TypeOK, NEW j \in Job, JobInv(j), SigPipe(j)
    PROVE  \/ WrapperMissing(j)
           \/ proc[Wrapper(j)] = "exit1" /\ proc[Inner(j)] = "none"
<1>1. server_up /\ pc[j] = "start"
  BY DEF SigPipe
<1>2. proc[Wrapper(j)] \notin {"forked", "run"} /\ proc[Inner(j)] # "forked"
  BY ChildrenOf DEF SigPipe, Held, JobInv, ChildHolds
<1>3. proc[Inner(j)] \notin {"run"} \cup Ended
  BY <1>1 DEF JobInv, Started
<1>4. proc[Inner(j)] = "none"
  BY <1>2, <1>3, ChildrenOf DEF TypeOK, JobInv, Wrapped
<1>5. CASE proc[Wrapper(j)] = "none"
  BY <1>1, <1>5 DEF JobInv, Compiled, WrapperMissing
<1>6. CASE proc[Wrapper(j)] # "none"
  <2>1. proc[Wrapper(j)] \in Ended
    BY <1>2, <1>4, <1>6, ChildrenOf DEF TypeOK, JobInv, Wrapped
  <2>2. QED BY <1>4, <2>1 DEF JobInv, Wrapped, Ended
<1>7. QED BY <1>5, <1>6

(* The death of the server keeps the invariant of every job. *)
LEMMA DeathKeeps ==
    ASSUME NEW i \in Job, NEW j \in Job, JobInv(j), SigPipe(i)
    PROVE  JobInv(j)'
<1> USE DEF JobInv, SigPipe, childVars, GccIsOwn, TakenEnded,
            Intact, GccMissing, WrapperMissing
<1>1. ServerHolds(j)' /\ ChildHolds(j)' /\ Compiled(j)' /\ TakenEnded(j)'
  BY DEF ServerHolds, ChildHolds, Compiled
<1>2. Wrapped(j)' /\ Started(j)' /\ Reported(j)'
  BY DEF Wrapped, Started, Reported
<1>3. Judged(j)'
  BY DEF Judged, GradesOf
<1>4. QED BY <1>1, <1>2, <1>3

-----------------------------------------------------------------------------
(* The invariant.                                                          *)

(* No job has begun. *)
LEMMA InvInit == Init => Inv
<1> SUFFICES ASSUME Init PROVE Inv
  OBVIOUS
<1>1. TypeOK
  BY DEF Init, TypeOK, WorkerPc
<1>2. ASSUME NEW j \in Job PROVE JobInv(j)
  <2>1. /\ proc[Gcc(j)] = "none" /\ proc[Wrapper(j)] = "none"
        /\ proc[Inner(j)] = "none"
    BY ChildrenOf DEF Init
  <2>2. ServerHolds(j) /\ ChildHolds(j) /\ Compiled(j) /\ TakenEnded(j)
    BY <2>1 DEF Init, ServerHolds, ServerEnds, ChildHolds, Compiled, GccIsOwn,
                TakenEnded
  <2>3. Wrapped(j) /\ Started(j) /\ Reported(j) /\ Judged(j)
    BY <2>1 DEF Init, Wrapped, Started, Reported, Judged, Ended
  <2>4. QED BY <2>2, <2>3 DEF JobInv
<1>3. NothingLeftBehind /\ ServerSurvivesPrograms
  BY DEF Init, NothingLeftBehind, ServerSurvivesPrograms
<1>4. QED BY <1>1, <1>2, <1>3 DEF Inv

(* Every step keeps the invariant. *)
LEMMA InvNext == Inv /\ [Next]_vars => Inv'
<1> SUFFICES ASSUME Inv, [Next]_vars PROVE Inv'
  OBVIOUS
<1> USE DEF Inv
<1>1. CASE UNCHANGED vars
  <2> USE <1>1 DEF vars, workerVars, childVars
  <2>1. TypeOK'
    BY DEF TypeOK
  <2>2. ASSUME NEW j \in Job PROVE JobInv(j)'
    BY FrameKeeps DEF Frame
  <2>3. NothingLeftBehind' /\ ServerSurvivesPrograms'
    BY DEF NothingLeftBehind, ServerSurvivesPrograms, WrapperMissing
  <2>4. QED BY <2>1, <2>2, <2>3
<1>2. ASSUME NEW i \in Job, SigPipe(i) PROVE Inv'
  <2>1. TypeOK'
    BY <1>2, WorkerTypes DEF WorkerNext
  <2>2. \A j \in Job : JobInv(j)'
    BY <1>2, DeathKeeps
  <2>3. \/ WrapperMissing(i)
        \/ proc[Wrapper(i)] = "exit1" /\ proc[Inner(i)] = "none"
    BY <1>2, NoReaderNoProgram
  <2>4. NothingLeftBehind' /\ ServerSurvivesPrograms'
    BY <1>2, <2>3 DEF SigPipe, childVars, NothingLeftBehind, ServerSurvivesPrograms,
                      WrapperMissing
  <2>5. QED BY <2>1, <2>2, <2>4
<1>3. ASSUME NEW i \in Job,
             \/ StartJob(i) \/ (WorkerNext(i) /\ ~SigPipe(i))
             \/ GccEnd(i) \/ WrapperNext(i) \/ InnerNext(i)
      PROVE  Inv'
  <2>1. TypeOK'
    BY <1>3, WorkerTypes, ChildTypes DEF JobInv
  <2>2. ASSUME NEW j \in Job PROVE JobInv(j)'
    BY <1>3, OthersFrame, FrameKeeps, WorkerKeeps, ChildrenKeep
  <2>3. server_up' = server_up
    BY <1>3 DEF StartJob, WorkerNext, ForkGcc, ForkGccFails, WaitGcc, ReadErr,
                OpenMonitor, ForkWrapper, ForkWrapperFails, SkipPid, ReadPid, SendStart, WaitWrapper, Finish,
                GccEnd, WrapperNext, WrapperFails, ForkInner, ReportPid,
                ReportPidFails, WrapperEnd, InnerNext, InnerStart, InnerEnd,
                workerVars
  <2>4. CASE server_up
    <3>1. server_up'
      BY <2>3, <2>4
    <3>2. QED BY <2>1, <2>2, <3>1 DEF NothingLeftBehind, ServerSurvivesPrograms
  <2>5. CASE ~server_up
    <3>1. /\ GccEnd(i) \/ WrapperNext(i) \/ InnerNext(i)
          /\ server_fds' = server_fds
      BY <1>3, <2>5 DEF StartJob, WorkerNext, ForkGcc, ForkGccFails, WaitGcc,
            ReadErr, OpenMonitor, ForkWrapper, ForkWrapperFails, SkipPid, ReadPid, SendStart, WaitWrapper,
            Finish, WorkerStep, GccEnd, WrapperNext, WrapperFails, ForkInner,
            ReportPid, ReportPidFails, WrapperEnd, InnerNext, InnerStart,
            InnerEnd, workerVars
    <3>2. PICK k \in Job : \/ WrapperMissing(k)
                           \/ proc[Wrapper(k)] = "exit1" /\ proc[Inner(k)] = "none"
      BY <2>5 DEF ServerSurvivesPrograms
    <3>3. \/ WrapperMissing(k)'
          \/ proc[Wrapper(k)]' = "exit1" /\ proc[Inner(k)]' = "none"
      <4>1. CASE i # k
        BY <1>3, <3>1, <3>2, <4>1, OthersFrame DEF Frame, WrapperMissing
      <4>2. CASE i = k
        BY <3>1, <3>2, <4>2, ChildrenOf, ChildrenApart
           DEF TypeOK, WrapperMissing, workerVars, GccEnd, WrapperNext,
               WrapperFails, ForkInner, ReportPid,
               ReportPidFails, WrapperEnd, InnerNext, InnerStart, InnerEnd
      <4>3. QED BY <4>1, <4>2
    <3>4. NothingLeftBehind'
      BY <2>5, <3>1 DEF NothingLeftBehind
    <3>5. ServerSurvivesPrograms'
      BY <3>3 DEF ServerSurvivesPrograms
    <3>6. QED BY <2>1, <2>2, <3>4, <3>5
  <2>6. QED BY <2>4, <2>5
<1>4. QED BY <1>1, <1>2, <1>3 DEF Next

(* The inductive invariant always holds of the workers, children and pipes *)
(* of handle_client.                                                       *)
THEOREM SandboxInvAlways == Spec => []Inv
BY InvInit, InvNext, PTL DEF Spec

-----------------------------------------------------------------------------
(* What it gives.                                                          *)

(* The variables of handle_client's model keep their types. *)
THEOREM SandboxTypeCorrect == Spec => []TypeOK
<1>1. Inv => TypeOK
  BY DEF Inv
<1>2. QED BY <1>1, SandboxInvAlways, PTL

(* No submitted program runs before handle_client has entered its pid into *)
(* tracked_pids, if the monitor is loaded and the server lives: the signal *)
(* comes after the read of the pid, and no end of file replaces it.        *)
THEOREM RegisteredBeforeStartAlways == Spec => []RegisteredBeforeStart
<1>1. Inv => RegisteredBeforeStart
  <2> SUFFICES ASSUME Inv, NEW j \in Job, server_up, monitor[j] = "loaded",
                      program[j] # "unknown"
               PROVE  j \in tracked
    BY DEF RegisteredBeforeStart
  <2>1. JobInv(j)
    BY DEF Inv
  <2>2. proc[Inner(j)] \in {"run"} \cup Ended
    BY <2>1, ChildrenOf DEF Inv, TypeOK, JobInv, Wrapped
  <2>3. pc[j] \in {"wait_wrapper", "done"}
    BY <2>1, <2>2 DEF JobInv, Started
  <2>4. QED BY <2>1, <2>2, <2>3 DEF JobInv, Reported, Ended
<1>2. QED BY <1>1, SandboxInvAlways, PTL

(* handle_client has closed every pipe end it opened when it returns. *)
THEOREM DescriptorsOfJobsInHandAlways == Spec => []DescriptorsOfJobsInHand
<1>1. Inv => DescriptorsOfJobsInHand
  <2> SUFFICES ASSUME Inv, NEW e \in server_fds PROVE e[1] \in Active
    BY DEF DescriptorsOfJobsInHand
  <2>1. PICK j \in Job, n \in EndName : e = <<j, n>>
    BY DEF Inv, TypeOK, End
  <2>2. server_up
    BY DEF Inv, NothingLeftBehind
  <2>3. n \in ServerEnds(pc[j])
    BY <2>1, <2>2 DEF Inv, JobInv, ServerHolds
  <2>4. QED BY <2>1, <2>3 DEF ServerEnds, Active
<1>2. QED BY <1>1, SandboxInvAlways, PTL

(* A grade handle_client has decided with the monitor in place is the      *)
(* grade of what gcc and the program did, and neither is still running.    *)
THEOREM GradeIsDeservedAlways == Spec => []GradeIsDeserved
<1>1. Inv => GradeIsDeserved
  <2> SUFFICES ASSUME Inv, NEW j \in Job, pc[j] = "done", monitor[j] # "none",
                      Intact(j)
               PROVE  /\ \A k \in {"gcc", "wrapper", "inner"} :
                           proc[<<j, k>>] \in {"none"} \cup Ended
                      /\ grade[j] = "CE" <=> proc[Gcc(j)] # "exit0"
                      /\ grade[j] \in {"AC", "WA"} <=> proc[Inner(j)] = "exit0"
    BY DEF GradeIsDeserved
  <2>1. Judged(j) /\ Wrapped(j)
    BY DEF Inv, JobInv
  <2>2. CASE proc[Wrapper(j)] = "none"
    BY <2>1, <2>2 DEF Judged, Wrapped, Gcc, Wrapper, Inner
  <2>3. CASE proc[Wrapper(j)] # "none"
    <3>1. /\ proc[Gcc(j)] \in Ended /\ proc[Wrapper(j)] \in Ended
          /\ proc[Inner(j)] \in {"none"} \cup Ended
      BY <2>1, <2>3 DEF Judged
    <3>2. /\ grade[j] # "CE"
          /\ grade[j] \in {"AC", "WA"} <=> proc[Wrapper(j)] = "exit0"
      BY <2>1, <2>3 DEF Judged, GradesOf
    <3>3. QED BY <2>1, <2>3, <3>1, <3>2 DEF Judged, Gcc, Wrapper, Inner
  <2>4. QED BY <2>2, <2>3
<1>2. QED BY <1>1, SandboxInvAlways, PTL

(* No program a student submits makes the worker's write of the start      *)
(* signal end the server.                                                  *)
THEOREM ServerSurvivesProgramsAlways == Spec => []ServerSurvivesPrograms
<1>1. Inv => ServerSurvivesPrograms
  BY DEF Inv
<1>2. QED BY <1>1, SandboxInvAlways, PTL

-----------------------------------------------------------------------------
(* Who waits for whom.                                                     *)

(* A wait for child c would return. *)
StatusReady(c) ==
    \/ proc[c] \in Ended
    \/ proc[c] = "none" /\ (Unwaited = {} \/ \E k \in Unwaited : proc[k] \in Ended)

(* The worker, gcc, the wrapper and the program of job j are not blocked:  *)
(* what their next system call waits for is there.                         *)
WorkerReady(j) ==
    /\ server_up
    /\ \/ pc[j] \in {"fork_gcc", "open_monitor", "fork_wrapper", "start"}
       \/ pc[j] = "wait_gcc" /\ StatusReady(Gcc(j))
       \/ pc[j] = "read_err" /\ (output[j] # "none" \/ ~Held(<<j, "err_w">>))
       \/ /\ pc[j] = "read_pid"
          /\ monitor[j] = "none" \/ j \in pid_sent \/ ~Held(<<j, "pid_w">>)
       \/ pc[j] = "wait_wrapper" /\ StatusReady(Wrapper(j))

GccReady(j) ==
    proc[Gcc(j)] = "run" /\ (output[j] # "big" \/ ~Held(<<j, "err_r">>))

WrapperReady(j) ==
    \/ proc[Wrapper(j)] \in {"forked", "run"}
    \/ proc[Wrapper(j)] = "wait" /\ proc[Inner(j)] \in Ended

InnerReady(j) ==
    \/ proc[Inner(j)] = "forked" /\ (j \in go \/ ~Held(<<j, "sync_w">>))
    \/ proc[Inner(j)] = "run" /\ program[j] # "wait"

FamilyReady(j) ==
    WorkerReady(j) \/ GccReady(j) \/ WrapperReady(j) \/ InnerReady(j)

(* Of a job in hand somebody can go on, unless it hangs by itself.  The    *)
(* exception are the jobs handle_client loses sight of, which a failed     *)
(* fork or a child that ended without a word leaves behind: they wait for  *)
(* another job, and only for one that itself goes on or hangs.             *)
WaitsAreJustified ==
    server_up => \A j \in Active :
        \/ FamilyReady(j)
        \/ Hangs(j)
        \/ Silent(j) /\ \E k \in Job \ {j} : FamilyReady(k) \/ Hangs(k)

(* What has ended, and what was never forked, holds no pipe end. *)
DeadHoldNothing ==
    \A c \in Child : proc[c] \in {"none"} \cup Ended => fds[c] = {}

(* gcc is one process: it forks nothing the model has to know of. *)
GccIsPlain == \A j \in Job : proc[Gcc(j)] \in {"none", "run"} \cup Ended

LEMMA DeadHoldStep == Inv /\ DeadHoldNothing /\ [Next]_vars => DeadHoldNothing'
<1> SUFFICES ASSUME Inv, DeadHoldNothing, [Next]_vars
             PROVE  DeadHoldNothing'
  OBVIOUS
<1> USE DEF DeadHoldNothing
<1>1. ASSUME NEW j \in Job, NEW c \in Child, proc'[c] \in {"none"} \cup Ended,
             StartJob(j) \/ WorkerNext(j)
      PROVE  fds'[c] = {}
  <2> USE DEF Inv, TypeOK
  <2>1. Gcc(j) \in Child /\ Wrapper(j) \in Child
    BY ChildrenOf
  <2>2. CASE ForkGcc(j) \/ ForkWrapper(j)
    BY <1>1, <2>1, <2>2 DEF ForkGcc, ForkWrapper, Ended
  <2>3. CASE ~ForkGcc(j) /\ ~ForkWrapper(j)
    BY <1>1, <2>3 DEF StartJob, WorkerNext, ForkGccFails, WaitGcc, ReadErr, OpenMonitor,
       ForkWrapperFails, SkipPid, ReadPid, SendStart, SigPipe, WaitWrapper, Finish,
       childVars
  <2>4. QED BY <2>2, <2>3
<1>2. ASSUME NEW j \in Job, NEW c \in Child, proc'[c] \in {"none"} \cup Ended,
             GccEnd(j) \/ WrapperNext(j) \/ InnerNext(j)
      PROVE  fds'[c] = {}
  <2> USE DEF Inv, TypeOK
  <2>1. /\ Gcc(j) \in Child /\ Wrapper(j) \in Child /\ Inner(j) \in Child
        /\ Wrapper(j) # Inner(j)
    BY ChildrenOf, ChildrenApart
  <2>2. CASE GccEnd(j)
    BY <1>2, <2>1, <2>2 DEF GccEnd
  <2>3. CASE WrapperFails(j) \/ ReportPidFails(j) \/ WrapperEnd(j)
    BY <1>2, <2>1, <2>3 DEF WrapperFails, ReportPidFails, WrapperEnd
  <2>4. CASE ForkInner(j)
    BY <1>2, <2>1, <2>4 DEF ForkInner, Ended
  <2>5. CASE ReportPid(j)
    BY <1>2, <2>1, <2>5 DEF ReportPid, Ended
  <2>6. CASE InnerNext(j)
    BY <1>2, <2>1, <2>6 DEF InnerNext, InnerStart, InnerEnd, Ended
  <2>7. QED BY <1>2, <2>2, <2>3, <2>4, <2>5, <2>6 DEF WrapperNext
<1>3. CASE UNCHANGED vars
  BY <1>3 DEF vars, childVars
<1>4. QED BY <1>1, <1>2, <1>3 DEF Next

LEMMA GccPlainStep == Inv /\ GccIsPlain /\ [Next]_vars => GccIsPlain'
<1> SUFFICES ASSUME Inv, GccIsPlain, [Next]_vars, NEW j \in Job
             PROVE  proc'[Gcc(j)] \in {"none", "run"} \cup Ended
  BY DEF GccIsPlain
<1>0. proc[Gcc(j)] \in {"none", "run"} \cup Ended
  BY DEF GccIsPlain
<1>1. ASSUME NEW i \in Job, StartJob(i) \/ WorkerNext(i)
      PROVE  proc'[Gcc(j)] \in {"none", "run"} \cup Ended
  <2> USE DEF Inv, TypeOK
  <2>1. Gcc(j) \in Child /\ Gcc(i) \in Child /\ Gcc(j) # Wrapper(i)
    BY ChildrenOf DEF Gcc, Wrapper
  <2>2. CASE ForkGcc(i)
    BY <1>0, <2>1, <2>2 DEF ForkGcc
  <2>3. CASE ForkWrapper(i)
    BY <1>0, <2>1, <2>3 DEF ForkWrapper
  <2>4. CASE ~ForkGcc(i) /\ ~ForkWrapper(i)
    BY <1>0, <1>1, <2>4 DEF StartJob, WorkerNext, ForkGccFails, WaitGcc, ReadErr,
       OpenMonitor, ForkWrapperFails, SkipPid, ReadPid, SendStart, SigPipe, WaitWrapper,
       Finish, childVars
  <2>5. QED BY <2>2, <2>3, <2>4
<1>2. ASSUME NEW i \in Job, GccEnd(i)
      PROVE  proc'[Gcc(j)] \in {"none", "run"} \cup Ended
  <2>1. Gcc(j) \in Child /\ Gcc(i) \in Child
    BY ChildrenOf
  <2>2. QED BY <1>0, <1>2, <2>1 DEF GccEnd, Inv, TypeOK, Ended
<1>3. ASSUME NEW i \in Job, WrapperNext(i) \/ InnerNext(i)
      PROVE  proc'[Gcc(j)] \in {"none", "run"} \cup Ended
  <2>1. /\ Gcc(j) \in Child /\ Gcc(j) # Wrapper(i) /\ Gcc(j) # Inner(i)
    BY ChildrenOf DEF Gcc, Wrapper, Inner
  <2>2. QED
    BY <1>0, <1>3, <2>1 DEF Inv, TypeOK, WrapperNext, WrapperFails, ForkInner,
       ReportPid, ReportPidFails, WrapperEnd, InnerNext, InnerStart, InnerEnd
<1>4. CASE UNCHANGED vars
  BY <1>0, <1>4 DEF vars, childVars
<1>5. QED BY <1>1, <1>2, <1>3, <1>4 DEF Next

(* While a child of a job lives, somebody of the job can go on or the job  *)
(* hangs by itself.                                                        *)
LEMMA LiveChildMoves ==
    ASSUME Inv, GccIsPlain, server_up, NEW j \in Job,
           \E c \in {Gcc(j), Wrapper(j), Inner(j)} : proc[c] \notin {"none"} \cup Ended
    PROVE  FamilyReady(j) \/ Hangs(j)
<1>0. /\ proc[Gcc(j)] \in {"none", "forked", "run", "wait"} \cup Ended
      /\ proc[Wrapper(j)] \in {"none", "forked", "run", "wait"} \cup Ended
      /\ proc[Inner(j)] \in {"none", "forked", "run", "wait"} \cup Ended
      /\ pc[j] \in WorkerPc
  BY ChildrenOf DEF Inv, TypeOK
<1>1. Compiled(j) /\ Wrapped(j) /\ Started(j) /\ ChildHolds(j) /\ ServerHolds(j)
  BY DEF Inv, JobInv
<1>2. CASE proc[Inner(j)] = "run"
  BY <1>2 DEF FamilyReady, InnerReady, Hangs
<1>3. CASE proc[Inner(j)] = "forked"
  <2>1. CASE j \in go
    BY <1>3, <2>1 DEF FamilyReady, InnerReady
  <2>2. CASE j \notin go
    <3>1. pc[j] \in {"read_pid", "start"}
      BY <1>0, <1>1, <1>3, <2>2 DEF WorkerPc, Compiled, Wrapped, Started
    <3>2. CASE pc[j] = "start"
      BY <3>2 DEF FamilyReady, WorkerReady
    <3>3. CASE pc[j] = "read_pid"
      <4>1. \/ proc[Wrapper(j)] \in {"forked", "run"}
            \/ j \in pid_sent
            \/ monitor[j] = "none"
        BY <1>0, <1>1, <1>3 DEF Wrapped, Ended
      <4>2. QED BY <3>3, <4>1 DEF FamilyReady, WorkerReady, WrapperReady
    <3>4. QED BY <3>1, <3>2, <3>3
  <2>3. QED BY <2>1, <2>2
<1>4. CASE proc[Inner(j)] \in {"none"} \cup Ended
           /\ proc[Wrapper(j)] \notin {"none"} \cup Ended
  BY <1>0, <1>1, <1>4 DEF FamilyReady, WrapperReady, Wrapped
<1>5. CASE proc[Gcc(j)] \notin {"none"} \cup Ended
  <2>1. proc[Gcc(j)] = "run"
    BY <1>5 DEF GccIsPlain
  <2>2. QED BY <2>1 DEF FamilyReady, GccReady, Hangs
<1>6. QED BY <1>0, <1>1, <1>2, <1>3, <1>4, <1>5 DEF Wrapped

(* A pipe end a worker has given up is kept open by a living child only,   *)
(* and a wait that nothing answers leaves a living child: of the job       *)
(* itself, or of another.                                                  *)
LEMMA HolderLives ==
    ASSUME Inv, DeadHoldNothing, NEW e, Held(e), e \notin server_fds
    PROVE  \E k \in Job : \E c \in {Gcc(k), Wrapper(k), Inner(k)} :
               proc[c] \notin {"none"} \cup Ended
<1>1. PICK c \in Child : e \in fds[c]
  BY DEF Held
<1>2. proc[c] \notin {"none"} \cup Ended
  BY <1>1 DEF DeadHoldNothing
<1>3. PICK k \in Job : c \in {Gcc(k), Wrapper(k), Inner(k)}
  BY DEF Child, Gcc, Wrapper, Inner
<1>4. QED BY <1>2, <1>3

LEMMA AwaitedLives ==
    ASSUME Inv, NEW c, proc[c] = "none", ~StatusReady(c)
    PROVE  \E k \in Job : \E d \in {Gcc(k), Wrapper(k), Inner(k)} :
               proc[d] \notin {"none"} \cup Ended
<1>1. PICK d \in Unwaited : proc[d] \notin Ended
  BY DEF StatusReady
<1>2. d \in Child /\ proc[d] # "none"
  BY DEF Unwaited
<1>3. PICK k \in Job : d \in {Gcc(k), Wrapper(k), Inner(k)}
  BY <1>2 DEF Child, Gcc, Wrapper, Inner
<1>4. QED BY <1>1, <1>2, <1>3

(* A worker that is blocked although its job has no living child has lost  *)
(* sight of a child, and some child of another job lives.                  *)
LEMMA BlockedWorker ==
    ASSUME Inv, DeadHoldNothing, server_up, NEW j \in Active, ~WorkerReady(j),
           \A c \in {Gcc(j), Wrapper(j), Inner(j)} : proc[c] \in {"none"} \cup Ended
    PROVE  /\ Silent(j)
           /\ \E k \in Job : \E c \in {Gcc(k), Wrapper(k), Inner(k)} :
                 proc[c] \notin {"none"} \cup Ended
<1>0. /\ j \in Job /\ pc[j] \in WorkerPc \ {"none", "done"}
      /\ \A n \in EndName : <<j, n>> \in server_fds <=> n \in ServerEnds(pc[j])
      /\ Compiled(j) /\ Wrapped(j)
  BY DEF Inv, TypeOK, Active, JobInv, ServerHolds
<1>1. pc[j] \in {"wait_gcc", "read_err", "read_pid", "wait_wrapper"}
  BY <1>0 DEF WorkerReady, WorkerPc
<1>2. CASE pc[j] = "wait_gcc"
  <2>1. ~StatusReady(Gcc(j))
    BY <1>2 DEF WorkerReady
  <2>2. proc[Gcc(j)] = "none"
    BY <2>1 DEF StatusReady
  <2>3. Silent(j)
    BY <1>2, <2>2 DEF Silent, Intact, GccMissing
  <2>4. QED BY <2>1, <2>2, <2>3, AwaitedLives
<1>3. CASE pc[j] = "read_err"
  <2>1. output[j] = "none" /\ Held(<<j, "err_w">>)
    BY <1>3 DEF WorkerReady
  <2>2. <<j, "err_w">> \notin server_fds
    BY <1>0, <1>3 DEF ServerEnds, EndName
  <2>3. Silent(j)
    BY <1>0, <1>3, <2>1 DEF Silent, Intact, GccMissing, Compiled, GccIsOwn
  <2>4. QED BY <2>1, <2>2, <2>3, HolderLives
<1>4. CASE pc[j] = "read_pid"
  <2>1. monitor[j] # "none" /\ j \notin pid_sent /\ Held(<<j, "pid_w">>)
    BY <1>4 DEF WorkerReady
  <2>2. <<j, "pid_w">> \notin server_fds
    BY <1>0, <1>4 DEF ServerEnds, EndName
  <2>3. Silent(j)
    <3>1. CASE proc[Wrapper(j)] = "none"
      BY <1>0, <1>4, <3>1 DEF Silent, Intact, WrapperMissing, Compiled
    <3>2. CASE proc[Wrapper(j)] \in Ended
      BY <1>0, <2>1, <3>2 DEF Silent, Wrapped
    <3>3. QED BY <3>1, <3>2
  <2>4. QED BY <2>1, <2>2, <2>3, HolderLives
<1>5. CASE pc[j] = "wait_wrapper"
  <2>1. ~StatusReady(Wrapper(j))
    BY <1>5 DEF WorkerReady
  <2>2. proc[Wrapper(j)] = "none"
    BY <2>1 DEF StatusReady
  <2>3. Silent(j)
    BY <1>0, <1>5, <2>2 DEF Silent, Intact, WrapperMissing, Compiled
  <2>4. QED BY <2>1, <2>2, <2>3, AwaitedLives
<1>6. QED BY <1>1, <1>2, <1>3, <1>4, <1>5

(* The safety half of JobEnds, for any number of jobs and threads: though  *)
(* every fork copies the pipe ends of all jobs, no job in hand is kept     *)
(* waiting by another, except the ones handle_client has lost sight of;    *)
(* and there is no deadlock unless a job hangs by itself.                  *)
THEOREM NoWaitInVain == Spec => []WaitsAreJustified
<1>1. Init => DeadHoldNothing /\ GccIsPlain
  BY ChildrenOf DEF Init, DeadHoldNothing, GccIsPlain
<1>2. Inv /\ DeadHoldNothing /\ GccIsPlain /\ [Next]_vars
        => DeadHoldNothing' /\ GccIsPlain'
  BY DeadHoldStep, GccPlainStep
<1>3. Inv /\ DeadHoldNothing /\ GccIsPlain => WaitsAreJustified
  <2> SUFFICES ASSUME Inv, DeadHoldNothing, GccIsPlain, server_up, NEW j \in Active,
                      ~FamilyReady(j), ~Hangs(j)
               PROVE  Silent(j) /\ \E k \in Job \ {j} : FamilyReady(k) \/ Hangs(k)
    BY DEF WaitsAreJustified
  <2>1. j \in Job
    BY DEF Active
  <2>2. \A c \in {Gcc(j), Wrapper(j), Inner(j)} : proc[c] \in {"none"} \cup Ended
    BY <2>1, LiveChildMoves
  <2>3. ~WorkerReady(j)
    BY DEF FamilyReady
  <2>4. Silent(j)
    BY <2>2, <2>3, BlockedWorker
  <2>5. PICK k \in Job : \E c \in {Gcc(k), Wrapper(k), Inner(k)} :
                            proc[c] \notin {"none"} \cup Ended
    BY <2>2, <2>3, BlockedWorker
  <2>6. k # j
    BY <2>2, <2>5
  <2>7. FamilyReady(k) \/ Hangs(k)
    BY <2>5, LiveChildMoves
  <2>8. QED BY <2>4, <2>6, <2>7
<1>4. QED BY <1>1, <1>2, <1>3, SandboxInvAlways, PTL DEF Spec
-----------------------------------------------------------------------------
(* What becomes of the CPU limit.                                          *)

(* A program that has ended has ended in its own way, and no child of the  *)
(* server is ever sent SIGXCPU: with both limits alike the kernel kills.   *)
(* They are alike although timeout_seconds is read twice, as the program's *)
(* process has its own copy, which a SIGUSR1 to the server leaves alone.   *)
(* A program that raises SIGXCPU itself is not modelled.                   *)
DiesItsOwnWay ==
    /\ \A c \in Child : proc[c] # "SIGXCPU"
    /\ \A j \in Job :
         proc[Inner(j)] \in Ended =>
           program[j] # "unknown" /\ proc[Inner(j)] = Death(program[j])

(* TLE is a grade nobody gets, whatever the jobs do to each other and      *)
(* whichever forks fail: wait4 never reports the signal handle_client looks for.     *)
TLEIsNeverGiven == \A j \in Job : grade[j] # "TLE"

(* The grade a loop gets instead, where the children were handle_client's  *)
(* own: that of a crash.                                                   *)
LoopIsRE ==
    \A j \in Job :
        pc[j] = "done" /\ program[j] = "loop" /\ monitor[j] # "none" /\ Intact(j)
            => grade[j] = "RE"

LEMMA DiesItsOwnWayStep ==
    ASSUME Inv, DiesItsOwnWay, [Next]_vars
    PROVE  DiesItsOwnWay'
<1> USE DEF DiesItsOwnWay
<1>1. CASE UNCHANGED vars
  BY <1>1 DEF vars, childVars
<1>2. ASSUME NEW j \in Job, UNCHANGED childVars  PROVE DiesItsOwnWay'
  BY <1>2 DEF childVars
<1>3. ASSUME NEW j \in Job, StartJob(j) \/ WorkerNext(j)  PROVE DiesItsOwnWay'
  <2>0. /\ Gcc(j) \in Child /\ Wrapper(j) \in Child
        /\ \A k \in Job : Inner(k) \in Child /\ Inner(k) # Gcc(j) /\ Inner(k) # Wrapper(j)
        /\ DOMAIN proc = Child
    BY ChildrenOf DEF Inv, TypeOK, Gcc, Wrapper, Inner
  <2>1. CASE ForkGcc(j)
    <3>1. proc' = [proc EXCEPT ![Gcc(j)] = "run"] /\ UNCHANGED program
      BY <2>1 DEF ForkGcc
    <3>2. QED BY <2>0, <3>1 DEF Inv, TypeOK
  <2>2. CASE ForkWrapper(j)
    <3>1. proc' = [proc EXCEPT ![Wrapper(j)] = "forked"] /\ UNCHANGED program
      BY <2>2 DEF ForkWrapper
    <3>2. QED BY <2>0, <3>1 DEF Inv, TypeOK
  <2>3. CASE ~ForkGcc(j) /\ ~ForkWrapper(j)
    BY <1>2, <1>3, <2>3
       DEF StartJob, WorkerNext, ForkGccFails, WaitGcc, ReadErr, OpenMonitor,
           ForkWrapperFails, SkipPid, ReadPid, SendStart, SigPipe, WaitWrapper, Finish
  <2>4. QED BY <2>1, <2>2, <2>3
<1>4. ASSUME NEW j \in Job, GccEnd(j) \/ WrapperNext(j)  PROVE DiesItsOwnWay'
  <2>0. /\ Gcc(j) \in Child /\ Wrapper(j) \in Child /\ Inner(j) \in Child
        /\ \A k \in Job : /\ Inner(k) \in Child
                          /\ Inner(k) # Gcc(j) /\ Inner(k) # Wrapper(j)
        /\ proc \in [Child -> {"none", "forked", "run", "wait"} \cup Ended]
    BY ChildrenOf DEF Inv, TypeOK, Gcc, Wrapper, Inner
  <2>1. CASE ForkInner(j)
    <3>1. /\ proc' = [proc EXCEPT ![Wrapper(j)] = "run", ![Inner(j)] = "forked"]
          /\ UNCHANGED program
      BY <2>1 DEF ForkInner
    <3>2. QED BY <2>0, <3>1 DEF Ended
  <2>2. ASSUME NEW c \in {Gcc(j), Wrapper(j)}, NEW st, st # "SIGXCPU",
               proc' = [proc EXCEPT ![c] = st], UNCHANGED program
        PROVE  DiesItsOwnWay'
    BY <2>0, <2>2
  <2>3. CASE GccEnd(j)
    BY <2>2, <2>3 DEF GccEnd
  <2>4. CASE WrapperFails(j) \/ ReportPid(j) \/ ReportPidFails(j)
    BY <2>2, <2>4 DEF WrapperFails, ReportPid, ReportPidFails
  <2>5. CASE WrapperEnd(j)
    BY <2>0, <2>2, <2>5 DEF WrapperEnd
  <2>6. QED BY <1>4, <2>1, <2>3, <2>4, <2>5 DEF WrapperNext
<1>5. ASSUME NEW j \in Job, InnerNext(j)  PROVE DiesItsOwnWay'
  <2>0. /\ Inner(j) \in Child /\ \A k \in Job \ {j} : Inner(k) \in Child /\ Inner(k) # Inner(j)
        /\ proc \in [Child -> {"none", "forked", "run", "wait"} \cup Ended]
        /\ program \in [Job -> {"unknown", "fail"} \cup Program]
    BY ChildrenOf DEF Inv, TypeOK, Inner
  <2>1. CASE InnerStart(j)
    <3>1. /\ proc' = [proc EXCEPT ![Inner(j)] = "run"]
          /\ \A k \in Job \ {j} : program'[k] = program[k]
      BY <2>0, <2>1 DEF InnerStart
    <3>2. QED BY <2>0, <3>1 DEF Ended
  <2>2. CASE InnerEnd(j)
    <3>1. /\ proc[Inner(j)] = "run" /\ program[j] # "wait" /\ UNCHANGED program
          /\ proc' = [proc EXCEPT ![Inner(j)] = Death(program[j])]
      BY <2>2 DEF InnerEnd
    <3>2. program[j] # "unknown"
      BY <3>1 DEF Inv, JobInv, Wrapped
    <3>3. Death(program[j]) # "SIGXCPU"
      BY <2>0, <3>1, <3>2, DeathEnds
    <3>4. QED BY <2>0, <3>1, <3>2, <3>3
  <2>3. QED BY <1>5, <2>1, <2>2 DEF InnerNext
<1>6. QED BY <1>1, <1>3, <1>4, <1>5 DEF Next

(* A grade comes of the end of a child, and no child ends by SIGXCPU. *)
LEMMA TLEIsNeverGivenStep ==
    ASSUME Inv, DiesItsOwnWay, TLEIsNeverGiven, [Next]_vars
    PROVE  TLEIsNeverGiven'
<1> USE DEF TLEIsNeverGiven
<1>1. CASE UNCHANGED grade
  BY <1>1
<1>2. ASSUME NEW j \in Job, NEW from, NEW G, "TLE" \notin G, Finish(j, from, G)
      PROVE  TLEIsNeverGiven'
  <2>1. PICK g \in G : grade' = [grade EXCEPT ![j] = g]
    BY <1>2 DEF Finish
  <2>2. QED BY <1>2, <2>1 DEF Inv, TypeOK
<1>3. ASSUME NEW j \in Job, ReadErr(j)  PROVE TLEIsNeverGiven'
  BY <1>2, <1>3 DEF ReadErr
<1>4. ASSUME NEW j \in Job, WaitWrapper(j)  PROVE TLEIsNeverGiven'
  <2>1. PICK status \in Ended : /\ Finish(j, "wait_wrapper", GradesOf(status))
                                /\ WaitFor(Wrapper(j), status, {"exit0"})
    BY <1>4 DEF WaitWrapper
  <2>2. status # "SIGXCPU"
    BY <2>1, ChildrenOf DEF WaitFor, Unwaited, DiesItsOwnWay
  <2>3. "TLE" \notin GradesOf(status)
    BY <2>2 DEF GradesOf
  <2>4. QED BY <1>2, <2>1, <2>3
<1>5. CASE UNCHANGED vars
  BY <1>5 DEF vars, workerVars
<1>6. ASSUME NEW j \in Job, Next, ~ReadErr(j), ~WaitWrapper(j),
             \/ StartJob(j) \/ WorkerNext(j) \/ GccEnd(j) \/ WrapperNext(j)
             \/ InnerNext(j)
      PROVE  UNCHANGED grade
  BY <1>6 DEF StartJob, WorkerNext, ForkGcc, ForkGccFails, WaitGcc, OpenMonitor,
       ForkWrapper, ForkWrapperFails, SkipPid, ReadPid, SendStart, SigPipe,
       GccEnd, WrapperNext, WrapperFails, ForkInner, ReportPid, ReportPidFails,
       WrapperEnd, InnerNext, InnerStart, InnerEnd, workerVars
<1>7. QED BY <1>1, <1>3, <1>4, <1>5, <1>6 DEF Next

(* handle_client never gives the grade TLE, however the jobs interleave    *)
(* and whichever forks fail: its timeout is enforced as a run time error   *)
(* (server/server.c, setrlimit and the tests of WTERMSIG).                 *)
THEOREM NobodyIsTLE == Spec => [](TLEIsNeverGiven /\ LoopIsRE)
<1>1. Init => DiesItsOwnWay /\ TLEIsNeverGiven
  BY ChildrenOf DEF Init, DiesItsOwnWay, TLEIsNeverGiven, Ended
<1>2. Inv /\ DiesItsOwnWay /\ TLEIsNeverGiven /\ [Next]_vars
        => DiesItsOwnWay' /\ TLEIsNeverGiven'
  BY DiesItsOwnWayStep, TLEIsNeverGivenStep
<1>3. Inv /\ DiesItsOwnWay => LoopIsRE
  <2> SUFFICES ASSUME Inv, DiesItsOwnWay, NEW j \in Job, pc[j] = "done",
                      program[j] = "loop", monitor[j] # "none", Intact(j)
               PROVE  grade[j] = "RE"
    BY DEF LoopIsRE
  <2>1. Judged(j) /\ Wrapped(j)
    BY DEF Inv, JobInv
  <2>2. proc[Wrapper(j)] # "none" /\ proc[Inner(j)] \notin {"none", "forked"}
    BY <2>1 DEF Wrapped
  <2>3. /\ proc[Inner(j)] \in Ended
        /\ grade[j] \in GradesOf(proc[Wrapper(j)])
        /\ proc[Wrapper(j)] \in Ended
    BY <2>1, <2>2 DEF Judged
  <2>4. proc[Inner(j)] = "SIGKILL"
    BY <2>3 DEF DiesItsOwnWay, Death, CpuLimitSignal, timeout_seconds
  <2>5. proc[Wrapper(j)] \in {"SIGKILL", "SIGPIPE"}
    BY <2>1, <2>2, <2>3, <2>4 DEF Wrapped
  <2>6. QED BY <2>3, <2>5 DEF GradesOf
<1>4. QED BY <1>1, <1>2, <1>3, SandboxInvAlways, PTL DEF Spec
-----------------------------------------------------------------------------
(* How many programs run at once.                                          *)

(* Submitted programs that are forked and have not ended. *)
LivePrograms == {j \in Job : proc[Inner(j)] \in {"forked", "run"}}

(* The worker threads bound the load: no more submitted programs live at a *)
(* time than there are workers, apart from those handle_client has lost    *)
(* sight of.  A program outlives its worker in no other way, so that the   *)
(* pool limits the machine's load and not only the server's.               *)
LoadIsBounded ==
    Cardinality({j \in LivePrograms : ~OutOfSight(j)}) <= NumThreads

(* The jobs in hand are no more than the threads. *)
LEMMA ActiveBounded ==
    ASSUME Inv, Cardinality(Active) <= NumThreads, [Next]_vars
    PROVE  Cardinality(Active') <= NumThreads
<1>0. IsFiniteSet(Active) /\ Cardinality(Active) \in Nat /\ NumThreads \in Nat
  <2>1. IsFiniteSet(Active)
    BY SandboxAssumption, FS_Subset DEF Active
  <2>2. QED BY <2>1, SandboxAssumption, FS_CardinalityType
<1>1. ASSUME NEW j \in Job, StartJob(j)  PROVE Cardinality(Active') <= NumThreads
  <2>1. Cardinality(Active) < NumThreads /\ pc[j] = "none"
        /\ pc' = [pc EXCEPT ![j] = "fork_gcc"]
    BY <1>1 DEF StartJob, WorkerStep
  <2>2. Active' = Active \cup {j} /\ j \notin Active
    BY <2>1 DEF Active, Inv, TypeOK
  <2>3. Cardinality(Active') = Cardinality(Active) + 1
    BY <1>0, <2>2, FS_AddElement
  <2>4. QED BY <1>0, <2>1, <2>3
<1>2. ASSUME Active' \subseteq Active  PROVE Cardinality(Active') <= NumThreads
  <2>1. Cardinality(Active') <= Cardinality(Active) /\ Cardinality(Active') \in Nat
    BY <1>0, <1>2, FS_Subset, FS_CardinalityType
  <2>2. QED BY <1>0, <2>1
<1>3. ASSUME NEW j \in Job, NEW from, NEW to, from # "none", from # "done",
             WorkerStep(j, from, to)
      PROVE  Active' \subseteq Active
  BY <1>3 DEF WorkerStep, Active, Inv, TypeOK
<1>4. ASSUME UNCHANGED pc  PROVE Active' \subseteq Active
  BY <1>4 DEF Active
<1>5. ASSUME NEW j \in Job, WorkerNext(j)  PROVE Active' \subseteq Active
  <2>1. CASE SigPipe(j)
    BY <1>4, <2>1 DEF SigPipe
  <2>2. CASE ReadErr(j) \/ WaitWrapper(j)
    BY <1>3, <2>2 DEF ReadErr, WaitWrapper, Finish
  <2>3. CASE WaitGcc(j)
    BY <1>3, <2>3 DEF WaitGcc
  <2>4. CASE \/ ForkGcc(j) \/ ForkGccFails(j) \/ OpenMonitor(j) \/ ForkWrapper(j)
             \/ ForkWrapperFails(j)
    BY <1>3, <2>4
       DEF ForkGcc, ForkGccFails, OpenMonitor, ForkWrapper, ForkWrapperFails
  <2>5. CASE SkipPid(j) \/ ReadPid(j) \/ SendStart(j)
    BY <1>3, <2>5 DEF SkipPid, ReadPid, SendStart
  <2>6. QED BY <1>5, <2>1, <2>2, <2>3, <2>4, <2>5 DEF WorkerNext
<1>6. ASSUME NEW j \in Job, GccEnd(j) \/ WrapperNext(j) \/ InnerNext(j)
      PROVE  Active' \subseteq Active
  BY <1>4, <1>6 DEF GccEnd, WrapperNext, InnerNext, WrapperFails, ForkInner, ReportPid,
                    ReportPidFails, WrapperEnd, InnerStart, InnerEnd, workerVars
<1>7. CASE UNCHANGED vars
  BY <1>2, <1>4, <1>7 DEF vars, workerVars
<1>8. QED BY <1>1, <1>2, <1>5, <1>6, <1>7 DEF Next

(* A program handle_client has in sight lives only while its worker does. *)
LEMMA InSightInHand ==
    ASSUME Inv, NEW j \in LivePrograms, ~OutOfSight(j)
    PROVE  j \in Active
<1>1. j \in Job /\ JobInv(j) /\ proc[Inner(j)] \in {"forked", "run"}
  BY DEF LivePrograms, Inv
<1>2. proc[Wrapper(j)] # "none"
  BY <1>1 DEF JobInv, Wrapped
<1>3. pc[j] # "none"
  BY <1>1, <1>2 DEF JobInv, Compiled
<1>4. pc[j] # "done"
  BY <1>1, <1>2 DEF JobInv, Judged, OutOfSight, Ended
<1>5. QED BY <1>1, <1>3, <1>4 DEF Active

(* The NUM_THREADS workers of the server bound the number of submitted     *)
(* programs that live at once: handle_client does not return before the    *)
(* wrapper, and the wrapper not before the program (server/server.c).      *)
THEOREM LoadStaysBounded == Spec => []LoadIsBounded
<1>1. Init => Cardinality(Active) <= NumThreads
  <2>1. Init => Active = {}
    BY DEF Init, Active
  <2>2. QED BY <2>1, SandboxAssumption, FS_EmptySet
<1>2. Inv /\ Cardinality(Active) <= NumThreads /\ [Next]_vars
        => (Cardinality(Active) <= NumThreads)'
  BY ActiveBounded
<1>3. Inv /\ Cardinality(Active) <= NumThreads => LoadIsBounded
  <2> SUFFICES ASSUME Inv, Cardinality(Active) <= NumThreads  PROVE LoadIsBounded
    OBVIOUS
  <2> DEFINE Seen == {j \in LivePrograms : ~OutOfSight(j)}
  <2>1. Seen \subseteq Active
    BY InSightInHand
  <2>2. IsFiniteSet(Active)
    BY SandboxAssumption, FS_Subset DEF Active
  <2>3. /\ Cardinality(Seen) <= Cardinality(Active)
        /\ Cardinality(Seen) \in Nat /\ Cardinality(Active) \in Nat
    BY <2>1, <2>2, FS_Subset, FS_CardinalityType
  <2>4. QED BY <2>3, SandboxAssumption DEF LoadIsBounded
<1>4. QED BY <1>1, <1>2, <1>3, SandboxInvAlways, PTL DEF Spec
-----------------------------------------------------------------------------
(* Handshake and pipes implement Grading.                                  *)

(* Only a child its own worker has yet to wait for is taken by another.    *)
LEMMA TakenUnwaited ==
    ASSUME Inv, [Next]_vars
    PROVE  reaped \subseteq reaped' /\ reaped' \ reaped \subseteq Unwaited
<1>1. ASSUME NEW j \in Job, WaitGcc(j) \/ WaitWrapper(j)
      PROVE  reaped \subseteq reaped' /\ reaped' \ reaped \subseteq Unwaited
  BY <1>1, WaitTakes DEF Inv, WaitGcc, WaitWrapper
<1>2. ASSUME NEW j \in Job, ~WaitGcc(j), ~WaitWrapper(j),
             \/ StartJob(j) \/ WorkerNext(j) \/ GccEnd(j) \/ WrapperNext(j)
             \/ InnerNext(j)
      PROVE  reaped' = reaped
  BY <1>2 DEF StartJob, WorkerNext, ForkGcc, ForkGccFails, ReadErr, Finish, OpenMonitor,
       ForkWrapper, ForkWrapperFails, SkipPid, ReadPid, SendStart, SigPipe,
       GccEnd, WrapperNext, WrapperFails, ForkInner, ReportPid, ReportPidFails,
       WrapperEnd, InnerNext, InnerStart, InnerEnd, workerVars
<1>3. CASE UNCHANGED vars
  BY <1>3 DEF vars, workerVars
<1>4. QED BY <1>1, <1>2, <1>3 DEF Next

(* A job whose child is unwaited is in hand. *)
LEMMA UnwaitedInHand ==
    ASSUME Inv, NEW j \in Job, Gcc(j) \in Unwaited \/ Wrapper(j) \in Unwaited
    PROVE  j \in Active
<1>1. JobInv(j)
  BY DEF Inv
<1>2. CASE Gcc(j) \in Unwaited
  <2>1. pc[j] = "wait_gcc"
    BY <1>2 DEF Unwaited, Gcc, Wrapper
  <2>2. QED BY <2>1 DEF Active
<1>3. CASE Wrapper(j) \in Unwaited
  <2>1. pc[j] # "done" /\ proc[Wrapper(j)] # "none"
    BY <1>3 DEF Unwaited, Gcc, Wrapper
  <2>2. pc[j] # "none"
    BY <1>1, <2>1 DEF JobInv, Compiled
  <2>3. QED BY <2>1, <2>2 DEF Active
<1>4. QED BY <1>2, <1>3

(* What a step of the job itself does to the four ways to be out of sight. *)
LEMMA OwnSight ==
    ASSUME Inv, NEW j \in Job,
           StartJob(j) \/ WorkerNext(j) \/ GccEnd(j) \/ WrapperNext(j) \/ InnerNext(j)
    PROVE  /\ monitor[j] = "none" \/ GccMissing(j) \/ WrapperMissing(j) =>
                monitor'[j] = "none" \/ GccMissing(j)' \/ WrapperMissing(j)'
           /\ monitor'[j] = "none" \/ GccMissing(j)' \/ WrapperMissing(j)' =>
                \/ monitor[j] = "none" \/ GccMissing(j) \/ WrapperMissing(j)
                \/ j \in Active
<1> USE DEF GccMissing, WrapperMissing, Active
<1>0. /\ JobInv(j) /\ TypeOK
      /\ Gcc(j) \in Child /\ Wrapper(j) \in Child /\ Inner(j) \in Child
      /\ Gcc(j) # Wrapper(j) /\ Gcc(j) # Inner(j) /\ Wrapper(j) # Inner(j)
  BY ChildrenOf, ChildrenApart DEF Inv
<1>1. CASE StartJob(j)
  BY <1>0, <1>1 DEF StartJob, WorkerStep, childVars, TypeOK, JobInv, Compiled
<1>2. CASE ForkGcc(j) \/ ForkGccFails(j)
  BY <1>0, <1>2 DEF ForkGcc, ForkGccFails, WorkerStep, childVars, TypeOK
<1>3. CASE WaitGcc(j)
  BY <1>0, <1>3 DEF WaitGcc, WorkerStep, childVars, TypeOK, JobInv, Compiled
<1>4. CASE ReadErr(j) \/ WaitWrapper(j)
  BY <1>0, <1>4 DEF ReadErr, WaitWrapper, Finish, WorkerStep, childVars, TypeOK
<1>5. CASE OpenMonitor(j)
  BY <1>0, <1>5 DEF OpenMonitor, WorkerStep, childVars, TypeOK, JobInv, Compiled
<1>6. CASE ForkWrapper(j) \/ ForkWrapperFails(j)
  BY <1>0, <1>6 DEF ForkWrapper, ForkWrapperFails, WorkerStep, childVars, TypeOK
<1>7. CASE SkipPid(j) \/ ReadPid(j) \/ SendStart(j) \/ SigPipe(j)
  BY <1>0, <1>7 DEF SkipPid, ReadPid, SendStart, SigPipe, WorkerStep, childVars, TypeOK
<1>8. CASE GccEnd(j) \/ WrapperNext(j) \/ InnerNext(j)
  <2>1. /\ pc' = pc /\ monitor' = monitor
        /\ proc'[Gcc(j)] = "none" <=> proc[Gcc(j)] = "none"
        /\ proc'[Wrapper(j)] = "none" <=> proc[Wrapper(j)] = "none"
    <3>1. CASE GccEnd(j)
      BY <1>0, <3>1 DEF GccEnd, workerVars, TypeOK
    <3>2. CASE WrapperFails(j) \/ ForkInner(j) \/ ReportPid(j) \/ ReportPidFails(j)
      BY <1>0, <3>2 DEF WrapperFails, ForkInner, ReportPid, ReportPidFails, workerVars,
                        TypeOK
    <3>3. CASE WrapperEnd(j)
      BY <1>0, <3>3 DEF WrapperEnd, workerVars, TypeOK, Ended
    <3>4. CASE InnerNext(j)
      BY <1>0, <3>4 DEF InnerNext, InnerStart, InnerEnd, workerVars, TypeOK
    <3>5. QED BY <1>8, <3>1, <3>2, <3>3, <3>4 DEF WrapperNext
  <2>2. QED BY <2>1
<1>9. QED BY <1>1, <1>2, <1>3, <1>4, <1>5, <1>6, <1>7, <1>8 DEF WorkerNext

(* A job once out of sight stays so, and comes out of it only in hand. *)
LEMMA SightLost ==
    ASSUME Inv, [Next]_vars
    PROVE  LostJobs \subseteq LostJobs' /\ LostJobs' \ LostJobs \subseteq Active
<1> DEFINE Gone(k) == monitor[k] = "none" \/ GccMissing(k) \/ WrapperMissing(k)
<1>1. \A k \in Job : k \in LostJobs <=>
                       Gone(k) \/ Gcc(k) \in reaped \/ Wrapper(k) \in reaped
  BY DEF LostJobs, OutOfSight, Intact
<1>2. \A k \in Job : k \in LostJobs' <=>
                       Gone(k)' \/ Gcc(k) \in reaped' \/ Wrapper(k) \in reaped'
  BY DEF LostJobs, OutOfSight, Intact, Gcc, Wrapper
<1>3. \A k \in Job : (Gone(k) => Gone(k)') /\ (Gone(k)' => Gone(k) \/ k \in Active)
  <2>1. ASSUME NEW k \in Job, pc'[k] = pc[k], monitor'[k] = monitor[k],
               proc'[Gcc(k)] = proc[Gcc(k)], proc'[Wrapper(k)] = proc[Wrapper(k)]
        PROVE  Gone(k)' <=> Gone(k)
    BY <2>1 DEF GccMissing, WrapperMissing, Gcc, Wrapper
  <2>2. CASE UNCHANGED vars
    BY <2>1, <2>2 DEF vars, workerVars, childVars
  <2>3. ASSUME NEW i \in Job,
               StartJob(i) \/ WorkerNext(i) \/ GccEnd(i) \/ WrapperNext(i) \/ InnerNext(i),
               NEW k \in Job
        PROVE  (Gone(k) => Gone(k)') /\ (Gone(k)' => Gone(k) \/ k \in Active)
    <3>1. CASE k = i
      BY <2>3, <3>1, OwnSight
    <3>2. CASE SigPipe(i)
      BY <2>1, <3>2 DEF SigPipe, childVars
    <3>3. CASE k # i /\ ~SigPipe(i)
      <4>1. Frame(k)
        BY <2>3, <3>3, OthersFrame DEF Inv
      <4>2. QED BY <2>1, <4>1 DEF Frame, Gcc, Wrapper
    <3>4. QED BY <3>1, <3>2, <3>3
  <2>4. QED BY <2>2, <2>3 DEF Next
<1>4. reaped \subseteq reaped' /\ reaped' \ reaped \subseteq Unwaited
  BY TakenUnwaited
<1>5. LostJobs \subseteq Job /\ LostJobs' \subseteq Job
  BY DEF LostJobs
<1> HIDE DEF Gone
<1>6. QED BY <1>1, <1>2, <1>3, <1>4, <1>5, UnwaitedInHand
(* Grading's view of the jobs that do not act stays what it is. *)
LEMMA OthersUnseen ==
    ASSUME Inv, NEW i \in Job,
           \/ StartJob(i) \/ (WorkerNext(i) /\ ~SigPipe(i))
           \/ GccEnd(i) \/ WrapperNext(i) \/ InnerNext(i)
    PROVE  /\ JobPhase' = [JobPhase EXCEPT ![i] = JobPhase'[i]]
           /\ ProgramLife' = [ProgramLife EXCEPT ![i] = ProgramLife'[i]]
<1>1. \A k \in Job \ {i} : /\ pc'[k] = pc[k]
                           /\ proc'[Inner(k)] = proc[Inner(k)]
  BY OthersFrame DEF Inv, Frame, Inner
<1>2. \A k \in Job \ {i} : JobPhase'[k] = JobPhase[k]
  BY <1>1 DEF JobPhase
<1>3. \A k \in Job \ {i} : ProgramLife'[k] = ProgramLife[k]
  BY <1>1 DEF ProgramLife, Inner
<1>4. JobPhase' = [k \in Job |-> JobPhase'[k]] /\ JobPhase = [k \in Job |-> JobPhase[k]]
  BY DEF JobPhase
<1>5. /\ ProgramLife' = [k \in Job |-> ProgramLife'[k]]
      /\ ProgramLife = [k \in Job |-> ProgramLife[k]]
  BY DEF ProgramLife
<1>6. JobPhase' = [JobPhase EXCEPT ![i] = JobPhase'[i]]
  BY <1>2, <1>4
<1>7. ProgramLife' = [ProgramLife EXCEPT ![i] = ProgramLife'[i]]
  BY <1>3, <1>5
<1>8. QED BY <1>6, <1>7

(* A worker that is free takes a job. *)
LEMMA StartIsTake ==
    ASSUME Inv, NEW j \in Job, StartJob(j)
    PROVE  Grades!Take(j)
<1>1. Grades!Taken = Active
  BY DEF Grades!Taken, JobPhase, Active
<1>2. /\ Cardinality(Active) < NumThreads /\ pc[j] = "none" /\ pc'[j] = "fork_gcc"
      /\ UNCHANGED <<proc, grade>>
  BY DEF StartJob, WorkerStep, childVars, Inv, TypeOK
<1>3. JobPhase[j] = "new" /\ JobPhase'[j] = "taken"
  BY <1>2 DEF JobPhase
<1>4. UNCHANGED ProgramLife
  BY <1>2 DEF ProgramLife, Inner
<1>5. JobPhase' = [JobPhase EXCEPT ![j] = "taken"]
  BY <1>3, OthersUnseen
<1>6. Grades!Cardinality(Grades!Taken) < NumThreads
  BY <1>1, <1>2 DEF Grades!Cardinality, Cardinality
<1>7. QED BY <1>2, <1>3, <1>4, <1>5, <1>6 DEF Grades!Take

(* A grade is given by the worker in hand, and of a job in sight the grade *)
(* fits how the program ended.                                             *)
LEMMA FinishIsGrade ==
    ASSUME Inv, Inv', NEW j \in Job, ReadErr(j) \/ WaitWrapper(j)
    PROVE  Grades!Grade(j)
<1>1. PICK from \in {"read_err", "wait_wrapper"}, G \in {{"CE"}} \cup {GradesOf(s) : s \in Ended} :
        Finish(j, from, G)
  BY DEF ReadErr, WaitWrapper
<1>2. PICK g \in G : grade' = [grade EXCEPT ![j] = g]
  BY <1>1 DEF Finish
<1>3. g \in {"AC", "WA", "TLE", "RE", "CE"} /\ grade'[j] = g
  BY <1>1, <1>2 DEF GradesOf, Inv, TypeOK
<1>4. pc[j] \in {"read_err", "wait_wrapper"} /\ pc'[j] = "done" /\ UNCHANGED <<proc, monitor>>
  BY <1>1 DEF Finish, WorkerStep, childVars, Inv, TypeOK
<1>5. JobPhase[j] = "taken" /\ JobPhase'[j] = "done"
  BY <1>4 DEF JobPhase
<1>6. JobPhase' = [JobPhase EXCEPT ![j] = "done"]
  BY <1>5, OthersUnseen DEF WorkerNext, ReadErr, WaitWrapper, Finish, WorkerStep, SigPipe
<1>7. UNCHANGED ProgramLife
  BY <1>4 DEF ProgramLife, Inner
<1>8. ASSUME j \notin LostJobs  PROVE Grades!Deserves(j, g)
  <2>1. Intact(j)' /\ monitor[j] # "none"
    <3>1. Intact(j) /\ monitor[j] # "none"
      BY <1>8 DEF LostJobs, OutOfSight
    <3>2. Gcc(j) \notin reaped' /\ Wrapper(j) \notin reaped'
      <4>1. CASE ReadErr(j)
        BY <3>1, <4>1 DEF ReadErr, Intact
      <4>2. CASE WaitWrapper(j)
        <5>1. proc[Wrapper(j)] # "none" /\ Wrapper(j) \notin reaped
          BY <3>1, <1>4, <4>2 DEF Intact, WrapperMissing, Inv, JobInv, Compiled,
                                  WaitWrapper, Finish, WorkerStep
        <5>2. reaped' = reaped
          BY <4>2, <5>1 DEF WaitWrapper, WaitFor
        <5>3. QED BY <3>1, <5>2 DEF Intact
      <4>3. QED BY <4>1, <4>2
    <3>3. ~GccMissing(j)' /\ ~WrapperMissing(j)'
      BY <1>4, <3>1 DEF Intact, GccMissing, WrapperMissing, Gcc, Wrapper
    <3>4. QED BY <3>1, <3>2, <3>3 DEF Intact, Gcc, Wrapper
  <2>2. Judged(j)' /\ Wrapped(j)'
    BY DEF Inv, JobInv
  <2>3. CASE proc[Wrapper(j)] = "none"
    <3>1. g = "CE" /\ proc[Inner(j)] = "none"
      BY <1>3, <1>4, <2>1, <2>2, <2>3 DEF Judged, Wrapped, Wrapper, Inner, Gcc
    <3>2. QED BY <3>1 DEF Grades!Deserves, ProgramLife
  <2>4. CASE proc[Wrapper(j)] # "none"
    <3>1. /\ proc[Inner(j)] \in {"none"} \cup Ended
          /\ proc[Wrapper(j)] = "exit0" <=> proc[Inner(j)] = "exit0"
          /\ g \in GradesOf(proc[Wrapper(j)])
      BY <1>3, <1>4, <2>1, <2>2, <2>4 DEF Judged, Wrapper, Inner, Gcc, GradesOf
    <3>2. /\ proc[Inner(j)] = "exit0" => g \in {"AC", "WA"}
          /\ proc[Inner(j)] # "exit0" => g \in {"RE", "TLE"}
      BY <3>1 DEF GradesOf
    <3>3. ProgramLife[j] = proc[Inner(j)]
      BY <3>1 DEF ProgramLife, Ended
    <3>4. proc[Inner(j)] = "none" => g = "RE"
      BY <2>2, <2>4, <1>4, <3>1 DEF Wrapped, GradesOf, Wrapper, Inner, Ended
    <3>5. QED BY <3>1, <3>2, <3>3, <3>4 DEF Grades!Deserves
  <2>5. QED BY <2>3, <2>4
<1>9. QED BY <1>2, <1>3, <1>5, <1>6, <1>7, <1>8 DEF Grades!Grade

(* Pipes, forks and waits on the way to the grade are invisible. *)
LEMMA WorkIsUnseen ==
    ASSUME Inv, NEW j \in Job, WorkerNext(j), ~ReadErr(j), ~WaitWrapper(j)
    PROVE  UNCHANGED <<JobPhase, ProgramLife, grade>>
<1> USE DEF Inv, TypeOK
<1>0. Gcc(j) \in Child /\ Wrapper(j) \in Child
  BY ChildrenOf
<1>1. UNCHANGED grade
  BY DEF WorkerNext, ForkGcc, ForkGccFails, WaitGcc, OpenMonitor, ForkWrapper,
         ForkWrapperFails, SkipPid, ReadPid, SendStart, SigPipe
<1>2. \A k \in Job : proc'[Inner(k)] = proc[Inner(k)]
  <2>1. \A k \in Job : Inner(k) \in Child /\ Inner(k) # Gcc(j) /\ Inner(k) # Wrapper(j)
    BY DEF Inner, Gcc, Wrapper, Child
  <2>2. QED BY <1>0, <2>1
               DEF WorkerNext, ForkGcc, ForkGccFails, WaitGcc, OpenMonitor, ForkWrapper,
                   ForkWrapperFails, SkipPid, ReadPid, SendStart, SigPipe, childVars
<1>3. \/ pc' = pc
      \/ /\ pc[j] \notin {"none", "done"}
         /\ \E p \in WorkerPc \ {"none", "done"} : pc' = [pc EXCEPT ![j] = p]
  <2>1. CASE WaitGcc(j)
    BY <2>1 DEF WaitGcc, WorkerStep, WorkerPc
  <2>2. CASE ForkGcc(j) \/ ForkGccFails(j) \/ OpenMonitor(j)
    BY <2>2 DEF ForkGcc, ForkGccFails, OpenMonitor, WorkerStep, WorkerPc
  <2>3. CASE ForkWrapper(j) \/ ForkWrapperFails(j)
    BY <2>3 DEF ForkWrapper, ForkWrapperFails, WorkerStep, WorkerPc
  <2>4. CASE SkipPid(j) \/ ReadPid(j) \/ SendStart(j) \/ SigPipe(j)
    BY <2>4 DEF SkipPid, ReadPid, SendStart, SigPipe, WorkerStep, WorkerPc
  <2>5. QED BY <2>1, <2>2, <2>3, <2>4 DEF WorkerNext
<1>4. UNCHANGED JobPhase
  BY <1>3 DEF JobPhase
<1>5. UNCHANGED ProgramLife
  BY <1>2 DEF ProgramLife, Inner
<1>6. QED BY <1>1, <1>4, <1>5

(* So are gcc and the wrapper. *)
LEMMA ChildrenAreUnseen ==
    ASSUME Inv, NEW j \in Job, GccEnd(j) \/ WrapperNext(j)
    PROVE  UNCHANGED <<JobPhase, ProgramLife, grade>>
<1>1. UNCHANGED <<pc, grade>>
  BY DEF GccEnd, WrapperNext, WrapperFails, ForkInner, ReportPid, ReportPidFails,
         WrapperEnd, workerVars
<1>2. UNCHANGED JobPhase
  BY <1>1 DEF JobPhase
<1>3. ASSUME NEW k \in Job
      PROVE  \/ proc'[Inner(k)] = proc[Inner(k)]
             \/ proc[Inner(k)] = "none" /\ proc'[Inner(k)] = "forked"
  <2>1. /\ Inner(k) \in Child /\ Gcc(j) \in Child /\ Wrapper(j) \in Child
        /\ Inner(k) # Gcc(j) /\ Inner(k) # Wrapper(j) /\ Inner(j) \in Child
        /\ Wrapped(j)
    BY DEF Inner, Gcc, Wrapper, Child, Inv, JobInv
  <2>2. CASE ForkInner(j)
    <3>1. proc[Inner(j)] = "none"
      BY <2>1, <2>2 DEF ForkInner, Wrapped
    <3>2. QED BY <2>1, <2>2, <3>1 DEF ForkInner, Inv, TypeOK, Inner
  <2>3. CASE GccEnd(j) \/ WrapperFails(j) \/ ReportPid(j) \/ ReportPidFails(j)
             \/ WrapperEnd(j)
    BY <2>1, <2>3 DEF GccEnd, WrapperFails, ReportPid, ReportPidFails, WrapperEnd,
                      Inv, TypeOK
  <2>4. QED BY <2>2, <2>3 DEF WrapperNext
<1>4. UNCHANGED ProgramLife
  BY <1>3 DEF ProgramLife, Inner
<1>5. QED BY <1>1, <1>2, <1>4

(* A live program in sight of handle_client has a worker in wait for it.   *)
LEMMA ProgramHasWorker ==
    ASSUME Inv, NEW j \in Job, proc[Inner(j)] \in {"forked", "run"}
    PROVE  Grades!MayRun(j)
<1>1. Wrapped(j) /\ Compiled(j) /\ Judged(j)
  BY DEF Inv, JobInv
<1>2. proc[Wrapper(j)] # "none"
  BY <1>1 DEF Wrapped
<1>3. pc[j] # "none"
  BY <1>1, <1>2 DEF Compiled
<1>4. pc[j] = "done" => j \in LostJobs
  BY <1>1, <1>2 DEF Judged, LostJobs, OutOfSight, Ended
<1>5. QED BY <1>3, <1>4 DEF Grades!MayRun, JobPhase

(* The start signal, or the end of file in its place, runs the program. *)
LEMMA InnerStartIsRun ==
    ASSUME Inv, NEW j \in Job, InnerStart(j)
    PROVE  Grades!Run(j)
<1>1. /\ proc[Inner(j)] = "forked" /\ proc'[Inner(j)] = "run"
      /\ UNCHANGED <<pc, grade>>
  BY ChildrenOf DEF InnerStart, workerVars, Inv, TypeOK
<1>2. ProgramLife[j] = "none" /\ ProgramLife'[j] = "run"
  BY <1>1 DEF ProgramLife, Inner
<1>3. ProgramLife' = [ProgramLife EXCEPT ![j] = "run"]
  BY <1>2, OthersUnseen DEF InnerNext
<1>4. UNCHANGED JobPhase
  BY <1>1 DEF JobPhase
<1>5. Grades!MayRun(j)
  BY <1>1, ProgramHasWorker
<1>6. QED BY <1>1, <1>2, <1>3, <1>4, <1>5 DEF Grades!Run

(* A program that runs ends in one of the ways there are. *)
LEMMA InnerEndIsEnd ==
    ASSUME Inv, NEW j \in Job, InnerEnd(j)
    PROVE  Grades!End(j)
<1>1. /\ proc[Inner(j)] = "run" /\ proc'[Inner(j)] = Death(program[j])
      /\ program[j] # "wait" /\ UNCHANGED <<pc, grade>>
  BY ChildrenOf DEF InnerEnd, workerVars, Inv, TypeOK
<1>2. Death(program[j]) \in Ended
  <2>1. program[j] \in {"unknown", "fail"} \cup Program /\ program[j] # "unknown"
    BY <1>1 DEF Inv, TypeOK, JobInv, Wrapped
  <2>2. QED BY <1>1, <2>1, DeathEnds DEF Ended
<1>3. ProgramLife[j] = "run" /\ ProgramLife'[j] = Death(program[j])
  BY <1>1, <1>2 DEF ProgramLife, Inner, Ended
<1>4. ProgramLife' = [ProgramLife EXCEPT ![j] = Death(program[j])]
  BY <1>3, OthersUnseen DEF InnerNext
<1>5. UNCHANGED JobPhase
  BY <1>1 DEF JobPhase
<1>6. Grades!MayRun(j)
  BY <1>1, ProgramHasWorker
<1>7. QED BY <1>1, <1>2, <1>3, <1>4, <1>5, <1>6 DEF Grades!End

(* The program starts as Grading's does, with nothing lost. *)
LEMMA GradingInit == Init => Grades!Init
<1> SUFFICES ASSUME Init PROVE Grades!Init
  OBVIOUS
<1>1. JobPhase = [j \in Job |-> "new"] /\ grade = [j \in Job |-> "none"]
  BY DEF Init, JobPhase
<1>2. ProgramLife = [j \in Job |-> "none"]
  BY ChildrenOf DEF Init, ProgramLife
<1>3. LostJobs = {}
  BY DEF Init, LostJobs, OutOfSight, Intact, GccMissing, WrapperMissing
<1>4. QED BY <1>1, <1>2, <1>3 DEF Grades!Init

(* Every step is one of Grading or none. *)
LEMMA GradingStep ==
    ASSUME Inv, Inv', [Next]_vars
    PROVE  [Grades!Next]_(Grades!gradingVars)
<1>1. Grades!Lose
  <2>1. Grades!Taken = Active
    BY DEF Grades!Taken, JobPhase, Active
  <2>2. QED BY <2>1, SightLost DEF Grades!Lose
<1>2. CASE UNCHANGED vars
  <2>1. UNCHANGED <<pc, proc, grade>>
    BY <1>2 DEF vars, workerVars, childVars
  <2>2. UNCHANGED <<JobPhase, ProgramLife, grade>>
    BY <2>1 DEF JobPhase, ProgramLife, Inner
  <2>3. QED BY <1>1, <2>2 DEF Grades!Next
<1>3. ASSUME NEW j \in Job,
             StartJob(j) \/ WorkerNext(j) \/ GccEnd(j) \/ WrapperNext(j) \/ InnerNext(j)
      PROVE  Grades!Next
  <2>1. Grades!Step(j) \/ UNCHANGED <<JobPhase, ProgramLife, grade>>
    <3>1. CASE StartJob(j)
      BY <3>1, StartIsTake DEF Grades!Step
    <3>2. CASE ReadErr(j) \/ WaitWrapper(j)
      BY <3>2, FinishIsGrade DEF Grades!Step
    <3>3. CASE WorkerNext(j) /\ ~ReadErr(j) /\ ~WaitWrapper(j)
      BY <3>3, WorkIsUnseen
    <3>4. CASE GccEnd(j) \/ WrapperNext(j)
      BY <3>4, ChildrenAreUnseen
    <3>5. CASE InnerNext(j)
      BY <3>5, InnerStartIsRun, InnerEndIsEnd DEF InnerNext, Grades!Step
    <3>6. QED BY <1>3, <3>1, <3>2, <3>3, <3>4, <3>5
  <2>2. QED BY <1>1, <2>1 DEF Grades!Next
<1>4. QED BY <1>2, <1>3 DEF Next

(* The sandbox implements Grading: whatever forks fail and however pipe    *)
(* ends are inherited, a program runs at most once, under a worker that    *)
(* waits for it as long as handle_client has it in sight, and is graded    *)
(* once, by the way it ended.                                              *)
THEOREM GradingImplemented == Spec => GradingSpec
BY GradingInit, GradingStep, SandboxInvAlways, PTL DEF Spec, GradingSpec, Grades!Spec
=============================================================================
