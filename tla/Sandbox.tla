------------------------------- MODULE Sandbox -------------------------------
(***************************************************************************)
(* How handle_client of server/server.c compiles and runs a submission:    *)
(* gcc, a wrapper process and, inside new namespaces, the submitted        *)
(* program, joined to their worker by three pipes.                         *)
(*                                                                         *)
(* The workers are threads of one process.  No pipe is close-on-exec, so a *)
(* fork by one worker copies the pipe ends of every other worker's job as  *)
(* well, and an end lives as long as any process holds it.  The model      *)
(* keeps, for the server and for each child, the set of ends it holds.     *)
(* Jobs are numbered apart, so the pipes of different jobs are different.  *)
(*                                                                         *)
(* fork may fail in a worker.  Its result, -1, is then waited for, and to  *)
(* waitpid -1 means any child of the process: the worker takes the status  *)
(* of another job's child, whose own worker waits in vain.                 *)
(***************************************************************************)
EXTENDS Integers, FiniteSets

CONSTANTS
    Job,         \* submissions
    NumThreads,  \* NUM_THREADS, worker threads
    Output,      \* what gcc prints: "none", "fits" (the pipe), "big"
    Program,     \* what the program does: "ok", "fail", "crash", "loop", "wait"
    Monitors,    \* how the BPF objects come up: "none", "failed", "loaded"
    MaxForkFails \* bound: forks that fail in the workers

ASSUME SandboxAssumption ==
    /\ IsFiniteSet(Job)
    /\ NumThreads \in Nat \ {0}
    /\ Output \subseteq {"none", "fits", "big"}
    /\ Program \subseteq {"ok", "fail", "crash", "loop", "wait"}
    /\ Monitors \subseteq {"none", "failed", "loaded"}
    /\ MaxForkFails \in Nat

VARIABLES
    pc,          \* where the worker of each job is in handle_client
    grade,       \* final_res of each job, "none" until it is known
    server_up,   \* the server process is alive
    server_fds,  \* pipe ends the server holds
    fds,         \* pipe ends each child holds
    proc,        \* state of each child: not forked, running, how it ended
    output,      \* what gcc prints
    program,     \* what the program does, "unknown" until it starts
    monitor,     \* skel: "closed" before it is opened
    tracked,     \* jobs whose program is in tracked_pids
    pid_sent,    \* jobs whose wrapper has written the program's pid
    go,          \* jobs whose worker has written the start signal
    reaped       \* children whose status another job's worker has taken

workerVars == <<pc, grade, server_up, server_fds, monitor, tracked, go, reaped>>
childVars  == <<fds, proc, program, pid_sent>>
vars == <<workerVars, childVars, output>>

(* How a child may have ended: by exit or by signal. *)
Ended == {"exit0", "exit1", "SIGSEGV", "SIGKILL", "SIGXCPU", "SIGPIPE"}

(* Reading and writing ends of pipefd, run_sync_pipe and pid_report_pipe. *)
EndName == {"err_r", "err_w", "sync_r", "sync_w", "pid_r", "pid_w"}
End     == Job \X EndName
Child   == Job \X {"gcc", "wrapper", "inner"}

Gcc(j)     == <<j, "gcc">>
Wrapper(j) == <<j, "wrapper">>
Inner(j)   == <<j, "inner">>

EndsOf(j, names) == {<<j, n>> : n \in names}

(* Some process holds the end, so that a reader of the other end waits and *)
(* a writer is not killed.                                                 *)
Held(e) == e \in server_fds \/ \E c \in Child : e \in fds[c]

(* Jobs a worker thread is busy with. *)
Active == {j \in Job : pc[j] \notin {"none", "done"}}

(* Jobs past a fork that made no child. *)
GccMissing(j) == pc[j] \notin {"none", "fork_gcc"} /\ proc[Gcc(j)] = "none"

WrapperMissing(j) ==
    /\ monitor[j] # "closed" /\ pc[j] # "fork_wrapper"
    /\ proc[Wrapper(j)] = "none"

Missing == {c \in Child : \/ c = Gcc(c[1]) /\ GccMissing(c[1])
                          \/ c = Wrapper(c[1]) /\ WrapperMissing(c[1])}

(* The server's own children it has not waited for. *)
Unwaited ==
    {c \in Child \ reaped :
        /\ proc[c] # "none"
        /\ \/ c = Gcc(c[1]) /\ pc[c[1]] = "wait_gcc"
           \/ c = Wrapper(c[1]) /\ pc[c[1]] # "done"}

Init ==
    /\ pc = [j \in Job |-> "none"]
    /\ grade = [j \in Job |-> "none"]
    /\ server_up = TRUE
    /\ server_fds = {}
    /\ fds = [c \in Child |-> {}]
    /\ proc = [c \in Child |-> "none"]
    /\ output = [j \in Job |-> "none"]
    /\ program = [j \in Job |-> "unknown"]
    /\ monitor = [j \in Job |-> "closed"]
    /\ tracked = {}
    /\ pid_sent = {}
    /\ go = {}
    /\ reaped = {}

-----------------------------------------------------------------------------
(* From an exit status to a grade.                                         *)

timeout_seconds == 2

(* The kernel at the CPU limit: SIGXCPU when the soft limit is reached,    *)
(* but SIGKILL when the hard one is.                                       *)
CpuLimitSignal(cur, max) == IF cur < max THEN "SIGXCPU" ELSE "SIGKILL"

(* How a program that does not wait for ever ends; both limits are set to  *)
(* timeout_seconds.                                                        *)
Death(p) ==
    CASE p = "ok"    -> "exit0"
      [] p = "fail"  -> "exit1"
      [] p = "crash" -> "SIGSEGV"
      [] p = "loop"  -> CpuLimitSignal(timeout_seconds, timeout_seconds)

(* The grades wait4's status allows.  SIGALRM, which would be TLE as well, *)
(* is sent by nobody; every other signal is RE; an exit status of 0 is     *)
(* decided by the comparison of the output.                                *)
GradesOf(status) ==
    IF status = "SIGXCPU" THEN {"TLE"}
    ELSE IF status = "exit0" THEN {"AC", "WA"} ELSE {"RE"}

-----------------------------------------------------------------------------
(* The worker thread.                                                      *)

WorkerStep(j, from, to) ==
    /\ server_up
    /\ pc[j] = from
    /\ pc' = [pc EXCEPT ![j] = to]

(* A worker has received the source: pipefd is made. *)
StartJob(j) ==
    /\ Cardinality(Active) < NumThreads
    /\ WorkerStep(j, "none", "fork_gcc")
    /\ server_fds' = server_fds \cup EndsOf(j, {"err_r", "err_w"})
    /\ UNCHANGED <<grade, server_up, monitor, tracked, go, reaped, childVars, output>>

(* gcc gets a copy of every end the server holds, the reading end of its   *)
(* own pipe closed; the worker closes the writing end.                     *)
ForkGcc(j) ==
    /\ WorkerStep(j, "fork_gcc", "wait_gcc")
    /\ proc' = [proc EXCEPT ![Gcc(j)] = "run"]
    /\ fds' = [fds EXCEPT ![Gcc(j)] = server_fds \ EndsOf(j, {"err_r"})]
    /\ server_fds' = server_fds \ EndsOf(j, {"err_w"})
    /\ \E o \in Output : output' = [output EXCEPT ![j] = o]
    /\ UNCHANGED <<grade, server_up, monitor, tracked, go, reaped, program, pid_sent>>

(* No child comes of the fork; the worker goes on as if one had. *)
ForkGccFails(j) ==
    /\ WorkerStep(j, "fork_gcc", "wait_gcc")
    /\ Cardinality(Missing) < MaxForkFails
    /\ server_fds' = server_fds \ EndsOf(j, {"err_w"})
    /\ UNCHANGED <<grade, server_up, monitor, tracked, go, reaped, childVars, output>>

(* A wait for child c brings a status: c's own, if nobody else has taken   *)
(* it; that of any child that has ended, if c was never made; and one of   *)
(* unset, whatever the variable held before, if there is no child to wait  *)
(* for any more.                                                           *)
WaitFor(c, status, unset) ==
    \/ /\ proc[c] \in Ended /\ c \notin reaped
       /\ status = proc[c]
       /\ UNCHANGED reaped
    \/ /\ proc[c] = "none"
       /\ \E k \in Unwaited :
             /\ proc[k] \in Ended
             /\ status = proc[k]
             /\ reaped' = reaped \cup {k}
    \/ /\ c \in reaped \/ (proc[c] = "none" /\ Unwaited = {})
       /\ status \in unset
       /\ UNCHANGED reaped

(* waitpid returns; only then is gcc's output looked at, if at all. *)
WaitGcc(j) ==
    /\ \E status \in Ended :
         /\ WorkerStep(j, "wait_gcc",
                       IF status = "exit0" THEN "open_monitor" ELSE "read_err")
         /\ WaitFor(Gcc(j), status, {"exit0", "exit1"})
    /\ UNCHANGED <<grade, server_up, server_fds, monitor, tracked, go, childVars,
                   output>>

(* The end of handle_client: pipefd's reading end is closed. *)
Finish(j, from, grades) ==
    /\ WorkerStep(j, from, "done")
    /\ \E g \in grades : grade' = [grade EXCEPT ![j] = g]
    /\ server_fds' = server_fds \ EndsOf(j, {"err_r"})
    /\ UNCHANGED <<server_up, monitor, tracked, go, childVars, output>>

(* A compile error: one read, which waits for output or for the last       *)
(* writing end to be closed.                                               *)
ReadErr(j) ==
    /\ output[j] # "none" \/ ~Held(<<j, "err_w">>)
    /\ Finish(j, "read_err", {"CE"})
    /\ UNCHANGED reaped

(* The BPF objects are opened and loaded, or not; run_sync_pipe and        *)
(* pid_report_pipe are made.                                               *)
OpenMonitor(j) ==
    /\ WorkerStep(j, "open_monitor", "fork_wrapper")
    /\ \E m \in Monitors : monitor' = [monitor EXCEPT ![j] = m]
    /\ server_fds' =
         server_fds \cup EndsOf(j, {"sync_r", "sync_w", "pid_r", "pid_w"})
    /\ UNCHANGED <<grade, server_up, tracked, go, reaped, childVars, output>>

(* Mutant: neither side closes the ends that belong to the other. *)
ForkWrapperKeepsEnds(j) ==
    /\ WorkerStep(j, "fork_wrapper", "read_pid")
    /\ proc' = [proc EXCEPT ![Wrapper(j)] = "forked"]
    /\ fds' = [fds EXCEPT ![Wrapper(j)] = server_fds]
    /\ UNCHANGED <<grade, server_up, server_fds, monitor, tracked, go, reaped,
                   program, pid_sent, output>>

(* The wrapper closes the two ends that are the worker's, the worker the   *)
(* two that are the children's.                                            *)
ForkWrapper(j) ==
    /\ WorkerStep(j, "fork_wrapper", "read_pid")
    /\ proc' = [proc EXCEPT ![Wrapper(j)] = "forked"]
    /\ fds' = [fds EXCEPT ![Wrapper(j)] =
                 server_fds \ EndsOf(j, {"sync_w", "pid_r"})]
    /\ server_fds' = server_fds \ EndsOf(j, {"sync_r", "pid_w"})
    /\ UNCHANGED <<grade, server_up, monitor, tracked, go, reaped, program,
                   pid_sent, output>>

(* No child comes of the fork; both sides' ends are closed all the same. *)
ForkWrapperFails(j) ==
    /\ WorkerStep(j, "fork_wrapper", "read_pid")
    /\ Cardinality(Missing) < MaxForkFails
    /\ server_fds' = server_fds \ EndsOf(j, {"sync_r", "pid_w"})
    /\ UNCHANGED <<grade, server_up, monitor, tracked, go, reaped, childVars, output>>

(* Without BPF objects the pid is not waited for. *)
SkipPid(j) ==
    /\ monitor[j] = "none"
    /\ WorkerStep(j, "read_pid", "start")
    /\ server_fds' = server_fds \ EndsOf(j, {"pid_r"})
    /\ UNCHANGED <<grade, server_up, monitor, tracked, go, reaped, childVars, output>>

(* Mutant: the worker does not wait for the pid. *)
ReadPidAtOnce(j) ==
    /\ monitor[j] # "none"
    /\ WorkerStep(j, "read_pid", "start")
    /\ tracked' = IF j \in pid_sent /\ monitor[j] = "loaded"
                  THEN tracked \cup {j} ELSE tracked
    /\ server_fds' = server_fds \ EndsOf(j, {"pid_r"})
    /\ UNCHANGED <<grade, server_up, monitor, go, reaped, childVars, output>>

(* The program's pid, or the end of file, arrives; the pid is entered into *)
(* tracked_pids.                                                           *)
ReadPid(j) ==
    /\ monitor[j] # "none"
    /\ j \in pid_sent \/ ~Held(<<j, "pid_w">>)
    /\ WorkerStep(j, "read_pid", "start")
    /\ tracked' = IF j \in pid_sent /\ monitor[j] = "loaded"
                  THEN tracked \cup {j} ELSE tracked
    /\ server_fds' = server_fds \ EndsOf(j, {"pid_r"})
    /\ UNCHANGED <<grade, server_up, monitor, go, reaped, childVars, output>>

(* Mutant: the writing end is left open. *)
SendStartKeepsEnd(j) ==
    /\ Held(<<j, "sync_r">>)
    /\ WorkerStep(j, "start", "wait_wrapper")
    /\ go' = go \cup {j}
    /\ UNCHANGED <<grade, server_up, server_fds, monitor, tracked, reaped,
                   childVars, output>>

(* The start signal is written and the end closed. *)
SendStart(j) ==
    /\ Held(<<j, "sync_r">>)
    /\ WorkerStep(j, "start", "wait_wrapper")
    /\ go' = go \cup {j}
    /\ server_fds' = server_fds \ EndsOf(j, {"sync_w"})
    /\ UNCHANGED <<grade, server_up, monitor, tracked, reaped, childVars, output>>

(* Nobody is left to read it: SIGPIPE, which the server neither ignores    *)
(* nor handles, ends the process with all its threads.                     *)
SigPipe(j) ==
    /\ ~Held(<<j, "sync_r">>)
    /\ server_up /\ pc[j] = "start"
    /\ server_up' = FALSE
    /\ server_fds' = {}
    /\ UNCHANGED <<pc, grade, monitor, tracked, go, reaped, childVars, output>>

(* wait4 returns, the BPF objects are destroyed, the grade is decided.  A  *)
(* wait that fails leaves the status of gcc's, an exit with 0.             *)
WaitWrapper(j) ==
    \E status \in Ended :
        /\ Finish(j, "wait_wrapper", GradesOf(status))
        /\ WaitFor(Wrapper(j), status, {"exit0"})

-----------------------------------------------------------------------------
(* The children.                                                           *)

(* gcc ends when all it has to print is in the pipe; a reader there is     *)
(* none of before it has ended, so a long list of errors blocks it.        *)
GccEnd(j) ==
    /\ proc[Gcc(j)] = "run"
    /\ \/ /\ output[j] # "big"
          /\ \E st \in {"exit0", "exit1"} : proc' = [proc EXCEPT ![Gcc(j)] = st]
       \/ /\ output[j] = "big" /\ ~Held(<<j, "err_r">>)
          /\ proc' = [proc EXCEPT ![Gcc(j)] = "SIGPIPE"]
    /\ fds' = [fds EXCEPT ![Gcc(j)] = {}]
    /\ UNCHANGED <<workerVars, output, program, pid_sent>>

(* unshare or fork fails and the wrapper exits. *)
WrapperFails(j) ==
    /\ proc[Wrapper(j)] = "forked"
    /\ proc' = [proc EXCEPT ![Wrapper(j)] = "exit1"]
    /\ fds' = [fds EXCEPT ![Wrapper(j)] = {}]
    /\ UNCHANGED <<workerVars, output, program, pid_sent>>

(* Mutant: the wrapper closes its copy of sync_r before it forks. *)
ForkInnerAfterClose(j) ==
    /\ proc[Wrapper(j)] = "forked"
    /\ proc' = [proc EXCEPT ![Wrapper(j)] = "run", ![Inner(j)] = "forked"]
    /\ fds' = [fds EXCEPT ![Wrapper(j)] = @ \ EndsOf(j, {"sync_r"}),
                          ![Inner(j)] = fds[Wrapper(j)]
                                          \ EndsOf(j, {"sync_r", "pid_w"})]
    /\ UNCHANGED <<workerVars, output, program, pid_sent>>

(* The inner process is forked and waits for the start signal. *)
ForkInner(j) ==
    /\ proc[Wrapper(j)] = "forked"
    /\ proc' = [proc EXCEPT ![Wrapper(j)] = "run", ![Inner(j)] = "forked"]
    /\ fds' = [fds EXCEPT ![Inner(j)] = fds[Wrapper(j)] \ EndsOf(j, {"pid_w"})]
    /\ UNCHANGED <<workerVars, output, program, pid_sent>>

(* The wrapper closes its copy of sync_r and reports the pid. *)
ReportPid(j) ==
    /\ proc[Wrapper(j)] = "run"
    /\ Held(<<j, "pid_r">>)
    /\ proc' = [proc EXCEPT ![Wrapper(j)] = "wait"]
    /\ fds' = [fds EXCEPT ![Wrapper(j)] = @ \ EndsOf(j, {"sync_r", "pid_w"})]
    /\ pid_sent' = pid_sent \cup {j}
    /\ UNCHANGED <<workerVars, output, program>>

(* Nobody reads the pid: the wrapper is killed by SIGPIPE, the program not. *)
ReportPidFails(j) ==
    /\ proc[Wrapper(j)] = "run"
    /\ ~Held(<<j, "pid_r">>)
    /\ proc' = [proc EXCEPT ![Wrapper(j)] = "SIGPIPE"]
    /\ fds' = [fds EXCEPT ![Wrapper(j)] = {}]
    /\ UNCHANGED <<workerVars, output, program, pid_sent>>

(* The start signal, or the end of file, arrives: the program runs, or, if *)
(* gcc has not made it, execv fails.                                       *)
InnerStart(j) ==
    /\ proc[Inner(j)] = "forked"
    /\ j \in go \/ ~Held(<<j, "sync_w">>)
    /\ proc' = [proc EXCEPT ![Inner(j)] = "run"]
    /\ fds' = [fds EXCEPT ![Inner(j)] = @ \ EndsOf(j, {"sync_r"})]
    /\ \E p \in IF proc[Gcc(j)] = "exit0" THEN Program ELSE {"fail"} :
         program' = [program EXCEPT ![j] = p]
    /\ UNCHANGED <<workerVars, output, pid_sent>>

(* The program ends, unless it waits for something without using CPU time. *)
InnerEnd(j) ==
    /\ proc[Inner(j)] = "run"
    /\ program[j] # "wait"
    /\ proc' = [proc EXCEPT ![Inner(j)] = Death(program[j])]
    /\ fds' = [fds EXCEPT ![Inner(j)] = {}]
    /\ UNCHANGED <<workerVars, output, program, pid_sent>>

(* Mutant: a signal that ended the program is not passed on. *)
WrapperEndDropsSignal(j) ==
    /\ proc[Wrapper(j)] = "wait" /\ proc[Inner(j)] \in Ended
    /\ proc' = [proc EXCEPT ![Wrapper(j)] =
                  IF proc[Inner(j)] = "exit1" THEN "exit1" ELSE "exit0"]
    /\ fds' = [fds EXCEPT ![Wrapper(j)] = {}]
    /\ UNCHANGED <<workerVars, output, program, pid_sent>>

(* Mutant: the wrapper does not wait, and exits with 0. *)
WrapperEndAtOnce(j) ==
    /\ proc[Wrapper(j)] = "wait"
    /\ proc' = [proc EXCEPT ![Wrapper(j)] = "exit0"]
    /\ fds' = [fds EXCEPT ![Wrapper(j)] = {}]
    /\ UNCHANGED <<workerVars, output, program, pid_sent>>

(* The wrapper ends the way the program did, by exit status or by signal. *)
WrapperEnd(j) ==
    /\ proc[Wrapper(j)] = "wait" /\ proc[Inner(j)] \in Ended
    /\ proc' = [proc EXCEPT ![Wrapper(j)] = proc[Inner(j)]]
    /\ fds' = [fds EXCEPT ![Wrapper(j)] = {}]
    /\ UNCHANGED <<workerVars, output, program, pid_sent>>

-----------------------------------------------------------------------------
(* What a worker does without being asked to take another job. *)
WorkerNext(j) ==
    \/ ForkGcc(j) \/ ForkGccFails(j) \/ WaitGcc(j) \/ ReadErr(j)
    \/ OpenMonitor(j) \/ ForkWrapper(j) \/ ForkWrapperFails(j)
    \/ SkipPid(j) \/ ReadPid(j) \/ SendStart(j) \/ SigPipe(j) \/ WaitWrapper(j)

WrapperNext(j) ==
    \/ WrapperFails(j) \/ ForkInner(j) \/ ReportPid(j) \/ ReportPidFails(j)
    \/ WrapperEnd(j)

InnerNext(j) == InnerStart(j) \/ InnerEnd(j)

Next ==
    \E j \in Job :
        StartJob(j) \/ WorkerNext(j) \/ GccEnd(j) \/ WrapperNext(j) \/ InnerNext(j)

(* Every thread and process that is not blocked goes on. *)
Fairness ==
    \A j \in Job :
        /\ WF_vars(WorkerNext(j)) /\ WF_vars(GccEnd(j))
        /\ WF_vars(WrapperNext(j)) /\ WF_vars(InnerNext(j))

Spec == Init /\ [][Next]_vars /\ Fairness

-----------------------------------------------------------------------------
(* Properties.                                                             *)

WorkerPc == {"none", "fork_gcc", "wait_gcc", "read_err", "open_monitor",
             "fork_wrapper", "read_pid", "start", "wait_wrapper", "done"}

(* The types of the variables. *)
TypeOK ==
    /\ pc \in [Job -> WorkerPc]
    /\ grade \in [Job -> {"none", "AC", "WA", "TLE", "RE", "CE"}]
    /\ server_up \in BOOLEAN
    /\ server_fds \subseteq End
    /\ fds \in [Child -> SUBSET End]
    /\ proc \in [Child -> {"none", "forked", "run", "wait"} \cup Ended]
    /\ output \in [Job -> {"none"} \cup Output]
    /\ program \in [Job -> {"unknown", "fail"} \cup Program]
    /\ monitor \in [Job -> {"closed"} \cup Monitors]
    /\ tracked \subseteq Job
    /\ pid_sent \subseteq Job
    /\ go \subseteq Job
    /\ reaped \subseteq Child

(* A submitted program runs only once it is registered with the monitor,   *)
(* if there is one: in handle_client the read of run_sync_pipe must not    *)
(* return early, by an end of file, while the server lives.                *)
RegisteredBeforeStart ==
    \A j \in Job :
        server_up /\ monitor[j] = "loaded" /\ program[j] # "unknown"
            => j \in tracked

(* The server holds pipe ends of jobs in hand only: handle_client closes   *)
(* what it opened on every path, so a long session does not run out of     *)
(* descriptors.                                                            *)
DescriptorsOfJobsInHand ==
    \A e \in server_fds : e[1] \in Active

(* No fork of the job failed, and no child of it was taken by a worker     *)
(* whose fork did.                                                         *)
Intact(j) ==
    /\ ~GccMissing(j) /\ ~WrapperMissing(j)
    /\ Gcc(j) \notin reaped /\ Wrapper(j) \notin reaped

(* When handle_client has decided the grade, the children of the job are   *)
(* gone, and the grade says what became of them: CE if gcc failed, AC or   *)
(* WA only if the program itself ended with 0.  Without BPF objects this   *)
(* is not so, as the wrapper may be killed while the program runs on; and  *)
(* a fork that fails in a worker can cost two jobs their grade, its own    *)
(* and that of the child it waits for instead.                             *)
GradeIsDeserved ==
    \A j \in Job :
        pc[j] = "done" /\ monitor[j] # "none" /\ Intact(j) =>
            /\ \A k \in {"gcc", "wrapper", "inner"} :
                 proc[<<j, k>>] \in {"none"} \cup Ended
            /\ grade[j] = "CE" <=> proc[Gcc(j)] # "exit0"
            /\ grade[j] \in {"AC", "WA"} <=> proc[Inner(j)] = "exit0"

(* No submission can end the server: the write of the start signal finds   *)
(* no reader only if the wrapper was not made, or could not make its       *)
(* namespaces or fork.                                                     *)
ServerSurvivesPrograms ==
    ~server_up => \E j \in Job :
        \/ WrapperMissing(j)
        \/ proc[Wrapper(j)] = "exit1" /\ proc[Inner(j)] = "none"

(* A program that uses up its CPU time is graded TLE. *)
LoopIsTLE ==
    \A j \in Job : pc[j] = "done" /\ program[j] = "loop" => grade[j] = "TLE"

(* handle_client has lost sight of the job: without BPF objects its        *)
(* wrapper may be killed, and after a fork that failed a wait may be for   *)
(* another job's child.                                                    *)
OutOfSight(j) == monitor[j] = "none" \/ ~Intact(j)

(* What Grading sees of a job: its worker, its program, and whether        *)
(* handle_client has it in sight.                                          *)
JobPhase == [j \in Job |-> IF pc[j] = "none" THEN "new"
                           ELSE IF pc[j] = "done" THEN "done" ELSE "taken"]

ProgramLife == [j \in Job |-> IF proc[Inner(j)] \in {"none", "forked"}
                              THEN "none" ELSE proc[Inner(j)]]

LostJobs == {j \in Job : OutOfSight(j)}

(* Handshake, pipes and inherited ends are an implementation of Grading:   *)
(* of every job in sight of handle_client the program runs at most once,   *)
(* under a worker that waits for it, and is graded once, by its end; and a *)
(* job is lost sight of only while in hand.                                *)
Grades == INSTANCE Grading
            WITH phase <- JobPhase, life <- ProgramLife, lost <- LostJobs

GradingSpec == Grades!Spec

(* The job never ends by itself: its program waits, or gcc has more to     *)
(* print than the pipe holds.                                              *)
Hangs(j) == program[j] = "wait" \/ output[j] = "big"

(* The worker waits for the end of file of a pipe its own child left       *)
(* silently, or for any child because its own was not made or was taken: a *)
(* copy of the end in a child of another job, or that child, holds it up.  *)
Silent(j) ==
    \/ ~Intact(j)
    \/ proc[Gcc(j)] \in Ended \ {"exit0"} /\ output[j] = "none"
    \/ proc[Wrapper(j)] = "exit1" /\ proc[Inner(j)] = "none"

(* handle_client comes to an end, unless the job itself hangs, or the job  *)
(* failed silently and another one hangs that holds a copy of its pipe.    *)
JobEnds ==
    \A j \in Job :
        j \in Active ~>
            \/ j \notin Active
            \/ ~server_up
            \/ Hangs(j)
            \/ Silent(j) /\ \E k \in Job \ {j} : Hangs(k)
=============================================================================
