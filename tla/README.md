# A TLA+ model of the Mini CI grading server

The program is a grading service for a programming course. Students submit C
files over TCP; a server compiles and runs them in a sandbox, compares the
output with the week's answer file, keeps a tracker of who has solved the
week's problem, and appends every result to the week's CSV file. An
administrator switches the week, sets the class size and watches the tracker
from a dashboard over a UNIX socket.

This directory models what that program does between its threads: the modules
are translated from the C sources, model-checked with TLC on small instances,
and the central invariants are proved with TLAPS for every size.

Source references below are relative to the repository (`server/server.c:378`
is line 378 of `src/server/server.c`).

## 1. Inventory

### Parts, state, operations

| Part | State | Operations | Modelled in |
|---|---|---|---|
| Shared grading context, `server/server_ctx.c` | `g_ctx`: `current_hw`, `ans_path`, `submit_dir` under `hw_lock`; `students`, `submitted_count`, `total_students` under `tracker_lock`; `csv` under `csv_lock`; `dist_paused` under `state_lock` | `ctx_init`, `ctx_set_hw`, `ctx_record_submission`, `ctx_write_csv` | `ServerCtx` |
| Worker, `handle_client` and `build_and_send_result` in `server/server.c` | its copy of the week, grade, work directory, child processes, pipes | receive, compile, run, compare, record, answer | `ServerCtx` (context side), `Sandbox` (processes and pipes) |
| Job queue, `server/server.c:127-130,267-284` | `job_queue`, `q_head`, `q_tail`, `q_count`, `q_mutex`, `q_cond` | `enqueue_job`, `dequeue_job` | `JobQueue` |
| Main thread, `server/server.c:1154-1346` | epoll set | accept a client, accept and serve an administrator (`handle_ctl_client`) | `JobQueue` (accept of students), `CtlChannel` (its loop, administrators), `ServerCtx` (what the commands do to the context) |
| File distribution, `server/server.c:439-643` and `client/client.c:458-686` | position in the directory and in the file, running CRC | META, CHUNK, END, DONE, ERROR packets | `FilePull` |
| Monitor, `server/monitor.bpf.c` | `tracked_pids`, `blocked_syscalls`, ring buffer `events` | hooks on system call, fork, exit | not modelled; `Sandbox` has the registration of a program |
| Student client, `client/client.c` | `results[]`, modification times | submit, pull, edit and submit again | `FilePull` (pull), `Client` (the rest) |
| Dashboard, `minici-tui.c` | `g_snap` under `snap_mu`, the eventfd `g_poll_efd`, what the windows show, the menu | poll every second, draw, send commands, apply a week, quit | `CtlChannel` (`ipc_send`), `Dashboard` |
| Command line tool, `minici-ctl.c` | one socket | send a command, print the answer | `CtlChannel`, `Dashboard` |
| Submission on save, `inotify_watch.c` | watches, a debounce timer, the running client | arm, run the client, wait for it | `Watch`, with `Client` inside |
| Screen and log of the server | windows, `thread_status`, `thread_task` | draw | not modelled: output only |
| First version (`server.c`, `client.c`, `protocol.h` in the root), scripts, test drivers, `backup/`, generated headers | | | not modelled: not built, or outside the program |

### How the parts interact

* The main thread and four worker threads (`NUM_THREADS`) share `g_ctx` and the
  job queue. The main thread is the only one that calls `ctx_set_hw`, and it
  serves one administrator at a time.
* Clients and server exchange packets over TCP, one connection per submission
  or pull. A worker keeps its connection until it is closed; nothing limits
  how long a client takes.
* The dashboard and `minici-ctl` exchange one request and one response per
  connection over `/tmp/minici.sock`. The two speak different protocols: the
  server's is `IpcRequest`, a fixed-size struct; `minici-ctl` sends a line of
  text.
* The watcher runs the client as a child and waits for it; the terminal, and
  with it Ctrl-C, belongs to both.
* The two threads of a dashboard share the snapshot under `snap_mu` and an
  eventfd that says there is something new to draw.
* A worker and its sandboxed program communicate through two pipes, the exit
  status and the monitor's maps.

### What is hard

* **Three locks, one switch.** `ctx_set_hw` changes week, tracker and CSV file
  under three locks one after the other, while workers hold `hw_lock` for
  reading and take the other two inside it.
* **A week that is copied early and used late.** A worker copies the week when
  a connection is taken, reads the answer file's path when the program has
  ended, and compares the week again when it records.
* **Lost and torn information.** CSV files that cannot be opened or written,
  headers that are not written, snapshots put together under four separate
  critical sections.
* **Bounded structures without a check.** `enqueue_job` never looks at
  `MAX_QUEUE`; the 16-bit `submitted_count` is incremented unchecked.
* **Waiting.** `recv` without a time limit, `waitpid` before the pipe is read,
  `wait4` without a time limit, `MSG_WAITALL` on the main thread.
* **Restart.** The tracker lives in memory, the CSV files survive. Children of
  the server inherit its listening sockets, so after its death connections may
  still be made, and a new server cannot bind, until they have ended.
* **One thread for all administrators.** The main thread accepts students and
  serves administrators, one after the other, in the same loop.
* **A peer that leaves.** `SIGPIPE` is not ignored: a process that sends to a
  connection its peer has closed dies, the server included.
* **Events that arrive too early.** A save while the client runs, during the
  debounce time or between `epoll_wait` and the reads; a snapshot that changes
  while the windows are drawn.

The complete list, each at its line, is under `hazards` in `PROJECT.json`.

### What makes each part correct

* Context: a student has one record; the count is the number of students
  solved; the tracker holds results of one week; a result is recorded only in
  its own week; the open CSV file is the current week's; headers only in
  front; a worker is always answered and a switch always completes.
* Job queue: every open connection is in one place, served once and in order;
  no wakeup is lost; nothing waits while a worker is idle.
* Sandbox: a grade follows from how the program ended; every descriptor is
  closed; a worker waits for nothing that cannot come.
* File distribution: a pull that reports success has every file complete and
  verified.
* Control channel: the main thread comes back to its loop, whatever
  administrators do; the server dies only of a process that left in the middle
  of a request; every request of a dashboard is answered.
* Dashboard: a snapshot is one week's; every change of it is drawn; it follows
  the week in force; it ends when told to.
* Watcher: at rest, what it was told of has been submitted, by a client that
  read the file afterwards; no more runs than events.
* Client: what is shown was sent by the server, for that file and that text.

## 2. Modules

### `ServerCtx`, the core

`ServerCtx` follows a submission through `handle_client` and
`build_and_send_result`, and the main thread through `handle_ctl_client` and
`ctx_set_hw`.

| Model | Code |
|---|---|
| `current_hw` (with `ans_path`, `submit_dir`, which are functions of it) | `server_ctx.c:85-95` |
| `readers` | holders of `hw_lock` for reading in `build_and_send_result` |
| `students`, `submitted_count`, `total_students` | the same fields; a slot is free when `id = NoStudent` |
| `csv_fd`, `total_records` | the same fields; `csv_fd` is the week whose file is open, `NoWeek` for -1 |
| `csv_locked` | `csv_lock` held by the main thread across close and open |
| `csv_made`, `csv_file` | which CSV files exist and what they hold: `Header`, or the week of a row |
| `main` | the main thread: where it is, the week to set, the count it has read |
| `pc`, `task` | each worker: where it is, and the local variables `task_hw`, student, answer path, grade, `my_submit_count` |
| `jobs`, `epoch` | bounds: submissions taken and switches begun; `task.epoch` remembers the latter |
| `tracker_weeks` | history: the weeks of the results in the table |

| Action | Code |
|---|---|
| `StartJob` | `worker_thread_loop` takes a connection, `handle_client` copies the week and receives (`server.c:645-703`) |
| `DropJob` | the early returns and the pull branch (`server.c:658-687`) |
| `GradeFault`, `GradeOutput` | the outcome of compiling and running (`server.c:735-995`) |
| `EnterResult` | `rdlock` and the comparison of weeks (`server.c:378-385`) |
| `RecordSubmission` | `ctx_record_submission` |
| `CheckCsv`, `WriteCsv` | `ctx_write_csv`: the test of `csv_fd` outside the lock, the write inside |
| `LeaveResult`, `SendResult` | `unlock`; the counts are read and the response is sent (`server.c:386-394`) |
| `RequestSwitch`, `SwitchHw`, `ResetTracker`, `CloseCsv`, `OpenCsv` | `CMD_SET_HW` and the phases of `ctx_set_hw` |
| `SetStudents` | `CMD_SET_STUDENTS` |
| `SnapCounts`, `SnapList` | the first and last critical section of `CMD_GET_TRACKER` |

`Init` is the state `ctx_init` leaves: it may fail to open the first CSV file,
and it finds the files of earlier runs (`OldFiles`), which is how a restart is
covered. Everything in memory starts afresh.

Atomicity. A critical section is one action if all it touches is touched under
that lock only. Two are wider: `hw_lock` is held by a worker from
`EnterResult` to `LeaveResult`, with `tracker_lock` and `csv_lock` taken and
released inside; and `csv_lock` is held by the main thread while `csv_fd`,
which `ctx_write_csv` reads without the lock, is first -1 and then the new
file. The other reads under `hw_lock` copy a string and hold it for no other
step.

Abstracted: times and memory figures, the text of a row, the student's
identity (a model value; the client sends 7 to 15 digits), the file name.

### `ScoreBoard`

The promise behind "submitted / total": a set of solved students that only
grows within a week, with the number shown always its size. `ServerCtx`
implements it with `solved` read off the table and `shown` the counter.

### `Sandbox`

Compiling and running, `server/server.c:707-997`: the worker, gcc, the wrapper
process and the submitted program ("inner"), with their three pipes.

| Model | Code |
|---|---|
| `pc` | where the worker of a job is between the source's receipt and `build_and_send_result` |
| `server_fds`, `fds` | which process holds which end of `pipefd` (`err`), `run_sync_pipe` (`sync`), `pid_report_pipe` (`pid`) |
| `proc` | each child: not forked, `forked`, `run`, `wait` (the wrapper in `waitpid`), or how it ended |
| `pid_sent`, `go` | the pid and the start signal have been written |
| `monitor`, `tracked` | `skel` and whether it was loaded; the programs entered into `tracked_pids` |
| `output`, `program` | what gcc prints, what the program does: the environment's choices |
| `grade` | `final_res` |
| `reaped` | children whose status a worker has taken that waited for child -1 |
| `server_up` | the process with all worker threads; SIGPIPE is not ignored |

| Action | Code |
|---|---|
| `StartJob`, `ForkGcc`, `WaitGcc`, `ReadErr` | `pipe`, `fork`, `waitpid`, and the `read` of the errors only after it |
| `OpenMonitor` | the BPF skeleton and the other two pipes |
| `ForkWrapper`, `SkipPid`, `ReadPid`, `SendStart`, `SigPipe` | the worker's side of the handshake |
| `ForkGccFails`, `ForkWrapperFails` | `fork` returns -1, which is not looked at |
| `WrapperFails`, `ForkInner`, `ReportPid`, `ReportPidFails`, `WrapperEnd` | the wrapper |
| `InnerStart`, `InnerEnd` | the program: it waits for the signal, runs, ends |
| `WaitWrapper` | `wait4` and the grade |

The workers are threads of one process and no pipe is close-on-exec, so every
`fork` copies the ends of *all* jobs into the new child. A pipe gives an end
of file, and a writer gets SIGPIPE, only when the last copy is closed; the
model therefore tracks the holders of every end, and a job cannot be looked at
alone. A close that follows a fork on the same side is part of the fork's
action: the other side cannot tell, because the copies that matter to it are
its own.

A `fork` that fails leaves -1 in `pid` or `run_pid`, and to `waitpid` that
means any child of the process: `WaitFor` lets the worker take the status of
another job's child that has ended, makes the wait of the worker whose child
that was fail, and leaves the latter with what `status` held before: anything
after gcc, gcc's exit with 0 after the wrapper.

Abstracted: the memory, file and system call limits, all of which end the
program as `fail` or `crash` does; the monitor beyond the registration; the
comparison of the output (AC or WA).

### `Grading`

What the sandbox promises, without compiler, wrapper, pipes and signals: a
submission is taken by one of `NumThreads` workers and graded once; its program
runs at most once, and only while its worker has the submission in hand; and the
grade is one that the program's end deserves (`Deserves`). A submission may be
lost sight of (`lost`) while it is in hand. Of such a one only that it is graded
once and its program runs once is promised; the others are not affected.
`Sandbox` implements it (`GradingSpec`) with `phase` read off `pc`, `life` off the
state of the inner process, and `lost` the jobs for which `OutOfSight` holds: there
are no BPF objects, so that the wrapper may be killed while the program runs on;
or a fork failed in the job's worker, or another worker took one of its children.

### `JobQueue`

The ring buffer, the condition variable and the descriptors. `Accept` is the
main loop's branch for the server socket with `enqueue_job`; `TakeJob` and
`WaitForJob` are the two outcomes of `dequeue_job`'s critical section,
`SpuriousWakeup` what POSIX allows `pthread_cond_wait`; `HandleClient` stands
for all of `handle_client`, which closes its descriptor once on every path.
`accept` may return any descriptor that is closed, so descriptors are reused
at once. `g_paused` is never set by any command, so its branch is left out.
`MaxClients` is the number of clients connected at the same time: the program
has no such limit, and the two runs show what depends on it.

### `ConnQueue`

A FIFO of connections with one connection per worker; `JobQueue` implements
it as long as at most `MaxQueue` clients are connected at once.

### `FilePull`

`handle_file_pull` and `do_pull_mode`, one pull at a time (pulls share no
state but the folder).

| Model | Code |
|---|---|
| `server`, `list`, `index`, `read` | the worker's progress: `file_names`, `i`, and what `offset` and `crc` have run over |
| `sent`, `got`, `conn` | the packets sent, how many the client has received, and whether the connection still stands |
| `out`, `blocks`, `files_done` | `out_fd` with `state` (they change together), `crc_accum`, the counter |
| `local`, `dist` | the student's directory and `dist/<week>` |

Server: `ListFiles`, `NothingToList`, `OpenFile`, `OpenFails`, `NoBuffer`,
`ReadChunk`, `EndFile`, `SendDone`, `SendError`, `SendFails`, `DropRequest`.
Client: `StartPull`, one `Recv...` action per case of the receive loop, and
`RecvFails` for `recv_error`. Around them: the connection breaks, the student
interrupts the client, the teacher rewrites a distributed file in place
(external programs do that; nothing in the repository uploads to `dist/`).

A checksum is the content it is computed of, so CRC collisions are left out. A
packet cut off by a broken connection is one that did not arrive. A broken
connection is noticed by both sides; neither side sets a time limit, so a
machine that vanishes without a word would leave the other waiting.

### `Client`

The submitting client, without `Next`: `Watch` runs it. A file is its place on
the command line; every text saved has a number, so that "newer" can be said.

| Model | Code |
|---|---|
| `content`, `writing`, `version` | the student's files: the last text closed, and files an editor has truncated and not yet closed |
| `pc`, `batch`, `cur` | `main` and `send_source`: off, the prompt for the ID, reading, uploading, receiving, the screen, the editor; the loop over the command line or one file |
| `payload`, `before` | the text read for the submission, `st_before.st_mtime` |
| `results` | `results[]`; cleared with `memset`, which is AC with no time and no memory |
| `tried`, `answered`, `sent` | history: the text last opened to submit, whether it was answered, the server's answers |

| Action | Code |
|---|---|
| `StartClient`, `Login` | `main` up to the first submission (`client/client.c:692-712`) |
| `ReadSource`, `ReadFails`, `Upload`, `UploadFails`, `Receive`, `ReceiveFails` | `send_source` with every return; the caller looks at none (`client/client.c:98-181`) |
| `OpenEditor`, `CloseEditor`, `Quit` | the result screen: ENTER forks the editor; a changed modification time submits the file again |
| `BeginSave`, `EndSave`, `RenameSave` | how other programs save: in place (truncate, write, close) or by renaming a new file over the old |

### `Watch`

`inotify_watch.c` around the client.

| Model | Code |
|---|---|
| `watched` | files whose path still names the inode watched; a save by rename takes a file out for good |
| `pending` | files with unread inotify events |
| `timer` | `tfd`: off, armed, expired and not read |
| `at`, `ready` | `main`'s loop: in `epoll_wait`, the descriptors it returned that are still to be looked at, in `run_client` |
| `g_running` | the flag the signal handler clears |
| `runs`, `events`, `notified`, `missed` | history: calls of `run_client`, events queued, the last text an event was about, files of a run that could not start |

`HandleInotify` reads the events and sets the timer anew, `HandleTimer` runs
the client even if the expiration it was told of has been wiped out by a
`HandleInotify` of the same round. `SaveByRename` has two forms: the old inode
is deleted, and the kernel queues IN_IGNORED, which the code takes for a save;
or the editor keeps it as a backup, and nothing is queued.

### `CtlChannel`

The control socket. The state of the server is where the main thread is
(`main`), the queue of connections (`backlog`), the one it serves and the week;
a peer is a thread that calls `ipc_send`, or a run of `minici-ctl`.

| Action | Code |
|---|---|
| `Connect`, `Send`, `SendBreaks`, `CallEnds` | `ipc_send` (`minici-tui.c:73-87`) and the same calls in `minici-ctl.c` |
| `Leave` | the process of a peer ends with its connection open |
| `AcceptCtl`, `HangUp`, `Serve`, `ServeBreaks` | the loop over the descriptors and `handle_ctl_client` (`server/server.c:1027-1149,1306-1343`): `recv` with MSG_WAITALL, the command, `send` without MSG_NOSIGNAL |
| `ChildEnds`, `Restart` | the sockets inherited by a compiler or program; the administrator starts the server again |

A week switch is one step here and its phases are in `ServerCtx`. Of an answer
the week is kept: the counts and texts are shown and not used.

### `Dashboard`

Any number of dashboards with two threads each, and of runs of `minici-ctl`,
over `CtlChannel`.

| Model | Code |
|---|---|
| `ui` | the thread with the keys: first snapshot, `wgetch`, the two windows of `safe_draw_all`, a dialogue, `ipc_send`, `pthread_join` |
| `poll`, `t` | `poll_fn` and the snapshot it builds |
| `g_snap`, `efd`, `tui_running` | the same |
| `fresh` | history: the windows that show what is in `g_snap` |

Every menu item is `Choose`: it opens a dialogue, or is done at once, or sends
a request. What the administrator stages, and the deadline, belong to one
thread and reach nothing but the request; they are left open.

### Proof modules

`ServerCtxProofs`, `ServerCtxRefinement` and `ServerCtxAnswers` (which extend
the former), `JobQueueProofs`, `SandboxProofs`, `FilePullProofs`, `WatchProofs` and
`DashboardProofs`; see section 4. `MCServerCtx` adds the symmetry set,
`MCDashboard` the set of peers; `MCJobQueue`, `MCSandbox`, `MCFilePull` and
`MCWatch` instantiate as is.

## 3. What is model-checked

| Run | Instance | Shows |
|---|---|---|
| `serverctx` | 2 workers, 3 students, 2 weeks (one with a CSV file of an earlier run), 2 slots, 3 submissions and switches together, at most 2 switches | all invariants of the context, `SnapshotNotAhead`, and that `ServerCtx` implements `ScoreBoard` |
| `serverctx_live` | 2 workers, 1 student, 2 submissions, 1 switch, no symmetry | `ResultIsSent`, `SwitchCompletes` |
| `serverctx_csv_rows` | 2 workers, 1 student | **violated**: a row of the new week in the old week's file |
| `serverctx_accepted` | the same | **violated**: an accepted result wiped by the switch that was still in progress |
| `jobqueue` | 3 workers, 3 descriptors, 3 slots, 6 connections | the queue's invariants, that it implements `ConnQueue`, and that queued connections are taken |
| `sandbox` | 2 jobs on 2 workers; gcc prints nothing, little or too much; programs that succeed, loop or wait; with and without BPF objects; one `fork` fails in a worker | registration before start, every descriptor closed, the grade, what can end the server, that jobs end, and that `Sandbox` implements `Grading` |
| `sandbox_tle` | 2 jobs, programs that succeed or loop | **violated**: an endless loop is graded RE |
| `filepull` | 2 files of up to 2 blocks, 2 pulls, 1 rewrite, 2 packets in flight | what success and failure of a pull mean, and that pulls end |
| `filepull_whole` | 1 file, 1 pull | **violated**: a part of a file, counted as a file |
| `watch` | 2 files, 3 texts, a client that looks at both, grades AC and WA | what rest means, that runs are accounted for, that the screen is explained, that an event leads to a submission |
| `dashboard` | 1 dashboard (2 threads), 1 `minici-ctl`, 2 weeks, 1 departure in the middle of a request | what the server dies of, the snapshot, the redraws, and that requests are answered, quitting ends and the screen follows |
| `jobqueue_overflow` | 2 workers, 4 descriptors, 2 slots | **violated**: more connections than slots |

Why these bounds. Two workers are enough for two recordings, or a recording
and a write, to interleave with the one main thread, which is all the locks
tell apart. Three students for two slots make the table full. Two weeks and
two switches allow leaving a week and returning to it (the case in which the
comparison of week names cannot see that a switch happened). Three events in
total, each a submission or a switch, allow a switch away, a switch back and
one submission across both; or two submissions and a switch between them.
`CountMax` and `ReplyMax` are set so that both saturations happen. In the
queue three slots and six connections let head and tail wrap around twice, and
three workers let some sleep, some be woken and some serve. In the sandbox two
jobs are one that inherits pipe ends and one they are inherited from, in both
directions; a third would only be another holder. One `fork` that fails
(`MaxForkFails`) is one worker that waits for the other's children, at either
of the two waits of each. In the pull, two files of
two blocks have a first and a last block and a first and a last file to fail
at, a rewrite can shorten or replace a file at any point, and the second pull
meets what the first one left; with two packets in flight the server can be
ahead of the client, and wait for it. With the watcher two files are one
that is submitted while the other is saved, in both orders of the loop over
the command line; a third text lets a file be saved again after an event was
read and before the client reads it. With the dashboard, two threads and a
`minici-ctl` are three connections, so that one is served while two wait;
`MaxLeft` bounds departures by the user's choice and restarts, not those by
SIGPIPE, which fairness is about. The theorems below remove the bounds for
everything except liveness.

Symmetry is used in `serverctx` only, where workers and students are
interchangeable; weeks are not (`FirstWeek`, `OldFiles`).

Deadlock checking is on for the context and the queue: an idle main thread can
always take a snapshot, and a worker without work can always wait. It is
off for the pull, where the number of pulls is bounded; for the sandbox, which
really stops: the number of jobs is bounded, a program may wait for ever, and
gcc and its worker may wait for each other; for the watcher, which ends when
it is interrupted; and for the dashboard, as `minici-ctl` and the server
really wait for each other.

### Fairness

* The main thread's steps inside `ctx_set_hw` and a snapshot, and a worker's
  steps from `EnterResult` on, are weakly fair: they are straight-line code of
  running threads, blocked by locks only.
* `SwitchHw` and `WriteCsv` are strongly fair. The write side of `hw_lock` is
  enabled only while there is no reader, and readers come and go; a mutex is
  given to one of its waiters again and again. POSIX leaves the choice to the
  implementation and glibc's default rwlock prefers readers, so this assumes
  that the queue of recordings is not gapless for ever.
* Grading is **not** fair: a program that waits without using CPU time is
  never stopped, and a client may never send. `SwitchCompletes` therefore says
  that a switch completes even if every worker is stuck in grading, and
  `ResultIsSent` starts where grading has ended.
* In the sandbox every thread and process that is not blocked goes on; that is
  the kernel's scheduler. `JobEnds` names what can hold a job up all the same:
  a program that waits (no wall-clock limit), gcc with more to print than the
  pipe holds (the worker reads only after `waitpid`), and, because of inherited
  pipe ends, such a hang of *another* job if this one failed without a word
  (gcc without output, a wrapper that could not fork), or waits for a child of
  that job, or lost its own, after a `fork` that failed. Without these
  exceptions the property is violated.
* In the pull the worker and the client go on whenever they can; a send waits
  while the connection is full. That the teacher, the network or the student
  acts is not assumed.
* With the watcher, `main`, the client's own steps and the expiry of the timer
  are fair; saves, the student's keys and Ctrl-C are not. A client sits at the
  prompt for the ID and at its screen until the student acts, hence the premise
  of `EventIsSubmitted`.
* With the dashboard the main thread, each thread of a dashboard, the delivery
  of SIGPIPE and the steps of `minici-ctl` are fair. Nothing is assumed of
  administrators, of the programs that hold the sockets, and of the restart.
  The premise `Serving` of the three liveness properties therefore says that
  the server is not down for ever and that no `minici-ctl` holds it for ever.
* In the queue only `dequeue_job` is fair. `QueuedIsTaken` has to allow for
  all workers being busy, because serving may last for ever.

### Where documentation and code differ

Five statements of the program's README and tests do not hold; `PROJECT.json`
quotes them under `findings`.

* *A switch resets the tracker atomically, grades go to independent files per
  week* (`README.md:44`). The week is in force when `hw_lock` is released
  (`server_ctx.c:95`), the tracker is cleared at 102-104 and the file replaced
  at 109-140, with the making of directories in between. A submission of the
  new week recorded in that window is wiped from the tracker although its
  client was told AC (`serverctx_accepted`), and its row goes to the old week's
  file (`serverctx_csv_rows`). The opposite mistake, an old result in the new
  week, cannot happen (`TrackerHoldsCurrentWeek`, proved).
* *Hundreds of simultaneous submissions are handled* (`README.md:34`). Beyond
  `MAX_QUEUE` waiting connections the ring buffer overwrites its entries
  (`jobqueue_overflow`).
* *An endless loop is graded TLE* (`test_suite.c:263`, `:512`, `README.md:31`).
  The program sets the soft and the hard `RLIMIT_CPU` to the same value
  (`server.c:812`); at the hard limit Linux sends SIGKILL, which is graded RE
  (`sandbox_tle`).
* *A chunk error is reported with `RES_FILE_ERROR`, END carries the checksum of
  the entire file* (`README.md:58`, `include/protocol.h:118,147`). A read error,
  or a file shortened during the transfer, ends the loop of `send_one_file`
  (`server.c:493`) like an end of file; END has the checksum of the part, the
  client never looks at the announced size again, and counts the file
  (`filepull_whole`).

Others were met while modelling and have no run of their own, because the
model has the code's behaviour and a property that holds of it:

* `minici-ctl` sends less than a whole `IpcRequest` and waits; the server waits
  for the rest, and with it all students and dashboards. The words are no
  commands to the server either. `ToolIsNeverAnswered` says that no run of it
  ever gets an answer, `Serving` that liveness depends on it; a Ctrl-C ends it
  and, by SIGPIPE, the server (`DeathsAreDepartures`).
* A save by rename is seen through IN_MOVED_TO according to
  `inotify_watch.c:121-124`; that event is not reported for a watch on a file.
  One run of the client follows, by IN_IGNORED, if the old inode is deleted;
  the file is not watched afterwards. `RestMeansCurrent` is therefore about
  files still watched.
* A client started by the watcher asks for the ID each time; files 51 to 64 are
  watched and never submitted, as the limits of client and watcher differ
  (`RestMeansSubmitted` is about `Judged`).
* A `fork` that fails in a worker costs up to two jobs their grade: its own,
  and that of the child it waits for instead. The latter's worker takes
  `wait4`'s failure for an exit with 0 and compares the output, so that a
  program that crashed may be graded AC. `GradeIsDeserved` is about all other
  jobs.
* A submission that failed shows AC, the zero value of a cleared result
  (`ScreenIsExplained` says when).
* The menu item for the CSV export sends a command the server has no case for;
  pause, resume, status and time limit are answered without effect
  (`server/server.c:1116-1138`); the flag TOGGLE_DIST flips is read by nobody.

## 4. What is proved

TLAPS proves the following for every value of the constants. Three kinds of
theorem go beyond the properties of the runs:

* the *safety half* of a liveness property: nobody waits for somebody who
  waits in turn, and what has to happen in the end has something under way that
  will do it. Each names, for every actor, when it can take a step
  (`WorkerReady`, `ServerWaits`, `MainReady`, ...). That these predicates agree
  with `ENABLED` of the actions was checked with TLC for `Sandbox`, `FilePull`
  and `Watch`, since `ENABLED` itself cannot be used in a proof. What is
  left to TLC of the liveness property is that fairness is enough;
* the *complement* of a finding: a run shows that a documented property fails,
  the theorem that it fails in this way only;
* action properties: what no step ever takes back.

The formulas of these theorems were model-checked before they were proved,
together with their inductive invariants, on the instances of section 3 (or
smaller or larger ones where that is said); the numbers of distinct states are
given below.

### `ServerCtxProofs`, `ServerCtxRefinement`, `ServerCtxAnswers`

Assumption: `ConstAssumption` of `ServerCtx` (the free slot's identity is no
student's, the table has at least one slot, class sizes fit the table, and so
on). Nothing is assumed of the number of workers, not even that it is finite.

* `TypeCorrect`, `CountCorrect`, `TableCorrect`, `RecordingSafe`,
  `TrackerOneWeek`, `OpenCsvCorrect`, `HeaderCorrect`: each invariant the run
  `serverctx` checks, as `Spec => []...`.
* `BoardImplemented`: `Spec => BoardSpec`.
* `ForeignAnswerRare`: `Spec => []ForeignAnswerNeedsTwoSwitches`.
* `SnapshotConsistent`: `Spec => SnapshotNotAhead`.
* `LocksNeverCircular`: `Spec => []NoCircularWait`, the safety half of
  `ResultIsSent` and `SwitchCompletes`.
* `RowsInPlace`: `Spec => RowsMisplacedOnlyInSwitch`, the complement of the
  finding `serverctx_csv_rows`: a row in a wrong file is written between the
  change of the week and the opening of its file, and never at another time.
* `AnswersInTable`, the complement of the finding `serverctx_accepted`: what a
  student is told is in the table when the answer leaves, unless the table has
  been cleared since the recording. `AttemptsNumbered`: two submissions of a
  student in flight are told different numbers. `RecordsKept`: no step but the
  clearing takes anything from a record (3.1 million states).

The invariants are not inductive by themselves. The strengthening (`Inv`,
theorem `InvAlways`) adds

* the lock discipline: a worker is in `readers` exactly while its `pc` is
  between `EnterResult` and `LeaveResult`; with it `SwitchHw`'s guard
  `readers = {}` excludes every recording, which gives `RecordingWeekIsCurrent`
  and, since only a recording adds to `tracker_weeks`, `TrackerHoldsCurrentWeek`;
* the phases of the switch: which week the main thread carries, when
  `csv_locked` holds and when `csv_fd` is closed, which gives
  `OpenCsvIsCurrentWeeks`;
* that a CSV file not yet made is empty, so that a header is only ever
  appended to an empty file (`HeaderOnlyFirst`);
* the shape of the table. That `submitted_count` is the cardinality of
  `SolvedSlots` needs that a slot found by the scans holds the student or is
  free (`SlotFor`), and that a free slot is not marked solved. That it never
  exceeds the table size, the reason its 16 bits suffice, then follows from
  the cardinality of a subset of the slots.

The refinement's only difficult step is `RecordSubmission` with a first AC:
the abstract `Solve` has the guards "not yet solved" and "not full", which
follow from one record per student, as the map from solved slots to students
is then injective and the two cardinalities agree.

`ForeignAnswerRare` uses its own inductive invariant, which relates the epoch
at which a worker copied the week, the answer file it compared with and the
number of switches since.

`SnapshotConsistent` adds to `Inv` that the count the main thread has copied is
at most the count in force (`CopiedCount`): recordings only raise it, and what
lowers it, `ResetTracker`, is a step of the main thread itself. That every
solved student is in the list follows from the used slots being a prefix of the
table no longer than the response.

`LocksNeverCircular` needs to be told who holds a lock: `csv_lock` is held
across steps only in `open_csv`, and `readers` are workers on their way to
`LeaveResult` (`LockUse`). `RowsInPlace` follows from `Inv`: a worker that
writes has the week in force (`RecordingWeekIsCurrent`), and outside the two
phases so has the open file (`OpenCsvIsCurrentWeeks`).

"Since the recording" speaks of the past, so `ServerCtxAnswers` adds a history
variable, `recorded`: the workers that have recorded since the last clearing.
`SpecH` is `Spec` with this variable, which no step reads. `AnswerIsInTable` and
`AttemptNumbersDiffer` are inductive together with `Inv` and `NoAttemptYet` (before
the recording a worker has no number): a new number is larger than the count in
the student's record, which is at least every number given before; and a
recording goes to the slot the student already has (`OwnSlot`), or to a free one.

### `JobQueueProofs`

Assumption: `QueueAssumption`. The theorems come in three groups.

With `MaxClients <= MaxQueue`, the condition `enqueue_job` relies on and does not
check:

* `QueueTypeCorrect`, `ConnectionsKept`, `NoLostWakeup`, `ConnQueueImplemented`,
  from the inductive invariant of `QueueInvAlways`: `q_tail` is `q_head + q_count`
  modulo the size; the open descriptors are the disjoint union of the queued
  and the served; the connections in the buffer are in order of arrival; and
  the account of wakeups. `q_count <= MaxQueue` follows from the number of
  queued descriptors, all different and all open, being at most `MaxClients`.

For any number of clients, in behaviours in which `q_count` never exceeds
`MaxQueue`:

* `OnlyOverflowLoses`: every connection is in one place, no wakeup is lost and
  `ConnQueue` is implemented. So what `jobqueue_overflow` finds comes of the
  overflow and of nothing else; the same invariant is used, its step with
  "there was room" as hypothesis in the place of the bound on clients.

For any number of clients and without a condition:

* `OverflowIsContained`: even after an overflow the indices are inside
  `job_queue`, `q_count` is not negative, no slot is served that was never written,
  and no wakeup is lost. `TailBehindHead` is not inductive here, as `q_count` may
  be several times `MaxQueue`; the invariant says that `q_head + q_count` is
  `q_tail` and a number of whole rounds (`TailAhead`), which arithmetic without
  a remainder can carry (682,089 states, with more clients than slots).

### `SandboxProofs`

Assumption: `SandboxAssumption` (the choices of the environment are the ones
named there). The number of jobs, threads and failing forks is arbitrary.

* `RegisteredBeforeStartAlways`, `DescriptorsOfJobsInHandAlways`,
  `GradeIsDeservedAlways`, `ServerSurvivesProgramsAlways`, and
  `SandboxTypeCorrect`.
* `NoWaitInVain`: the safety half of `JobEnds`. A job in hand has a process that
  can go on, or hangs by itself, or was lost sight of and waits for another job
  that goes on or hangs (307,514 states).
* `NobodyIsTLE`: the complement of the finding `sandbox_tle`. It says that no
  job is ever graded TLE and that a loop is graded RE, where its wrapper was the
  worker's own and there is a monitor (358,272 states). The limit is the same
  for both bounds though `timeout_seconds` is read twice, because the program's
  process has its own copy of it; a program that sends itself SIGXCPU is not
  modelled.
* `GradingImplemented`: `Spec => GradingSpec`.
* `LoadStaysBounded`: at most `NUM_THREADS` submitted programs live at once. Those
  are excepted whose wrapper's status another worker took, or whose wrapper was
  killed for want of a monitor; with them it is violated (8.7 million states,
  3 jobs on 2 threads).

The inductive invariant (`SandboxInvAlways`) is a conjunction `JobInv(j)` over
the jobs. It says which ends of its own pipes the server holds at each `pc`
(`ServerHolds`) and its children hold until they have played their part
(`ChildHolds`), and how far worker, wrapper and program can be apart. Of the
ends a child inherited from other jobs it says nothing: an extra holder delays
an end of file or prevents a SIGPIPE, and the safety arguments rest on the
ends that are certainly held. This makes the proof local: a step of one job
leaves all `JobInv(k)` of the others alone (`OthersFrame`, `FrameKeeps`), and
only the death of the server touches all. A child taken by another job's
worker is the one exception, and harmless: it had ended, and what `Compiled`
and `Judged` say is about jobs whose children were not taken (`WaitTakes`,
`TakenEnded`). The three lemmas that carry the
argument are `PidReadOrGone` (when the worker stops waiting for the pid, it
has it or there is no program), `StartIsSignalled` (the program's read cannot
return by an end of file, as the server holds the writing end until it has
written) and `NoReaderNoProgram` (a start signal without a reader means that
the wrapper never forked, or was never made itself).

`NoWaitInVain` has to speak of the inherited ends after all. It adds that who
has ended holds no end (`DeadHoldNothing`): an end that keeps a worker
waiting is then held by a live process (`HolderLives`), and a live process can
move or belongs to a job that hangs (`LiveChildMoves`). `NobodyIsTLE` adds that
a program ends in its own way and that no child ends by SIGXCPU
(`DiesItsOwnWay`); also a status taken from another job's child is then none.
`LoadStaysBounded` adds the number of jobs in hand, and that a program in sight
lives only while its job is in hand (`InSightInHand`).

The refinement of `Grading` needs no further invariant. Most steps are invisible
(`WorkIsUnseen`, `ChildrenAreUnseen`), and every other one is a step of the same
name in both. Three facts carry it. A job once lost stays lost, and is lost in
hand only (`SightLost`): this includes the job whose child *another* worker takes,
as a child nobody has waited for belongs to a worker that will
(`UnwaitedInHand`). A program that is alive has its wrapper, so its worker is past
the second fork, and at the end only if the job is lost (`ProgramHasWorker`). And
a grade fits the program's end (`FinishIsGrade`), which is read off `Judged` in the
state after the step: the worker's status is that of its own wrapper, which
ended as the program did.

### `FilePullProofs`

Assumption: `PullAssumption`. The folder, the contents, the room in the
connection and the numbers of rewrites and pulls are arbitrary.

* `TypeCorrect`, `CompleteOnSuccess`, `NoHalfFiles`.
* `NoMutualWait`: the safety half of `PullEnds`. A worker that waits in a send
  has a client with packets to take, and a client that waits in a receive has a
  worker that can go on (647,094 states).
* `NoPacketOutOfPlace`: no packet of this server is a protocol error to the
  client, whatever is rewritten in the folder.

The inductive invariant has a server's and a client's half. `SInv` describes
the packets sent: files come one after the other (`FilesInTurn`: a META is
first or follows an END, and an END carries the blocks since its META), they
are those of the list up to `index`, each once (`FilesListed`), and those
behind `index` are whole (`FilesWhole`, with the number of ENDs). `CInv`
describes the student's directory as a function of the packets received: what
has ended is there, the open file has the blocks since its META, and the
counter is the number of ENDs. Only one META can be under way before a given
packet (`RunUnique`) and its blocks are determined (`HoldsUnique`); so the
checksum of an END always agrees (`EndReceived`): over TCP the branch of
`do_pull_mode` that discards a file on a wrong CRC is never taken. DONE comes
when every listed file is whole, which gives `CompleteOnSuccess`. Edits of the
folder touch nothing the invariant mentions except the types, which is why the
proof holds for any number of them, and why it cannot promise more than "as it
was sent".

The last two theorems have an invariant of their own, `WaitInv`: which packet
may follow which and what the worker may send next (`Grammar`), that the client
has a file open exactly while the packets received are inside one, and who is
at the two ends of the connection (`BothEnds`).

### `WatchProofs`

Assumptions: `ClientAssumption`, `WatchAssumption`. Any number of files, texts
and grades, any limits.

* `TypeCorrect`, `RestSubmitted`, `RestCurrent`, `RunsAccounted`,
  `ScreenExplained`.
* `NoSaveForgotten`: the safety half of `EventIsSubmitted`. While a text the
  watcher was told of is not submitted, a run that will read it is in store,
  and `main`, the client or the timer can go on, or the client waits for the
  student (521,636 states).

The invariant consists of `Order` (the client runs only while `main` waits for
it, and `main` has descriptors to look at only in its loop), `Told` (texts
submitted or told of are not newer than the file, and of a watched file `main`
was told of the last), `Submitted` (an event is unread, or the timer runs, or a
run is due, or the running client has yet to read the file, or the file was
read since), from which rest means submitted; `Screen`, what `results[]` holds
at every step of the client; and `Account`, which balances runs against events
over the states of timer, list and loop. The delicate case is a round in which
`epoll_wait` returned both descriptors and the events are read first: the timer
is armed again *and* the client runs.

`NoSaveForgotten` adds to it only that `main` leaves its loop after the signal
alone.

### `DashboardProofs`

Assumptions: `CtlAssumption`, `DashboardAssumption`. Any number of dashboards,
runs of `minici-ctl` and weeks.

* `TypeCorrect`, `Departures`, `NeverAnswered`, `OneWeek`, `RedrawComes`.
* `OnlyToolsBlock`: the safety half of `Served`. The main thread in `recv` waits
  for a dashboard that is about to send, or for a `minici-ctl`, and a dashboard
  that waits for its answer has sent what the main thread needs.
* `PollerServes`: the safety half of `QuitEnds`. A dashboard in use has its
  polling thread, which ends only when it is quit.
* `WeekKept`: a dashboard that shows a week never falls back to showing none.
  (Together 342,656 states.)

`Channel` is the part of the invariant that carries the first two: outside
`recv` nobody is served, without sockets nobody waits, every connection whose
peer has left is accounted for in `left`, and what a `minici-ctl` has sent is
text only. `deaths <= left` alone is not inductive: while an abandoned
connection is still queued or served and the server is up, one death must be in
reserve (`deaths < left`). `RedrawComes` needs no more than the order of
`Store` and `Signal` in `poll_fn` and of the read of the eventfd before the
drawing.

The other three use a second invariant, `LInv`: a peer has one open connection
at most and every call under way has its connection (`Link`); which of its two
threads calls what, and when (`CallPlace`); and, for `WeekKept`, that a peer that
asks for the tracker has only that request under way, so that the answer it gets
is fit to be shown (`Fit`).

### Checked by TLC only

* `ResultIsSent`, `SwitchCompletes`, `QueuedIsTaken`, `JobEnds`, `PullEnds`,
  `EventIsSubmitted`, `Served`, `QuitEnds`, `ScreenFollows`: liveness under
  fairness is out of this prover's reach. The safety halves proved are
  `LocksNeverCircular` for the first two, `NoLostWakeup` for `QueuedIsTaken`,
  `NoWaitInVain` for `JobEnds`, `NoMutualWait` for `PullEnds`, `NoSaveForgotten`
  for `EventIsSubmitted`, `OnlyToolsBlock` for `Served`, `PollerServes` for
  `QuitEnds`, and `RedrawComes` for `ScreenFollows`. That the predicates in them
  which say who can go on agree with the guards of the actions is checked by
  TLC, not proved, because the proofs cannot use `ENABLED`.

Every invariant and every refinement of the passing runs is proved. The type
invariants of `FilePull` and `Sandbox` are proved without being listed by a run.

## 5. What is not modelled

* The monitor (`server/monitor.bpf.c`) beyond the registration of a program in
  `Sandbox`: its hooks run in the kernel, under keys of which one part, the
  low half of the cgroup's id, is the kernel's choice.
* The server's screen and log: output only.
* The first version of server and client in the root directory, the scripts,
  the test drivers and the snapshots under `backup/`: superseded, or outside
  the program. `vmlinux.h` and `monitor.skel.h` are generated; they are nineteen
  of every twenty lines of the repository's C code, which is why the share of
  its lines the modules stand for is small.

In the modules that exist:

* in `ServerCtx` the processes and pipes of a grading run are one choice of
  outcome, which may never come; `Sandbox` has them, without the context. In
  `Sandbox` a `pipe` that fails is left out: the descriptors used afterwards
  are whatever the array held;
* a source cut short by a lost connection is compiled as it is (the loop over
  `recv` just ends): to the modules it is a source like any other;
* a crash of the whole server is a new `Init` with other `OldFiles` in
  `ServerCtx`, and `ServeBreaks` with `Restart` in `CtlChannel`; an orderly stop
  by a signal is left out;
* `total_records` and the class size are kept but not related to anything but
  their type; `last_write_ts`, `last_submit_ts` and the log are left out;
* the data race on `csv_fd` (read without `csv_lock`) is modelled as reading
  one of the values it has at some moment; the write that follows may fail or
  go to whatever file is then open;
* a recording that `write` cuts short is not modelled: a row is written or not;
* in `Dashboard`: what is staged and the deadline, the log window, and the copy
  of `test.sh` (`distribute_testsh` reads `g_snap.week` twice, without
  `snap_mu`; the two reads may see different weeks);
* in `CtlChannel`: of a request that ends early the uninitialised rest.

## 6. Plan

Proofs: for `FilePull` a specification of the student's directory in whole files,
which needs a history variable for the file an interrupted pull left in part.

Modules:

| Module | Models | Composes | Properties | Theorems |
|---|---|---|---|---|
| `Server` | a submission from `accept` to its answer | `JobQueue`, `ServerCtx` | every accepted submission is recorded at most once and answered | from the two refinements |
| `Monitor` | maps and hooks | `Sandbox` | an entry lives as long as its process | the tracked set is closed under fork |
