------------------------------- MODULE Watch -------------------------------
(* Submission on save, inotify_watch.c: files are watched with inotify, a  *)
(* save arms a timer (300 ms, restarted by every further save), and when   *)
(* it expires the client is run on all files and waited for.               *)
(*                                                                         *)
(* A watch belongs to the inode the path named when watching began.  What  *)
(* the kernel reports of it is modelled as far as main() can tell: that    *)
(* events of certain files wait to be read.                                *)
EXTENDS Client, Sequences, FiniteSets

CONSTANT MaxWatchFiles   \* MAX_FILES of inotify_watch.c (64)

ASSUME WatchAssumption == MaxWatchFiles \in Nat /\ NumFiles <= MaxWatchFiles

VARIABLES
    watched,    \* files whose path still names the inode that is watched
    pending,    \* files with events main() has not read
    timer,      \* tfd: "off", "armed", or "expired" and not read
    at,         \* main(): "fork" and "child" in run_client, "wait" in
                \* epoll_wait, "handle" in the loop over ready, or "ended"
    ready,      \* the rest of the descriptors epoll_wait has returned
    g_running,  \* cleared by SIGINT
    runs,       \* history: calls of run_client
    events,     \* history: events the kernel has put into the queue
    notified,   \* history: the last version an event was about, of each file
    missed      \* history: files not yet read since a run could not start

watchVars == <<watched, pending, timer, at, ready, g_running>>
history   == <<runs, events, notified, missed>>
vars      == <<fileVars, clientVars, watchVars, history>>

Descriptor == {"ifd", "tfd"}

\* The descriptors epoll_wait finds readable.
Readable == {d \in Descriptor : \/ d = "ifd" /\ pending # {}
                                \/ d = "tfd" /\ timer = "expired"}

WatchTypeOK ==
    /\ watched \in SUBSET File
    /\ pending \in SUBSET File
    /\ timer \in {"off", "armed", "expired"}
    /\ at \in {"fork", "child", "wait", "handle", "ended"}
    /\ ready \in {<<>>, <<"ifd">>, <<"tfd">>, <<"ifd", "tfd">>, <<"tfd", "ifd">>}
    /\ g_running \in BOOLEAN
    /\ runs \in Nat
    /\ events \in Nat
    /\ notified \in [File -> 1..MaxVersion]
    /\ missed \in SUBSET File

TypeOK == ClientTypeOK /\ WatchTypeOK

\* inotify_add_watch may fail for some of the files.  The first submission is
\* made before the loop.
Init ==
    /\ ClientInit
    /\ watched \in (SUBSET File) \ {{}}
    /\ pending = {}
    /\ timer = "off"
    /\ at = "fork"
    /\ ready = <<>>
    /\ g_running = TRUE
    /\ runs = 0
    /\ events = 0
    /\ notified = [f \in File |-> 1]
    /\ missed = {}

-----------------------------------------------------------------------------
(* Saves, as the kernel reports them.                                      *)

\* An event of file f, about the text it has after this step.
Notify(f) ==
    /\ pending' = pending \cup {f}
    /\ events' = events + 1
    /\ notified' = [notified EXCEPT ![f] = content'[f]]

NoNotify == UNCHANGED <<pending, events, notified>>

SaveBegins(f) ==
    /\ BeginSave(f)
    /\ UNCHANGED <<clientVars, watchVars, history>>

\* Mutant: IN_CLOSE_WRITE is missing from the mask.
SaveEndsUnseen(f) ==
    /\ EndSave(f)
    /\ NoNotify
    /\ UNCHANGED <<clientVars, watched, timer, at, ready, g_running, runs, missed>>

\* IN_CLOSE_WRITE, on the inode that was watched from the start.
SaveEnds(f) ==
    /\ EndSave(f)
    /\ IF f \in watched THEN Notify(f) ELSE NoNotify
    /\ UNCHANGED <<clientVars, watched, timer, at, ready, g_running, runs, missed>>

\* The path names a new inode from now on.  IN_MOVED_TO is reported for a
\* directory, never for the file moved or replaced.  If the old inode is
\* deleted its watch goes with it, and IN_IGNORED, which cannot be masked, is
\* what main() reads; if it stays, as the editor's backup, nothing is.
SaveByRename(f, deleted) ==
    /\ RenameSave(f)
    /\ watched' = watched \ {f}
    /\ IF f \in watched /\ deleted THEN Notify(f) ELSE NoNotify
    /\ UNCHANGED <<clientVars, timer, at, ready, g_running, runs, missed>>

\* 300 ms since arm_debounce.
Expire ==
    /\ timer = "armed"
    /\ timer' = "expired"
    /\ UNCHANGED <<fileVars, clientVars, watched, pending, at, ready, g_running, history>>

-----------------------------------------------------------------------------
(* main() and run_client().                                                *)

ForkClient ==
    /\ at = "fork"
    /\ StartClient
    /\ at' = "child"
    /\ runs' = runs + 1
    /\ UNCHANGED <<fileVars, watched, pending, timer, ready, g_running, events, notified, missed>>

\* malloc, fork or execvp fails: run_client returns as after a run.
ForkFails ==
    /\ at = "fork"
    /\ at' = "handle"
    /\ runs' = runs + 1
    /\ missed' = File
    /\ UNCHANGED <<fileVars, clientVars, watched, pending, timer, ready, g_running, events, notified>>

\* Mutant: the events that came while the client ran are thrown away.
ClientEndsDrained ==
    /\ at = "child"
    /\ pc = "off"
    /\ at' = "handle"
    /\ pending' = {}
    /\ UNCHANGED <<fileVars, clientVars, watched, timer, ready, g_running, history>>

\* waitpid returns.
ClientEnds ==
    /\ at = "child"
    /\ pc = "off"
    /\ at' = "handle"
    /\ UNCHANGED <<fileVars, clientVars, watched, pending, timer, ready, g_running, history>>

\* The loop over the descriptors is through, g_running is looked at.
Loop ==
    /\ at = "handle"
    /\ ready = <<>>
    /\ at' = IF g_running THEN "wait" ELSE "ended"
    /\ UNCHANGED <<fileVars, clientVars, watched, pending, timer, ready, g_running, history>>

\* epoll_wait returns all descriptors that are ready, in any order.
EpollWait ==
    /\ at = "wait"
    /\ Readable # {}
    /\ ready' \in {s \in {<<"ifd">>, <<"tfd">>, <<"ifd", "tfd">>, <<"tfd", "ifd">>} :
                       {s[k] : k \in DOMAIN s} = Readable}
    /\ at' = "handle"
    /\ UNCHANGED <<fileVars, clientVars, watched, pending, timer, g_running, history>>

\* EINTR, or the timeout of a second: the condition of the loop is false.
LeaveLoop ==
    /\ at = "wait"
    /\ ~g_running
    /\ at' = "ended"
    /\ UNCHANGED <<fileVars, clientVars, watched, pending, timer, ready, g_running, history>>

\* Mutant: timerfd_settime refuses the time, as it does from 1000 ms on.
HandleInotifyUnarmed ==
    /\ at = "handle"
    /\ ready # <<>>
    /\ Head(ready) = "ifd"
    /\ pending' = {}
    /\ ready' = Tail(ready)
    /\ UNCHANGED <<fileVars, clientVars, watched, timer, at, g_running, history>>

\* The events are read and the timer is set anew, expired or not.
HandleInotify ==
    /\ at = "handle"
    /\ ready # <<>>
    /\ Head(ready) = "ifd"
    /\ pending' = {}
    /\ timer' = "armed"
    /\ ready' = Tail(ready)
    /\ UNCHANGED <<fileVars, clientVars, watched, at, g_running, history>>

\* Mutant: the expirations are not read.
HandleTimerUnread ==
    /\ at = "handle"
    /\ ready # <<>>
    /\ Head(ready) = "tfd"
    /\ ready' = Tail(ready)
    /\ at' = "fork"
    /\ UNCHANGED <<fileVars, clientVars, watched, pending, timer, g_running, history>>

\* The expirations are read, if there are any, and the client is run either
\* way: the result of read is not looked at.
HandleTimer ==
    /\ at = "handle"
    /\ ready # <<>>
    /\ Head(ready) = "tfd"
    /\ timer' = IF timer = "expired" THEN "off" ELSE timer
    /\ ready' = Tail(ready)
    /\ at' = "fork"
    /\ UNCHANGED <<fileVars, clientVars, watched, pending, g_running, history>>

\* Ctrl-C reaches the client as well, which it ends.
Interrupt ==
    /\ g_running
    /\ at # "ended"
    /\ g_running' = FALSE
    /\ Gone
    /\ UNCHANGED <<fileVars, watched, pending, timer, at, ready, history>>

ClientSteps ==
    /\ ClientStep
    /\ missed' = IF pc = "read" THEN missed \ {cur} ELSE missed
    /\ UNCHANGED <<fileVars, watchVars, runs, events, notified>>

StudentSteps ==
    /\ StudentStep
    /\ UNCHANGED <<fileVars, watchVars, history>>

-----------------------------------------------------------------------------
Save ==
    \E f \in File : \/ SaveBegins(f)
                    \/ SaveEnds(f)
                    \/ \E deleted \in BOOLEAN : SaveByRename(f, deleted)

Main ==
    \/ ForkClient \/ ForkFails \/ ClientEnds
    \/ Loop \/ EpollWait \/ LeaveLoop \/ HandleInotify \/ HandleTimer

Next ==
    \/ Save \/ Expire \/ Main
    \/ ClientSteps \/ StudentSteps \/ Interrupt

\* Processes that can go on do, the timer expires.  That files are saved or
\* the student does anything is not assumed.
Spec ==
    /\ Init
    /\ [][Next]_vars
    /\ WF_vars(Main)
    /\ WF_vars(ClientSteps)
    /\ WF_vars(Expire)

-----------------------------------------------------------------------------
(* Properties.                                                             *)

\* main() waits and nothing is on its way to it.
AtRest == /\ at = "wait"
          /\ g_running
          /\ pending = {}
          /\ timer = "off"

\* Whatever saves fall into a run, into the debounce time or between
\* epoll_wait and the reads: when the watcher is at rest, every text it was
\* told of has been submitted since, by a client that read the file after the
\* event (inotify_watch.c:195-241).  Only files beyond the client's own limit
\* of MAX_FILES are never read, and those of a run that could not start.
RestMeansSubmitted ==
    AtRest => \A f \in Judged \ missed : notified[f] <= tried[f]

\* As long as the path of a file names the watched inode, the last text
\* closed is one the watcher was told of, so that at rest it is the text
\* submitted (inotify_watch.c:119-135).
RestMeansCurrent ==
    AtRest => \A f \in (Judged \cap watched) \ (missed \cup writing) : tried[f] = content[f]

\* Besides the first submission there are never more runs of the client than
\* events: the timer that is set anew while its expiry is already in the list
\* of epoll_wait gives a run more, but only in place of a run that another
\* event would have given (inotify_watch.c:215-235).
NoRunWithoutEvent == runs <= 1 + events

\* What the student sees.  A grade with an answer behind it was sent by the
\* server for that file and for that text; a grade other than AC always has
\* one; and an AC nobody sent is shown only where the last submission did not
\* end with a whole answer, or none was made (client/client.c:714-719, 763).
ScreenIsExplained ==
    pc \in {"ui", "editor"} =>
        \A f \in Judged :
            /\ results[f].of # 0 \/ results[f].grade # "AC" =>
                   [file |-> f, grade |-> results[f].grade, of |-> results[f].of] \in sent
            /\ f \in answered => results[f].of = tried[f]

\* A save the watcher is told of is submitted in the end, unless the watcher
\* is interrupted or a client waits for the student for ever, at the prompt for
\* the ID or at the screen: the debounce and the
\* wait for the client delay it only (inotify_watch.c:195-241).
EventIsSubmitted ==
    []<>(pc \notin {"login", "ui", "editor"}) =>
        \A f \in Judged :
            (notified[f] > tried[f])
                ~> (notified[f] <= tried[f] \/ f \in missed \/ ~g_running)
=============================================================================
