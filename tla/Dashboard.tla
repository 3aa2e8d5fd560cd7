----------------------------- MODULE Dashboard -----------------------------
(* The administrator's tools on the control socket: dashboards,            *)
(* minici-tui.c, each with a thread that polls the server and one that     *)
(* draws and takes the keys, and runs of minici-ctl.c.                     *)
(*                                                                         *)
(* The threads of a dashboard share g_snap under snap_mu, and an eventfd.  *)
(* Only the one with the keys draws, so that ui_mu is never contended.     *)
EXTENDS CtlChannel

CONSTANTS
    Admin,   \* dashboards
    Tool     \* runs of minici-ctl

UI(d)    == <<d, "ui">>
Poll(d)  == <<d, "poll">>
Threads(d) == {UI(d), Poll(d)}
Thread   == UNION {Threads(d) : d \in Admin}

ASSUME DashboardAssumption ==
    /\ Peer = Thread \cup Tool
    /\ Thread \cap Tool = {}

VARIABLES
    ui,       \* the thread with the keys: "off", "init", the loop around wgetch
              \* ("key"), "hdr" and "info" in safe_draw_all, "popup" in a dialogue,
              \* "ipc" in ipc_send, "join"
    poll,     \* poll_fn: "off", "sleep", "tracker", "csv", "store", "signal", "done"
    tui_running,
    g_snap,   \* the snapshot both threads share
    t,        \* the snapshot poll_fn is putting together
    efd,      \* g_poll_efd has been written and not read
    fresh     \* history: the windows that show what is in g_snap

dashVars == <<ui, poll, tui_running, g_snap, t, efd, fresh>>
vars     == <<ctlVars, dashVars>>

\* A snapshot: the name of a week, and the week whose submissions are listed.
Snap == [week : Week \cup {NoWeek}, list : Week \cup {NoWeek}]
NoSnap == [week |-> NoWeek, list |-> NoWeek]

SnapOf(a) == [week |-> a.week, list |-> a.week]

Window == {"hdr", "info"}

DashTypeOK ==
    /\ ui \in [Admin -> {"off", "init", "key", "hdr", "info", "popup", "ipc", "join"}]
    /\ poll \in [Admin -> {"off", "sleep", "tracker", "csv", "store", "signal", "done"}]
    /\ tui_running \in [Admin -> BOOLEAN]
    /\ g_snap \in [Admin -> Snap] /\ t \in [Admin -> Snap]
    /\ efd \in [Admin -> BOOLEAN]
    /\ fresh \in [Admin -> SUBSET Window]

TypeOK == CtlTypeOK /\ DashTypeOK

Init ==
    /\ CtlInit
    /\ ui = [d \in Admin |-> "off"]
    /\ poll = [d \in Admin |-> "off"]
    /\ tui_running = [d \in Admin |-> TRUE]
    /\ g_snap = [d \in Admin |-> NoSnap]
    /\ t = [d \in Admin |-> NoSnap]
    /\ efd = [d \in Admin |-> FALSE]
    /\ fresh = [d \in Admin |-> {}]

Set(f, d, v) == [f EXCEPT ![d] = v]

-----------------------------------------------------------------------------
(* A dashboard as a process.                                               *)

\* main asks for a first snapshot before there is a second thread.
Start(d) ==
    /\ ui[d] = "off"
    /\ ui' = Set(ui, d, "init")
    /\ call' = [call EXCEPT ![UI(d)] = "connect"]
    /\ UNCHANGED <<serverVars, connVars, answer, left>>
    /\ UNCHANGED <<poll, tui_running, g_snap, t, efd, fresh>>

\* Nothing of the process is left.
Reset(d) ==
    /\ ui' = Set(ui, d, "off")
    /\ poll' = Set(poll, d, "off")
    /\ tui_running' = Set(tui_running, d, TRUE)
    /\ g_snap' = Set(g_snap, d, NoSnap)
    /\ t' = Set(t, d, NoSnap)
    /\ efd' = Set(efd, d, FALSE)
    /\ fresh' = Set(fresh, d, {})

\* The terminal is closed, Ctrl-C: no signal is handled.
Killed(d) ==
    /\ ui[d] # "off"
    /\ Reset(d)
    /\ Leave(Threads(d)) /\ left' <= MaxLeft

\* SIGPIPE, in either thread.
Breaks(d) ==
    /\ \E p \in Threads(d) : SendBreaks(p)
    /\ Reset(d)
    /\ Leave(Threads(d))

-----------------------------------------------------------------------------
(* The thread that polls: every second the tracker, then the CSV count.    *)

\* Its calls to ipc_send.
PollCall(d) ==
    /\ \/ Connect(Poll(d))
       \/ poll[d] = "tracker" /\ Send(Poll(d), Req("GET_TRACKER"))
       \/ poll[d] = "csv" /\ Send(Poll(d), Req("GET_CSV_STAT"))
    /\ UNCHANGED dashVars

\* Mutant: when it is told to stop the thread pauses, and does not end.
WakePauses(d) ==
    /\ poll[d] = "sleep"
    /\ IF tui_running[d]
       THEN poll' = Set(poll, d, "tracker") /\ call' = [call EXCEPT ![Poll(d)] = "connect"]
       ELSE UNCHANGED <<poll, call>>
    /\ UNCHANGED <<serverVars, connVars, answer, left>>
    /\ UNCHANGED <<ui, tui_running, g_snap, t, efd, fresh>>

\* sleep(1) is over, or the thread begins.
Wake(d) ==
    /\ poll[d] = "sleep"
    /\ IF tui_running[d]
       THEN poll' = Set(poll, d, "tracker") /\ call' = [call EXCEPT ![Poll(d)] = "connect"]
       ELSE poll' = Set(poll, d, "done") /\ UNCHANGED call
    /\ UNCHANGED <<serverVars, connVars, answer, left>>
    /\ UNCHANGED <<ui, tui_running, g_snap, t, efd, fresh>>

\* Mutant: the thread ends when the server does not answer.
GotTrackerGivesUp(d) ==
    /\ poll[d] = "tracker"
    /\ \E a \in {answer[Poll(d)], Failed} :
          /\ CallEnds(Poll(d), a, IF a.status = "OK" THEN "connect" ELSE "none")
          /\ IF a.status = "OK"
             THEN poll' = Set(poll, d, "csv") /\ t' = Set(t, d, SnapOf(a))
             ELSE poll' = Set(poll, d, "done") /\ UNCHANGED t
    /\ UNCHANGED <<ui, tui_running, g_snap, efd, fresh>>

GotTracker(d) ==
    /\ poll[d] = "tracker"
    /\ \E a \in {answer[Poll(d)], Failed} :
          /\ CallEnds(Poll(d), a, IF a.status = "OK" THEN "connect" ELSE "none")
          /\ IF a.status = "OK"
             THEN poll' = Set(poll, d, "csv") /\ t' = Set(t, d, SnapOf(a))
             ELSE poll' = Set(poll, d, "sleep") /\ UNCHANGED t
    /\ UNCHANGED <<ui, tui_running, g_snap, efd, fresh>>

\* The count in the snapshot is replaced, or left if there is no answer.
GotCsvStat(d) ==
    /\ poll[d] = "csv"
    /\ \E a \in {answer[Poll(d)], Failed} : CallEnds(Poll(d), a, "none")
    /\ poll' = Set(poll, d, "store")
    /\ UNCHANGED <<ui, tui_running, g_snap, t, efd, fresh>>

Store(d) ==
    /\ poll[d] = "store"
    /\ g_snap' = Set(g_snap, d, t[d])
    /\ t' = Set(t, d, NoSnap)
    /\ fresh' = IF t[d] = g_snap[d] THEN fresh ELSE Set(fresh, d, {})
    /\ poll' = Set(poll, d, "signal")
    /\ UNCHANGED <<ctlVars, ui, tui_running, efd>>

Signal(d) ==
    /\ poll[d] = "signal"
    /\ efd' = Set(efd, d, TRUE)
    /\ poll' = Set(poll, d, "sleep")
    /\ UNCHANGED <<ctlVars, ui, tui_running, g_snap, t, fresh>>

PollStep(d) ==
    PollCall(d) \/ Wake(d) \/ GotTracker(d) \/ GotCsvStat(d) \/ Store(d) \/ Signal(d)

-----------------------------------------------------------------------------
(* The thread with the keys, by itself.                                    *)

UiCall(d) ==
    /\ \/ Connect(UI(d))
       \/ ui[d] = "init" /\ Send(UI(d), Req("GET_TRACKER"))
       \/ ui[d] = "ipc" /\ \E w \in Week : Send(UI(d), ReqSetHw(w))
       \/ ui[d] = "ipc" /\ Send(UI(d), Req("OTHER"))
    /\ UNCHANGED dashVars

\* The first snapshot is drawn and the second thread created.
GotFirst(d) ==
    /\ ui[d] = "init"
    /\ \E a \in {answer[UI(d)], Failed} :
          /\ CallEnds(UI(d), a, "none")
          /\ g_snap' = IF a.status = "OK" THEN Set(g_snap, d, SnapOf(a)) ELSE g_snap
    /\ fresh' = Set(fresh, d, Window)
    /\ poll' = Set(poll, d, "sleep")
    /\ ui' = Set(ui, d, "key")
    /\ UNCHANGED <<tui_running, t, efd>>

\* Every 100 ms the eventfd is read, without blocking; if it was written,
\* both windows are drawn.
ReadEvent(d) ==
    /\ ui[d] = "key"
    /\ efd[d]
    /\ efd' = Set(efd, d, FALSE)
    /\ ui' = Set(ui, d, "hdr")
    /\ UNCHANGED <<ctlVars, poll, tui_running, g_snap, t, fresh>>

\* After a key the menu is drawn, with the panel beside it.
DrawMenu(d) ==
    /\ ui[d] = "key"
    /\ fresh' = [fresh EXCEPT ![d] = @ \cup {"info"}]
    /\ UNCHANGED <<ctlVars, ui, poll, tui_running, g_snap, t, efd>>

\* draw_hdr and draw_info take snap_mu one after the other.
DrawHdr(d) ==
    /\ ui[d] = "hdr"
    /\ fresh' = [fresh EXCEPT ![d] = @ \cup {"hdr"}]
    /\ ui' = Set(ui, d, "info")
    /\ UNCHANGED <<ctlVars, poll, tui_running, g_snap, t, efd>>

\* Mutant: the event is read after the drawing as well.
DrawInfoReads(d) ==
    /\ ui[d] = "info"
    /\ fresh' = [fresh EXCEPT ![d] = @ \cup {"info"}]
    /\ efd' = Set(efd, d, FALSE)
    /\ ui' = Set(ui, d, "key")
    /\ UNCHANGED <<ctlVars, poll, tui_running, g_snap, t>>

DrawInfo(d) ==
    /\ ui[d] = "info"
    /\ fresh' = [fresh EXCEPT ![d] = @ \cup {"info"}]
    /\ ui' = Set(ui, d, "key")
    /\ UNCHANGED <<ctlVars, poll, tui_running, g_snap, t, efd>>

\* Mutant: the new week is shown at once, with the old week's submissions.
GotOutcomeShown(d) ==
    /\ ui[d] = "ipc"
    /\ \E a \in {answer[UI(d)], Failed} :
          /\ CallEnds(UI(d), a, "none")
          /\ g_snap' = IF a.week # NoWeek THEN [g_snap EXCEPT ![d].week = a.week] ELSE g_snap
    /\ ui' = Set(ui, d, "hdr")
    /\ UNCHANGED <<poll, tui_running, t, efd, fresh>>

\* The answer is logged.  That of a new week changes what is staged, and
\* leaves the snapshot to the other thread.
GotOutcome(d) ==
    /\ ui[d] = "ipc"
    /\ \E a \in {answer[UI(d)], Failed} : CallEnds(UI(d), a, "none")
    /\ ui' = Set(ui, d, "hdr")
    /\ UNCHANGED <<poll, tui_running, g_snap, t, efd, fresh>>

\* pthread_join returns, main returns.
Joined(d) ==
    /\ ui[d] = "join"
    /\ poll[d] = "done"
    /\ Reset(d)
    /\ UNCHANGED ctlVars

UiStep(d) ==
    \/ UiCall(d) \/ GotFirst(d) \/ ReadEvent(d) \/ DrawMenu(d) \/ DrawHdr(d) \/ DrawInfo(d)
    \/ GotOutcome(d) \/ Joined(d)

-----------------------------------------------------------------------------
(* What the administrator does.                                            *)

\* What is staged (g_staged_week, the two script paths, the deadline) belongs
\* to this thread alone: whether there is a week to apply, and which, is open.
GoOn(d, next) ==
    /\ ui' = Set(ui, d, next)
    /\ UNCHANGED <<serverVars, connVars, answer, left>>
    /\ UNCHANGED <<poll, g_snap, t, efd, fresh>>

\* A menu item opens a dialogue, or is done (no week is staged; the script is
\* copied), or asks the server.
Choose(d) ==
    /\ ui[d] = "key"
    /\ \/ GoOn(d, "popup") /\ UNCHANGED call
       \/ GoOn(d, "hdr") /\ UNCHANGED call
       \/ GoOn(d, "ipc") /\ call' = [call EXCEPT ![UI(d)] = "connect"]
    /\ UNCHANGED tui_running

\* A dialogue is closed: something is staged or nothing is, or the number of
\* students goes to the server.
ClosePopup(d) ==
    /\ ui[d] = "popup"
    /\ \/ GoOn(d, "hdr") /\ UNCHANGED call
       \/ GoOn(d, "ipc") /\ call' = [call EXCEPT ![UI(d)] = "connect"]
    /\ UNCHANGED tui_running

Quit(d) ==
    /\ ui[d] = "key"
    /\ GoOn(d, "join")
    /\ tui_running' = Set(tui_running, d, FALSE)
    /\ UNCHANGED call

AdminStep(d) == Start(d) \/ Killed(d) \/ Choose(d) \/ ClosePopup(d) \/ Quit(d)

-----------------------------------------------------------------------------
(* minici-ctl: sends its text and reads until the end.                     *)

ToolStart(x) ==
    /\ call[x] = "none"
    /\ call' = [call EXCEPT ![x] = "connect"]
    /\ UNCHANGED <<serverVars, connVars, answer, left, dashVars>>

ToolStep(x) ==
    /\ \/ Connect(x)
       \/ Send(x, Req("text"))
       \/ SendBreaks(x) /\ Leave({x})
       \/ \E a \in {answer[x], Failed} : CallEnds(x, a, "none")
    /\ UNCHANGED dashVars

\* Ctrl-C.
ToolKilled(x) ==
    /\ call[x] \in {"send", "recv"}
    /\ Leave({x}) /\ left' <= MaxLeft
    /\ UNCHANGED dashVars

-----------------------------------------------------------------------------
ServerStep == MainStep /\ UNCHANGED dashVars

Environment == (ChildEnds \/ Restart) /\ UNCHANGED dashVars

Next ==
    \/ ServerStep \/ Environment
    \/ \E d \in Admin : PollStep(d) \/ UiStep(d) \/ AdminStep(d) \/ Breaks(d)
    \/ \E x \in Tool : ToolStart(x) \/ ToolStep(x) \/ ToolKilled(x)

\* Threads that can go on do.  What students and administrators do, the end of
\* a program that holds the sockets and the restart are not assumed.
Spec ==
    /\ Init
    /\ [][Next]_vars
    /\ WF_vars(ServerStep)
    /\ \A d \in Admin : WF_vars(PollStep(d)) /\ WF_vars(UiStep(d)) /\ WF_vars(Breaks(d))
    /\ \A x \in Tool : WF_vars(ToolStep(x))

-----------------------------------------------------------------------------
(* Properties.                                                             *)

\* The server dies only of an administrator's tool that ended in the middle of
\* a request, and of each at most once: no answer is sent twice, or to a
\* connection that its peer has closed for another reason (server.c:1147).
DeathsAreDepartures == deaths <= left

\* minici-ctl and the server wait for each other: no run of minici-ctl ever
\* gets an answer (minici-ctl.c:85-98, server.c:1030).
ToolIsNeverAnswered == \A x \in Tool : answer[x].status = "NONE"

\* A snapshot never lists one week's submissions under the name of another
\* (minici-tui.c:285-294, 648-652).
SnapshotOfOneWeek ==
    \A d \in Admin : \A s \in {g_snap[d], t[d]} : s.list = s.week

\* A window that does not show what is in g_snap will be drawn again: the
\* event is on its way, or the drawing (minici-tui.c:291-299, 520-525).
NoLostRedraw ==
    \A d \in Admin :
        ui[d] \notin {"off", "init"} /\ fresh[d] # Window =>
            \/ efd[d] \/ poll[d] = "signal"
            \/ ui[d] = "hdr"
            \/ ui[d] = "info" /\ "hdr" \in fresh[d]

\* handle_ctl_client has a run of minici-ctl, which waits.
ToolServed == \E c \in serving : c.from \in Tool /\ c.open

\* The server is not down for ever, nor stopped by a minici-ctl for ever.
Serving == <>[]Up /\ []<>~ToolServed

\* Then neither a student's connection nor a dashboard's request waits for
\* ever: the main thread, which serves all of them in turn, waits for nobody
\* else (server.c:1312-1343, minici-tui.c:73-87).
Served ==
    Serving => /\ []<>(main = "loop")
               /\ \A p \in Thread : []<>(call[p] = "none")

\* A dashboard that is quit ends, although it waits for its other thread
\* (minici-tui.c:715-717).
QuitEnds ==
    Serving => \A d \in Admin : (ui[d] = "join") ~> (ui[d] = "off")

\* When the week no longer changes, every dashboard that is on and has no
\* dialogue open for ever comes to show it (minici-tui.c:281-304, 519-525).
ScreenFollows ==
    Serving =>
        \A d \in Admin, w \in Week :
            <>[](week = w /\ ui[d] \notin {"off", "init", "join"}) /\ []<>(ui[d] # "popup")
                => <>[](g_snap[d].week = w) /\ []<>(fresh[d] = Window)
=============================================================================
