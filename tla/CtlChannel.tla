----------------------------- MODULE CtlChannel -----------------------------
(* The control socket of the server, server/server.c: the main thread's    *)
(* loop over epoll_wait, which accepts students and administrators alike,  *)
(* and handle_ctl_client, which it runs itself.  On the other side ipc_send *)
(* of minici-tui.c, and minici-ctl.c, which speaks another protocol.       *)
(*                                                                         *)
(* A week switch and the reading of the tracker are one step here: both    *)
(* are made by the main thread (ServerCtx has their steps).                *)
EXTENDS Naturals, Sequences

CONSTANTS
    Peer,        \* threads and processes that use the control socket
    Week,        \* names of weeks
    FirstWeek,   \* "week_1", in force when the server starts
    NoWeek,      \* the empty name
    MaxLeft      \* bound: processes ended with a connection open, and restarts

ASSUME CtlAssumption ==
    /\ FirstWeek \in Week
    /\ NoWeek \notin Week
    /\ MaxLeft \in Nat

VARIABLES
    main,     \* main thread: in its "loop" over epoll_wait and the descriptors it
              \* returns, "recv" in handle_ctl_client; or the process is gone, and
              \* the sockets are "held" by a child of its own, or "down"
    backlog,  \* connections of peers that wait to be accepted
    serving,  \* the connection handle_ctl_client has, if any
    answer,   \* what the server has sent to each peer and the peer not read
    week,     \* current_hw
    call,     \* each peer's call: "none", or to "connect", "send" or "recv"
    left,     \* history: processes that left with a connection open
    deaths    \* history: times the server died

serverVars == <<main, week, deaths>>
connVars   == <<backlog, serving>>
peerVars   == <<answer, call, left>>
ctlVars    == <<serverVars, connVars, peerVars>>

\* Requests: none sent, the text of minici-ctl, which is less than a whole
\* IpcRequest and has no first character that is a command, and those of the
\* dashboard; "OTHER" stands for those that leave the week alone, of which the
\* dashboard only shows the answer.  A dashboard sends no empty name of a week.
Cmd      == {"none", "text", "GET_TRACKER", "GET_CSV_STAT", "OTHER"}
Request  == [cmd : Cmd, week : {NoWeek}] \cup [cmd : {"SET_HW"}, week : Week]
Conn     == [from : Peer, req : Request, open : BOOLEAN]
Response == [status : {"NONE", "OK", "ERROR", "FAILED"}, week : Week \cup {NoWeek}]

Req(c)    == [cmd |-> c, week |-> NoWeek]
ReqSetHw(w) == [cmd |-> "SET_HW", week |-> w]
NoAnswer  == [status |-> "NONE", week |-> NoWeek]
Failed    == [status |-> "FAILED", week |-> NoWeek]   \* ipc_send returns -1

Conns == serving \cup {backlog[k] : k \in DOMAIN backlog}

\* The peer has a connection that the server has not closed.
Connected(p) == \E c \in Conns : c.from = p /\ c.open

Up == main \in {"loop", "recv"}

CtlTypeOK ==
    /\ main \in {"loop", "recv", "held", "down"}
    /\ backlog \in Seq(Conn)
    /\ serving \in SUBSET Conn
    /\ \A c, e \in serving : c = e   \* one at a time
    /\ answer \in [Peer -> Response]
    /\ week \in Week
    /\ call \in [Peer -> {"none", "connect", "send", "recv"}]
    /\ left \in Nat
    /\ deaths \in Nat

CtlInit ==
    /\ main = "loop"
    /\ backlog = <<>>
    /\ serving = {}
    /\ answer = [p \in Peer |-> NoAnswer]
    /\ week = FirstWeek
    /\ call = [p \in Peer |-> "none"]
    /\ left = 0
    /\ deaths = 0

-----------------------------------------------------------------------------
(* The peers' side: a call connects, sends the request and receives.       *)

\* Connecting needs somebody to hold the listening socket, no more.
Connect(p) ==
    /\ call[p] = "connect"
    /\ main # "down"
    /\ backlog' = Append(backlog, [from |-> p, req |-> Req("none"), open |-> TRUE])
    /\ call' = [call EXCEPT ![p] = "send"]
    /\ UNCHANGED <<serverVars, serving, answer, left>>

Put(c, p, r) == IF c.from = p /\ c.open THEN [c EXCEPT !.req = r] ELSE c

Send(p, r) ==
    /\ call[p] = "send"
    /\ Connected(p)
    /\ backlog' = [k \in DOMAIN backlog |-> Put(backlog[k], p, r)]
    /\ serving' = {Put(c, p, r) : c \in serving}
    /\ call' = [call EXCEPT ![p] = "recv"]
    /\ UNCHANGED <<serverVars, answer, left>>

\* The server is gone before the request is sent: there is no MSG_NOSIGNAL,
\* and SIGPIPE ends the process.
SendBreaks(p) == call[p] = "send" /\ ~Connected(p)

Shut(c, P) == IF c.from \in P THEN [c EXCEPT !.open = FALSE] ELSE c

\* The connections of peers P are closed.
Close(P) ==
    /\ backlog' = [k \in DOMAIN backlog |-> Shut(backlog[k], P)]
    /\ serving' = {Shut(c, P) : c \in serving}
    /\ answer' = [p \in Peer |-> IF p \in P THEN NoAnswer ELSE answer[p]]

\* Mutant: the peer does not wait for ever (SO_RCVTIMEO) and closes the
\* connection; its next call is `next`.
CallEndsTimed(p, a, next) ==
    /\ call[p] = "recv"
    /\ \/ answer[p].status # "NONE" /\ a = answer[p]
       \/ answer[p].status = "NONE" /\ a = Failed
    /\ Close({p})
    /\ call' = [call EXCEPT ![p] = next]
    /\ UNCHANGED <<serverVars, left>>

\* The call ends with result a: an answer, or -1 if the server cannot be
\* connected or has closed the connection without an answer.
CallEnds(p, a, next) ==
    /\ \/ call[p] = "connect" /\ main = "down" /\ a = Failed
       \/ call[p] = "recv" /\ answer[p].status # "NONE" /\ a = answer[p]
       \/ /\ call[p] = "recv" /\ answer[p].status = "NONE"
          /\ ~Connected(p)
          /\ a = Failed
    /\ answer' = [answer EXCEPT ![p] = NoAnswer]
    /\ call' = [call EXCEPT ![p] = next]
    /\ UNCHANGED <<serverVars, connVars, left>>

\* The process whose threads are P ends in the middle of whatever they do.
Leave(P) ==
    /\ Close(P)
    /\ call' = [p \in Peer |-> IF p \in P THEN "none" ELSE call[p]]
    /\ left' = IF \E p \in P : Connected(p) THEN left + 1 ELSE left
    /\ UNCHANGED serverVars

-----------------------------------------------------------------------------
(* The server's main thread.                                               *)

\* Mutant: an administrator is accepted while another is served.
AcceptCtlAtOnce ==
    /\ Up
    /\ backlog # <<>>
    /\ serving' = serving \cup {Head(backlog)}
    /\ backlog' = Tail(backlog)
    /\ main' = "recv"
    /\ UNCHANGED <<week, deaths, peerVars>>

\* ctl_fd is among the descriptors: one connection is accepted.  Students are
\* accepted in the same loop (JobQueue), before or after.
AcceptCtl ==
    /\ main = "loop"
    /\ backlog # <<>>
    /\ serving' = {Head(backlog)}
    /\ backlog' = Tail(backlog)
    /\ main' = "recv"
    /\ UNCHANGED <<week, deaths, peerVars>>

\* Mutant: recv is tried again.
HangUpIgnored ==
    /\ main = "recv"
    /\ \E c \in serving : c.req.cmd = "none" /\ ~c.open
    /\ UNCHANGED ctlVars

\* recv returns 0: the peer has left without a word.
HangUp ==
    /\ main = "recv"
    /\ \E c \in serving : c.req.cmd = "none" /\ ~c.open
    /\ serving' = {}
    /\ main' = "loop"
    /\ UNCHANGED <<week, deaths, backlog, peerVars>>

\* Mutant: recv without MSG_WAITALL.
ReadableAtOnce(c) == c.req.cmd # "none"

\* recv has MSG_WAITALL: it returns with a whole request, or with what there
\* is of one when the peer has closed its end.
Readable(c) == c.req.cmd \notin {"none", "text"} \/ (c.req.cmd = "text" /\ ~c.open)

\* Of an answer the week is kept, not the counts nor the text, and not that
\* some of the other commands are refused: that is shown and no more.
Reply(r) ==
    CASE r.cmd = "text"        -> [status |-> "ERROR", week |-> NoWeek]
      [] r.cmd = "GET_TRACKER" -> [status |-> "OK", week |-> week]
      [] r.cmd = "SET_HW"      -> [status |-> "OK", week |-> r.week]
      [] OTHER                 -> [status |-> "OK", week |-> NoWeek]

\* The request is carried out and answered.
Serve ==
    /\ main = "recv"
    /\ \E c \in serving :
          /\ c.open /\ Readable(c)
          /\ week' = IF c.req.cmd = "SET_HW" THEN c.req.week ELSE week
          /\ answer' = [answer EXCEPT ![c.from] = Reply(c.req)]
    /\ serving' = {}
    /\ main' = "loop"
    /\ UNCHANGED <<deaths, backlog, call, left>>

\* The request is carried out and the peer has closed its end: send has no
\* MSG_NOSIGNAL, and SIGPIPE ends the server.  A compiler or program that
\* runs for a worker has inherited the listening sockets and holds them.
ServeBreaks ==
    /\ main = "recv"
    /\ \E c \in serving : ~c.open /\ Readable(c)
    /\ deaths' = deaths + 1
    /\ serving' = {}
    /\ \/ main' = "held" /\ UNCHANGED backlog
       \/ main' = "down" /\ backlog' = <<>>
    /\ UNCHANGED <<week, peerVars>>

\* The last of those children ends, and the sockets close.
ChildEnds ==
    /\ main = "held"
    /\ main' = "down"
    /\ backlog' = <<>>
    /\ UNCHANGED <<week, deaths, serving, peerVars>>

\* The administrator starts the server again; before that bind fails.
Restart ==
    /\ main = "down" /\ deaths <= MaxLeft
    /\ main' = "loop"
    /\ week' = FirstWeek
    /\ UNCHANGED <<deaths, connVars, peerVars>>

MainStep == AcceptCtl \/ HangUp \/ Serve \/ ServeBreaks
=============================================================================
