-------------------------- MODULE DashboardProofs --------------------------
(* The safety properties of Dashboard, for any number of dashboards, of    *)
(* runs of minici-ctl and of weeks.                                        *)
EXTENDS Dashboard, SequenceTheorems, TLAPS

\* A sequence whose elements are replaced one by one.
LEMMA Elementwise ==
    ASSUME NEW S, NEW s \in Seq(S), NEW f \in [DOMAIN s -> S]
    PROVE  f \in Seq(S) /\ (s = <<>> => f = <<>>)
  <1>1. Len(s) \in Nat /\ DOMAIN s = 1..Len(s)
    OBVIOUS
  <1>2. f \in Seq(S) /\ Len(f) = Len(s)
    BY <1>1, IsASeq
  <1> QED BY <1>1, <1>2, EmptySeq

\* The threads of a dashboard are peers, and no runs of minici-ctl.
LEMMA Peers ==
    /\ \A d \in Admin : /\ UI(d) \in Peer \ Tool /\ Poll(d) \in Peer \ Tool
                        /\ Threads(d) \in SUBSET Peer
    /\ \A x \in Tool : x \in Peer
  BY DashboardAssumption DEF Thread, Threads

-----------------------------------------------------------------------------
(* The inductive invariant.                                                *)

\* A minici-ctl has sent its text or nothing.
TextOnly(c) == c.from \in Tool => c.req.cmd \in {"none", "text"}

\* A connection waits although its peer has closed it.
Abandoned == \E c \in Conns : ~c.open

\* A connection is served in handle_ctl_client only, and nobody is connected to
\* a server that is down.  A peer that left with its connection open has not
\* brought the server down while that connection waits.
Channel ==
    /\ main # "recv" => serving = {}
    /\ main = "down" => backlog = <<>>
    /\ deaths <= left
    /\ Up /\ Abandoned => deaths < left
    /\ \A c \in Conns : TextOnly(c)
    /\ \A x \in Tool : answer[x].status = "NONE"

CInv == CtlTypeOK /\ Channel

IInv == TypeOK /\ Channel /\ SnapshotOfOneWeek /\ NoLostRedraw

-----------------------------------------------------------------------------
(* The channel's operators keep the channel's part.                        *)

LEMMA ConnectKeeps ==
    ASSUME CInv, NEW p \in Peer, Connect(p)
    PROVE  CInv'
  <1> USE DEF CInv, CtlTypeOK, Connect, serverVars
  <1> DEFINE n == [from |-> p, req |-> Req("none"), open |-> TRUE]
  <1>1. n \in Conn /\ TextOnly(n) /\ n.open
    BY DEF Conn, Req, Request, Cmd, TextOnly
  <1>2. backlog' \in Seq(Conn)
    BY <1>1
  <1>3. Conns' = Conns \cup {n}
    <2>1. \A k \in DOMAIN backlog : k \in DOMAIN backlog' /\ backlog'[k] = backlog[k]
      BY <1>1
    <2>2. DOMAIN backlog' = DOMAIN backlog \cup {Len(backlog) + 1} /\ backlog'[Len(backlog) + 1] = n
      BY <1>1
    <2> QED BY <2>1, <2>2 DEF Conns
  <1>4. CtlTypeOK'
    BY <1>2
  <1>5. Channel'
    BY <1>1, <1>3 DEF Channel, Abandoned, Up
  <1> QED BY <1>4, <1>5

LEMMA PutConns ==
    ASSUME CtlTypeOK, NEW p \in Peer, NEW r \in Request,
           backlog' = [k \in DOMAIN backlog |-> Put(backlog[k], p, r)],
           serving' = {Put(c, p, r) : c \in serving}
    PROVE  /\ backlog' \in Seq(Conn) /\ serving' \in SUBSET Conn
           /\ \A c, e \in serving' : c = e
           /\ \A e \in Conns' : \E c \in Conns : e = Put(c, p, r)
           /\ serving = {} => serving' = {}
           /\ backlog = <<>> => backlog' = <<>>
  <1>1. \A c \in Conn : Put(c, p, r) \in Conn
    BY DEF Put, Conn
  <1>2. \A k \in DOMAIN backlog : backlog[k] \in Conn
    BY DEF CtlTypeOK
  <1>3. backlog' \in [DOMAIN backlog -> Conn]
    BY <1>1, <1>2
  <1>4. backlog' \in Seq(Conn) /\ (backlog = <<>> => backlog' = <<>>)
    BY <1>3, Elementwise, Zenon DEF CtlTypeOK
  <1>5. \A e \in Conns' : \E c \in Conns : e = Put(c, p, r)
    BY DEF Conns
  <1> QED BY <1>1, <1>4, <1>5 DEF CtlTypeOK

LEMMA SendKeeps ==
    ASSUME CInv, NEW p \in Peer, NEW r \in Request, Send(p, r),
           p \in Tool => r.cmd = "text"
    PROVE  CInv'
  <1> USE DEF CInv, Send, serverVars
  <1>1. /\ backlog' \in Seq(Conn) /\ serving' \in SUBSET Conn
        /\ \A c, e \in serving' : c = e
        /\ \A e \in Conns' : \E c \in Conns : e = Put(c, p, r)
        /\ serving = {} => serving' = {}
        /\ backlog = <<>> => backlog' = <<>>
    BY PutConns
  <1>2. CtlTypeOK'
    BY <1>1 DEF CtlTypeOK
  <1>3. \A c \in Conns : c \in Conn
    BY DEF Conns, CtlTypeOK
  <1>4. \A c \in Conn : Put(c, p, r).open = c.open /\ (TextOnly(c) => TextOnly(Put(c, p, r)))
    BY DEF Put, Conn, Request, TextOnly
  <1>5. Channel'
    BY <1>1, <1>3, <1>4 DEF Channel, Abandoned, Up
  <1> QED BY <1>2, <1>5

LEMMA CallEndsKeeps ==
    ASSUME CInv, NEW p \in Peer, NEW a, NEW next \in {"none", "connect"},
           CallEnds(p, a, next)
    PROVE  CInv'
  <1> USE DEF CInv, CallEnds, serverVars, connVars
  <1>1. NoAnswer \in Response /\ NoAnswer.status = "NONE"
    BY DEF NoAnswer, Response
  <1>2. CtlTypeOK'
    BY <1>1 DEF CtlTypeOK
  <1>3. Channel'
    <2>1. Conns' = Conns
      BY DEF Conns
    <2>2. \A x \in Tool : answer'[x].status = "NONE"
      BY <1>1, Peers DEF Channel, CtlTypeOK
    <2> QED BY <2>1, <2>2 DEF Channel, Abandoned, Up
  <1> QED BY <1>2, <1>3

\* A call that ends has brought the peer an answer of the server, or failed.
LEMMA CallEndsWith ==
    ASSUME CtlTypeOK, NEW p \in Peer, NEW a, NEW next, CallEnds(p, a, next)
    PROVE  a \in Response
  BY DEF CallEnds, CtlTypeOK, Failed, Response

LEMMA ShutConns ==
    ASSUME CtlTypeOK, NEW P \in SUBSET Peer, Close(P)
    PROVE  /\ backlog' \in Seq(Conn) /\ serving' \in SUBSET Conn
           /\ \A c, e \in serving' : c = e
           /\ \A e \in Conns' : \E c \in Conns : e = Shut(c, P)
           /\ serving = {} => serving' = {}
           /\ backlog = <<>> => backlog' = <<>>
  <1>1. \A c \in Conn : Shut(c, P) \in Conn
    BY DEF Shut, Conn
  <1>2. \A k \in DOMAIN backlog : backlog[k] \in Conn
    BY DEF CtlTypeOK
  <1>3. backlog' \in [DOMAIN backlog -> Conn]
    BY <1>1, <1>2 DEF Close
  <1>4. backlog' \in Seq(Conn) /\ (backlog = <<>> => backlog' = <<>>)
    BY <1>3, Elementwise, Zenon DEF CtlTypeOK
  <1>5. \A e \in Conns' : \E c \in Conns : e = Shut(c, P)
    BY DEF Conns, Close
  <1> QED BY <1>1, <1>4, <1>5 DEF CtlTypeOK, Close

\* Each connection that is closed makes left greater than deaths.
LEMMA LeaveKeeps ==
    ASSUME CInv, NEW P \in SUBSET Peer, Leave(P)
    PROVE  CInv'
  <1> USE DEF CInv, Leave, serverVars
  <1>1. /\ backlog' \in Seq(Conn) /\ serving' \in SUBSET Conn
        /\ \A c, e \in serving' : c = e
        /\ \A e \in Conns' : \E c \in Conns : e = Shut(c, P)
        /\ serving = {} => serving' = {}
        /\ backlog = <<>> => backlog' = <<>>
    BY ShutConns
  <1>2. answer' \in [Peer -> Response] /\ (\A p \in P : answer'[p].status = "NONE")
                                      /\ (\A p \in Peer \ P : answer'[p] = answer[p])
    BY DEF Close, CtlTypeOK, NoAnswer, Response
  <1>3. left \in Nat /\ deaths \in Nat /\ left' \in {left, left + 1}
    BY DEF CtlTypeOK
  <1>4. CtlTypeOK'
    BY <1>1, <1>2, <1>3 DEF CtlTypeOK
  <1>5. \A c \in Conns : c \in Conn
    BY DEF Conns, CtlTypeOK
  <1>6. \A c \in Conn : TextOnly(c) => TextOnly(Shut(c, P))
    BY DEF Shut, Conn, TextOnly
  <1>7. ASSUME Up', Abandoned'
        PROVE  deaths' < left'
    <2>1. PICK e \in Conns' : ~e.open
      BY <1>7 DEF Abandoned
    <2>2. PICK c \in Conns : e = Shut(c, P)
      BY <1>1, <2>1
    <2>3. CASE c.open
      <3>1. c.from \in P
        BY <1>5, <2>1, <2>2, <2>3 DEF Shut, Conn
      <3>2. \E p \in P : Connected(p)
        BY <2>3, <3>1 DEF Connected
      <3> QED BY <3>2, <1>3 DEF Channel
    <2>4. CASE ~c.open
      BY <1>3, <1>7, <2>4 DEF Channel, Abandoned, Up
    <2> QED BY <2>3, <2>4
  <1>8. Channel'
    BY <1>1, <1>2, <1>3, <1>5, <1>6, <1>7, Peers DEF Channel
  <1> QED BY <1>4, <1>8

-----------------------------------------------------------------------------
(* The steps of the server keep it.                                        *)

LEMMA AcceptKeeps ==
    ASSUME CInv, AcceptCtl
    PROVE  CInv'
  <1> USE DEF CInv, AcceptCtl, peerVars
  <1>1. Head(backlog) \in Conn /\ Tail(backlog) \in Seq(Conn)
    BY DEF CtlTypeOK
  <1>2. Conns' \subseteq Conns
    <2>1. \E k \in DOMAIN backlog : backlog[k] = Head(backlog)
      BY DEF CtlTypeOK
    <2>2. \A k \in DOMAIN Tail(backlog) : k + 1 \in DOMAIN backlog
                                          /\ Tail(backlog)[k] = backlog[k + 1]
      BY DEF CtlTypeOK
    <2> QED BY <2>1, <2>2 DEF Conns
  <1>3. CtlTypeOK'
    BY <1>1 DEF CtlTypeOK
  <1>4. Channel'
    BY <1>2 DEF Channel, Abandoned, Up
  <1> QED BY <1>3, <1>4

LEMMA HangUpKeeps ==
    ASSUME CInv, HangUp
    PROVE  CInv'
  <1> USE DEF CInv, HangUp, peerVars
  <1>1. CtlTypeOK'
    BY DEF CtlTypeOK
  <1>2. Conns' \subseteq Conns
    BY DEF Conns
  <1>3. Channel'
    BY <1>2 DEF Channel, Abandoned, Up
  <1> QED BY <1>1, <1>3

LEMMA ServeKeeps ==
    ASSUME CInv, Serve
    PROVE  CInv'
  <1> USE DEF CInv, Serve
  <1>1. PICK c \in serving :
          /\ c.open /\ Readable(c)
          /\ week' = IF c.req.cmd = "SET_HW" THEN c.req.week ELSE week
          /\ answer' = [answer EXCEPT ![c.from] = Reply(c.req)]
    OBVIOUS
  <1>2. c \in Conn /\ c.from \in Peer /\ c.req \in Request
    BY DEF CtlTypeOK, Conn
  <1>3. week' \in Week
    BY <1>1, <1>2 DEF Request, Cmd, CtlTypeOK
  <1>4. Reply(c.req) \in Response
    BY <1>2 DEF Reply, Request, Cmd, Response, CtlTypeOK
  <1>5. CtlTypeOK'
    BY <1>1, <1>3, <1>4 DEF CtlTypeOK
  <1>6. Conns' \subseteq Conns
    BY DEF Conns
  <1>7. c.from \notin Tool
    BY <1>1 DEF Readable, Channel, Conns, TextOnly
  <1>8. \A x \in Tool : answer'[x].status = "NONE"
    BY <1>1, <1>2, <1>7, Peers DEF Channel, CtlTypeOK
  <1>9. Channel'
    BY <1>6, <1>8 DEF Channel, Abandoned, Up
  <1> QED BY <1>5, <1>9

\* The server dies of an abandoned connection.
LEMMA ServeBreaksKeeps ==
    ASSUME CInv, ServeBreaks
    PROVE  CInv'
  <1> USE DEF CInv, ServeBreaks, peerVars
  <1>1. CtlTypeOK'
    <2>1. backlog' \in Seq(Conn)
      <3>1. <<>> \in Seq(Conn)
        BY EmptySeq, Zenon
      <3>2. backlog' = backlog \/ backlog' = <<>>
        OBVIOUS
      <3> QED BY <3>1, <3>2, Zenon DEF CtlTypeOK
    <2>2. main' \in {"held", "down"} /\ deaths' \in Nat
      BY DEF CtlTypeOK
    <2> QED BY <2>1, <2>2 DEF CtlTypeOK
  <1>2. deaths < left
    BY DEF Channel, Abandoned, Up, Conns
  <1>3. Conns' \subseteq Conns
    BY DEF Conns
  <1>4. Channel'
    BY <1>2, <1>3 DEF Channel, CtlTypeOK, Up
  <1> QED BY <1>1, <1>4

LEMMA EnvironmentKeeps ==
    ASSUME CInv, ChildEnds \/ Restart
    PROVE  CInv'
  <1> USE DEF CInv, peerVars, connVars
  <1>1. CASE ChildEnds
    <2>1. CtlTypeOK'
      BY <1>1, EmptySeq DEF ChildEnds, CtlTypeOK
    <2>2. Channel'
      BY <1>1 DEF ChildEnds, Channel, Up, Conns
    <2> QED BY <2>1, <2>2
  <1>2. CASE Restart
    <2>1. CtlTypeOK'
      BY <1>2, CtlAssumption DEF Restart, CtlTypeOK
    <2>2. Conns' = {}
      BY <1>2 DEF Restart, Channel, Conns
    <2>3. Channel'
      BY <1>2, <2>2 DEF Restart, Channel, Abandoned
    <2> QED BY <2>1, <2>3
  <1> QED BY <1>1, <1>2

LEMMA ChannelStays ==
    ASSUME CInv, UNCHANGED ctlVars
    PROVE  CInv'
  BY DEF CInv, CtlTypeOK, Channel, Abandoned, Conns, Up, TextOnly,
         ctlVars, serverVars, connVars, peerVars

-----------------------------------------------------------------------------
(* The dashboards' part.                                                   *)

DInv == DashTypeOK /\ SnapshotOfOneWeek /\ NoLostRedraw

LEMMA Snapshots ==
    /\ NoSnap \in Snap /\ NoSnap.list = NoSnap.week
    /\ \A a \in Response : SnapOf(a) \in Snap /\ SnapOf(a).list = SnapOf(a).week
  BY DEF NoSnap, Snap, SnapOf, Response

LEMMA DashboardStays ==
    ASSUME DInv, UNCHANGED dashVars
    PROVE  DInv'
  BY DEF DInv, DashTypeOK, SnapshotOfOneWeek, NoLostRedraw, dashVars

LEMMA ResetKeeps ==
    ASSUME DInv, NEW d \in Admin, Reset(d)
    PROVE  DInv'
  BY Snapshots DEF DInv, Reset, Set, DashTypeOK, SnapshotOfOneWeek, NoLostRedraw

LEMMA PollStepKeeps ==
    ASSUME CInv, DInv, NEW d \in Admin, PollStep(d)
    PROVE  CInv' /\ DInv'
  <1>0. Poll(d) \in Peer \ Tool
    BY Peers
  <1>1. CASE PollCall(d)
    <2>1. DInv'
      BY <1>1, DashboardStays DEF PollCall
    <2>2. Req("GET_TRACKER") \in Request /\ Req("GET_CSV_STAT") \in Request
      BY DEF Req, Request, Cmd
    <2>3. CInv'
      BY <1>0, <1>1, <2>2, ConnectKeeps, SendKeeps DEF PollCall
    <2> QED BY <2>1, <2>3
  <1>2. CASE Wake(d)
    <2>1. DInv'
      BY <1>2 DEF Wake, Set, DInv, DashTypeOK, SnapshotOfOneWeek, NoLostRedraw
    <2>2. call' \in [Peer -> {"none", "connect", "send", "recv"}]
      BY <1>0, <1>2 DEF Wake, CInv, CtlTypeOK
    <2>3. CInv'
      BY <1>2, <2>2 DEF Wake, CInv, CtlTypeOK, Channel, Abandoned, Conns, Up, TextOnly,
                        serverVars, connVars
    <2> QED BY <2>1, <2>3
  <1>3. CASE GotTracker(d)
    <2>1. PICK a \in {answer[Poll(d)], Failed} :
            /\ CallEnds(Poll(d), a, IF a.status = "OK" THEN "connect" ELSE "none")
            /\ IF a.status = "OK"
               THEN poll' = Set(poll, d, "csv") /\ t' = Set(t, d, SnapOf(a))
               ELSE poll' = Set(poll, d, "sleep") /\ UNCHANGED t
      BY <1>3 DEF GotTracker
    <2>2. CInv'
      BY <1>0, <2>1, CallEndsKeeps
    <2>3. a \in Response
      BY <1>0, <2>1, CallEndsWith DEF CInv
    <2>4. DInv'
      BY <1>3, <2>1, <2>3, Snapshots
      DEF GotTracker, Set, DInv, DashTypeOK, SnapshotOfOneWeek, NoLostRedraw
    <2> QED BY <2>2, <2>4
  <1>4. CASE GotCsvStat(d)
    <2>1. CInv'
      BY <1>0, <1>4, CallEndsKeeps DEF GotCsvStat
    <2>2. DInv'
      BY <1>4 DEF GotCsvStat, Set, DInv, DashTypeOK, SnapshotOfOneWeek, NoLostRedraw
    <2> QED BY <2>1, <2>2
  <1>5. CASE Store(d)
    <2>1. CInv'
      BY <1>5, ChannelStays DEF Store
    <2>2. DInv'
      BY <1>5, Snapshots DEF Store, Set, DInv, DashTypeOK, SnapshotOfOneWeek, NoLostRedraw
    <2> QED BY <2>1, <2>2
  <1>6. CASE Signal(d)
    <2>1. CInv'
      BY <1>6, ChannelStays DEF Signal
    <2>2. DInv'
      BY <1>6 DEF Signal, Set, DInv, DashTypeOK, SnapshotOfOneWeek, NoLostRedraw
    <2> QED BY <2>1, <2>2
  <1> QED BY <1>1, <1>2, <1>3, <1>4, <1>5, <1>6 DEF PollStep

LEMMA UiStepKeeps ==
    ASSUME CInv, DInv, NEW d \in Admin, UiStep(d)
    PROVE  CInv' /\ DInv'
  <1>0. UI(d) \in Peer \ Tool
    BY Peers
  <1>1. CASE UiCall(d)
    <2>1. DInv'
      BY <1>1, DashboardStays DEF UiCall
    <2>2. /\ Req("GET_TRACKER") \in Request /\ Req("OTHER") \in Request
          /\ \A w \in Week : ReqSetHw(w) \in Request
      BY DEF Req, ReqSetHw, Request, Cmd
    <2>3. CInv'
      BY <1>0, <1>1, <2>2, ConnectKeeps, SendKeeps DEF UiCall
    <2> QED BY <2>1, <2>3
  <1>2. CASE GotFirst(d)
    <2>1. PICK a \in {answer[UI(d)], Failed} :
            /\ CallEnds(UI(d), a, "none")
            /\ g_snap' = IF a.status = "OK" THEN Set(g_snap, d, SnapOf(a)) ELSE g_snap
      BY <1>2 DEF GotFirst
    <2>2. CInv'
      BY <1>0, <2>1, CallEndsKeeps
    <2>3. a \in Response
      BY <1>0, <2>1, CallEndsWith DEF CInv
    <2>4. DInv'
      BY <1>2, <2>1, <2>3, Snapshots
      DEF GotFirst, Set, Window, DInv, DashTypeOK, SnapshotOfOneWeek, NoLostRedraw
    <2> QED BY <2>2, <2>4
  <1>3. CASE GotOutcome(d)
    <2>1. CInv'
      BY <1>0, <1>3, CallEndsKeeps DEF GotOutcome
    <2>2. DInv'
      BY <1>3 DEF GotOutcome, Set, DInv, DashTypeOK, SnapshotOfOneWeek, NoLostRedraw
    <2> QED BY <2>1, <2>2
  <1>4. CASE ReadEvent(d) \/ DrawMenu(d) \/ DrawHdr(d) \/ DrawInfo(d)
    <2>1. CInv'
      BY <1>4, ChannelStays DEF ReadEvent, DrawMenu, DrawHdr, DrawInfo
    <2>2. CASE ReadEvent(d)
      BY <2>1, <2>2 DEF ReadEvent, Set, DInv, DashTypeOK, SnapshotOfOneWeek, NoLostRedraw
    <2>3. CASE DrawMenu(d)
      BY <2>1, <2>3 DEF DrawMenu, Window, DInv, DashTypeOK, SnapshotOfOneWeek, NoLostRedraw
    <2>4. CASE DrawHdr(d)
      BY <2>1, <2>4 DEF DrawHdr, Set, Window, DInv, DashTypeOK, SnapshotOfOneWeek, NoLostRedraw
    <2>5. CASE DrawInfo(d)
      BY <2>1, <2>5 DEF DrawInfo, Set, Window, DInv, DashTypeOK, SnapshotOfOneWeek, NoLostRedraw
    <2> QED BY <1>4, <2>2, <2>3, <2>4, <2>5
  <1>5. CASE Joined(d)
    BY <1>5, ResetKeeps, ChannelStays DEF Joined
  <1> QED BY <1>1, <1>2, <1>3, <1>4, <1>5 DEF UiStep

\* What the administrator does changes the channel at most by a new call.
LEMMA AdminStepKeeps ==
    ASSUME CInv, DInv, NEW d \in Admin, AdminStep(d)
    PROVE  CInv' /\ DInv'
  <1>1. CASE Killed(d)
    BY <1>1, ResetKeeps, LeaveKeeps, Peers DEF Killed
  <1>2. CASE Start(d) \/ Choose(d) \/ ClosePopup(d) \/ Quit(d)
    <2>0. UI(d) \in Peer
      BY Peers
    <2>1. /\ call' \in [Peer -> {"none", "connect", "send", "recv"}]
          /\ UNCHANGED <<serverVars, connVars, answer, left>>
      BY <1>2, <2>0 DEF Start, Choose, ClosePopup, Quit, GoOn, CInv, CtlTypeOK
    <2>2. CInv'
      BY <2>1 DEF CInv, CtlTypeOK, Channel, Abandoned, Conns, Up, TextOnly,
                  serverVars, connVars
    <2>3. DashTypeOK'
      BY <1>2 DEF Start, Choose, ClosePopup, Quit, GoOn, Set, DInv, DashTypeOK
    <2>4. SnapshotOfOneWeek'
      BY <1>2 DEF Start, Choose, ClosePopup, Quit, GoOn, DInv, SnapshotOfOneWeek
    <2>5. NoLostRedraw'
      BY <1>2 DEF Start, Choose, ClosePopup, Quit, GoOn, Set, DInv, DashTypeOK, NoLostRedraw
    <2> QED BY <2>2, <2>3, <2>4, <2>5 DEF DInv
  <1> QED BY <1>1, <1>2 DEF AdminStep

LEMMA ToolKeeps ==
    ASSUME CInv, DInv, NEW x \in Tool, ToolStart(x) \/ ToolStep(x) \/ ToolKilled(x)
    PROVE  CInv' /\ DInv'
  <1>0. x \in Peer
    BY Peers
  <1>1. DInv'
    BY DashboardStays DEF ToolStart, ToolStep, ToolKilled, dashVars
  <1>2. CASE ToolStart(x)
    <2>1. call' \in [Peer -> {"none", "connect", "send", "recv"}]
      BY <1>0, <1>2 DEF ToolStart, CInv, CtlTypeOK
    <2>2. CInv'
      BY <1>2, <2>1 DEF ToolStart, CInv, CtlTypeOK, Channel, Abandoned, Conns, Up, TextOnly,
                        serverVars, connVars
    <2> QED BY <1>1, <2>2
  <1>3. CASE ToolStep(x)
    <2>1. Req("text") \in Request /\ Req("text").cmd = "text"
      BY DEF Req, Request, Cmd
    <2>2. {x} \in SUBSET Peer
      BY <1>0
    <2>3. CInv'
      BY <1>0, <1>3, <2>1, <2>2, ConnectKeeps, SendKeeps, CallEndsKeeps, LeaveKeeps DEF ToolStep
    <2> QED BY <1>1, <2>3
  <1>4. CASE ToolKilled(x)
    BY <1>0, <1>1, <1>4, LeaveKeeps DEF ToolKilled
  <1> QED BY <1>2, <1>3, <1>4

-----------------------------------------------------------------------------
(* The theorems.                                                           *)

LEMMA InitIInv == Init => CInv /\ DInv
  <1> SUFFICES ASSUME Init PROVE CInv /\ DInv
    OBVIOUS
  <1>1. NoAnswer \in Response /\ NoAnswer.status = "NONE"
    BY DEF NoAnswer, Response
  <1>2. CtlTypeOK
    <2>1. <<>> \in Seq(Conn)
      BY EmptySeq, Zenon
    <2> QED BY <1>1, <2>1, CtlAssumption DEF Init, CtlInit, CtlTypeOK
  <1>3. Conns = {}
    BY DEF Init, CtlInit, Conns
  <1>4. Channel
    BY <1>1, <1>3, Peers DEF Init, CtlInit, Channel, Abandoned
  <1>5. DInv
    BY Snapshots DEF Init, DInv, DashTypeOK, SnapshotOfOneWeek, NoLostRedraw
  <1> QED BY <1>2, <1>4, <1>5 DEF CInv

LEMMA NextIInv == CInv /\ DInv /\ [Next]_vars => CInv' /\ DInv'
  <1> SUFFICES ASSUME CInv, DInv, [Next]_vars PROVE CInv' /\ DInv'
    OBVIOUS
  <1>1. CASE ServerStep
    BY <1>1, AcceptKeeps, HangUpKeeps, ServeKeeps, ServeBreaksKeeps, DashboardStays
    DEF ServerStep, MainStep
  <1>2. CASE Environment
    BY <1>2, EnvironmentKeeps, DashboardStays DEF Environment
  <1>3. ASSUME NEW d \in Admin, PollStep(d) \/ UiStep(d) \/ AdminStep(d) \/ Breaks(d)
        PROVE  CInv' /\ DInv'
    <2>1. CASE Breaks(d)
      BY <2>1, ResetKeeps, LeaveKeeps, Peers DEF Breaks
    <2> QED BY <1>3, <2>1, PollStepKeeps, UiStepKeeps, AdminStepKeeps
  <1>4. ASSUME NEW x \in Tool, ToolStart(x) \/ ToolStep(x) \/ ToolKilled(x)
        PROVE  CInv' /\ DInv'
    BY <1>4, ToolKeeps
  <1>5. CASE UNCHANGED vars
    BY <1>5, ChannelStays, DashboardStays DEF vars
  <1> QED BY <1>1, <1>2, <1>3, <1>4, <1>5 DEF Next

\* The inductive invariant: types, the connections that peers have abandoned
\* against those that brought the server down (server.c:1147), the text of
\* minici-ctl that never makes a request (server.c:1030), the snapshots and
\* the windows (minici-tui.c:281-304, 519-525).
THEOREM InvAlways == Spec => []IInv
  <1>1. CInv /\ DInv <=> IInv
    BY DEF IInv, CInv, DInv, TypeOK
  <1>2. Spec => [](CInv /\ DInv)
    BY InitIInv, NextIInv, PTL DEF Spec
  <1> QED BY <1>1, <1>2, PTL

\* Every variable keeps its type; the main thread serves one administrator at
\* a time (server.c:1312-1343).
THEOREM TypeCorrect == Spec => []TypeOK
  <1>1. IInv => TypeOK
    BY DEF IInv
  <1> QED BY <1>1, InvAlways, PTL

\* The server is brought down at most once by each process that ends while it
\* is connected (server.c:1147).
THEOREM Departures == Spec => []DeathsAreDepartures
  <1>1. IInv => DeathsAreDepartures
    BY DEF IInv, Channel, DeathsAreDepartures
  <1> QED BY <1>1, InvAlways, PTL

\* No minici-ctl is ever answered, whatever else goes on (minici-ctl.c:85-98).
THEOREM NeverAnswered == Spec => []ToolIsNeverAnswered
  <1>1. IInv => ToolIsNeverAnswered
    BY DEF IInv, Channel, ToolIsNeverAnswered
  <1> QED BY <1>1, InvAlways, PTL

\* No dashboard ever has one week's list under another week's name
\* (minici-tui.c:648-652).
THEOREM OneWeek == Spec => []SnapshotOfOneWeek
  <1>1. IInv => SnapshotOfOneWeek
    BY DEF IInv
  <1> QED BY <1>1, InvAlways, PTL

\* No change of the snapshot goes undrawn, whenever it falls between the
\* reading of the event and the two windows (minici-tui.c:519-525).
THEOREM RedrawComes == Spec => []NoLostRedraw
  <1>1. IInv => NoLostRedraw
    BY DEF IInv
  <1> QED BY <1>1, InvAlways, PTL
-----------------------------------------------------------------------------
(* Calls and connections: no circular wait, and answers that fit.          *)

\* The main thread, which serves one administrator after the other, waits in
\* recv only for a dashboard's thread that can send, or for a minici-ctl; and a
\* thread that waits in recv on an open connection has sent all that the main
\* thread needs to answer it (server.c:1030, minici-tui.c:73-87).
NoCircularWait ==
    /\ main = "recv" =>
         \E c \in serving :
            \/ Readable(c) \/ ~c.open
            \/ c.from \in Thread /\ call[c.from] = "send" /\ Connected(c.from)
            \/ c.from \in Tool
    /\ \A p \in Thread :
         call[p] = "recv" /\ answer[p].status = "NONE" =>
            \/ ~Connected(p)
            \/ \E c \in Conns : c.from = p /\ c.open /\ Readable(c)

\* A dashboard that shows a week shows one until it ends: no answer to another
\* request and no failed call is taken for a snapshot (minici-tui.c:281-304).
WeekStaysShown ==
    [][\A d \in Admin :
          g_snap[d].week \in Week /\ ui'[d] # "off" => g_snap'[d].week \in Week]_vars

\* A dashboard in use has its polling thread, which ends when it is quit and
\* not before (minici-tui.c:281-304, 715-717).
PollerLives ==
    \A d \in Admin :
        ui[d] \notin {"off", "init"} =>
            /\ poll[d] # "off"
            /\ poll[d] = "done" \/ ui[d] = "join" => ~tui_running[d]
            /\ ~tui_running[d] => ui[d] = "join"

\* Each peer has at most one open connection.
OneOpenEach ==
    /\ \A i, j \in DOMAIN backlog :
          backlog[i].open /\ backlog[j].open /\ backlog[i].from = backlog[j].from => i = j
    /\ \A i \in DOMAIN backlog, c \in serving :
          backlog[i].open /\ c.open => backlog[i].from # c.from

\* It belongs to the call under way, and is gone when the answer is there.
Underway ==
    \A c \in Conns : c.open =>
        /\ call[c.from] \in {"send", "recv"}
        /\ call[c.from] = "send" <=> c.req.cmd = "none"
        /\ answer[c.from].status = "NONE"

Link ==
    /\ OneOpenEach
    /\ Underway
    /\ \A p \in Peer : answer[p].status # "NONE" => call[p] = "recv"
    /\ \A c \in Conns : c.from \notin Tool => c.req.cmd # "text"
    /\ main = "recv" => serving # {}

\* Peer q asks for the tracker and for nothing else, and is answered so.
Fit(q) ==
    /\ \A c \in Conns : c.from = q /\ c.open => c.req.cmd \in {"none", "GET_TRACKER"}
    /\ answer[q].status = "OK" => answer[q].week \in Week

\* What is called when, in both threads; and the snapshot between two calls.
Asks(q) ==
    \E d \in Admin : \/ q = UI(d) /\ ui[d] = "init"
                     \/ q = Poll(d) /\ poll[d] = "tracker"

CallPlace ==
    \A d \in Admin :
        /\ poll[d] \notin {"tracker", "csv"} => call[Poll(d)] = "none"
        /\ ui[d] \notin {"init", "ipc"} => call[UI(d)] = "none"
        /\ ui[d] \in {"off", "init"} => poll[d] = "off" /\ tui_running[d]
        /\ poll[d] \in {"csv", "store"} => t[d].week \in Week

LInv ==
    /\ Link
    /\ CallPlace
    /\ PollerLives
    /\ \A q \in Peer : Asks(q) => Fit(q)

-----------------------------------------------------------------------------
(* The channel's operators keep the link.                                  *)

LEMMA ConnsTyped ==
    ASSUME CtlTypeOK
    PROVE  \A c \in Conns : c \in Conn /\ c.from \in Peer
  <1>1. \A c \in Conns : c \in Conn
    BY DEF Conns, CtlTypeOK
  <1> QED BY <1>1 DEF Conn

\* A peer without a request under way has nothing open and no answer.
LEMMA IdleFits ==
    ASSUME Link, NEW q \in Peer, call[q] \in {"none", "connect"}
    PROVE  Fit(q) /\ ~Connected(q) /\ answer[q].status = "NONE"
  BY DEF Link, Underway, Fit, Connected

\* Connections that are dropped, with calls and answers as they were.
LEMMA FewerConns ==
    ASSUME Link, Conns' \subseteq Conns, UNCHANGED <<call, answer>>, OneOpenEach',
           main' = "recv" => serving' # {}
    PROVE  Link' /\ \A q \in Peer : Fit(q) => Fit(q)'
  <1>1. Link'
    BY DEF Link, Underway
  <1>2. \A q \in Peer : Fit(q) => Fit(q)'
    BY DEF Fit
  <1> QED BY <1>1, <1>2

LEMMA LinkConnect ==
    ASSUME CtlTypeOK, Link, NEW p \in Peer, Connect(p)
    PROVE  Link' /\ \A q \in Peer : Fit(q) => Fit(q)'
  <1> DEFINE n == [from |-> p, req |-> Req("none"), open |-> TRUE]
             k == Len(backlog) + 1
  <1>1. n.from = p /\ n.open /\ n.req.cmd = "none"
    BY DEF Req
  <1>2. /\ backlog \in Seq(Conn) /\ backlog' = Append(backlog, n)
        /\ call[p] = "connect" /\ call' = [call EXCEPT ![p] = "send"]
        /\ UNCHANGED <<main, serving, answer>>
    BY DEF Connect, CtlTypeOK, serverVars
  <1> HIDE DEF n
  <1>3. /\ DOMAIN backlog' = DOMAIN backlog \cup {k} /\ k \notin DOMAIN backlog
        /\ backlog'[k] = n /\ \A i \in DOMAIN backlog : backlog'[i] = backlog[i]
    BY <1>2
  <1> HIDE DEF k
  <1>4. Conns' = Conns \cup {n}
    BY <1>2, <1>3 DEF Conns
  <1>5. \A c \in Conns : c.open => c.from # p /\ call'[c.from] = call[c.from]
    <2>1. \A c \in Conns : c.from \in Peer
      BY ConnsTyped
    <2> QED BY <1>2, <2>1 DEF Link, Underway, CtlTypeOK
  <1>6. OneOpenEach'
    <2>1. \A i \in DOMAIN backlog : backlog[i] \in Conns
      BY DEF Conns
    <2>2. \A c \in serving : c \in Conns
      BY DEF Conns
    <2> QED BY <1>1, <1>2, <1>3, <1>5, <2>1, <2>2 DEF OneOpenEach, Link
  <1>7. Underway'
    <2>1. call'[p] = "send" /\ answer[p].status = "NONE"
      BY <1>2 DEF Link, CtlTypeOK
    <2> QED BY <1>1, <1>2, <1>4, <1>5, <2>1 DEF Underway, Link
  <1>8. \A q \in Peer : answer'[q].status # "NONE" => call'[q] = "recv"
    BY <1>2 DEF Link, CtlTypeOK
  <1>9. \A c \in Conns' : c.from \notin Tool => c.req.cmd # "text"
    BY <1>1, <1>4 DEF Link
  <1>10. \A q \in Peer : Fit(q) => Fit(q)'
    BY <1>1, <1>2, <1>4 DEF Fit
  <1>11. main' = "recv" => serving' # {}
    BY <1>2 DEF Link
  <1> QED BY <1>6, <1>7, <1>8, <1>9, <1>10, <1>11 DEF Link

LEMMA LinkSend ==
    ASSUME CtlTypeOK, Link, NEW p \in Peer, NEW r \in Request, Send(p, r),
           r.cmd # "none", r.cmd = "text" => p \in Tool
    PROVE  /\ Link'
           /\ \A q \in Peer : Fit(q) /\ (q = p => r.cmd = "GET_TRACKER") => Fit(q)'
  <1>1. /\ backlog' = [k \in DOMAIN backlog |-> Put(backlog[k], p, r)]
        /\ serving' = {Put(c, p, r) : c \in serving}
        /\ call[p] = "send" /\ call' = [call EXCEPT ![p] = "recv"]
        /\ UNCHANGED <<main, answer>>
    BY DEF Send, serverVars
  <1>2. \A c \in Conn : /\ Put(c, p, r).from = c.from /\ Put(c, p, r).open = c.open
                        /\ IF c.from = p /\ c.open THEN Put(c, p, r).req = r
                                                   ELSE Put(c, p, r).req = c.req
    BY DEF Put, Conn
  <1>3. (\A i \in DOMAIN backlog : backlog[i] \in Conn) /\ (\A c \in serving : c \in Conn)
    BY DEF CtlTypeOK
  <1>4. \A e \in Conns' : \E c \in Conns : c \in Conn /\ e = Put(c, p, r)
    BY <1>1, <1>3 DEF Conns
  <1>5. OneOpenEach'
    BY <1>1, <1>2, <1>3 DEF OneOpenEach, Link
  <1>6. Underway'
    <2>1. ASSUME NEW e \in Conns', e.open
          PROVE  /\ call'[e.from] \in {"send", "recv"}
                 /\ call'[e.from] = "send" <=> e.req.cmd = "none"
                 /\ answer'[e.from].status = "NONE"
      <3>1. PICK c \in Conns : c \in Conn /\ e = Put(c, p, r)
        BY <1>4
      <3>2. c.open /\ e.from = c.from /\ c.from \in Peer
        BY <1>2, <2>1, <3>1 DEF Conn
      <3>3. CASE c.from = p
        BY <1>1, <1>2, <3>1, <3>2, <3>3 DEF Link, Underway, CtlTypeOK
      <3>4. CASE c.from # p
        BY <1>1, <1>2, <3>1, <3>2, <3>4 DEF Link, Underway, CtlTypeOK
      <3> QED BY <3>3, <3>4
    <2> QED BY <2>1 DEF Underway
  <1>7. \A q \in Peer : answer'[q].status # "NONE" => call'[q] = "recv"
    BY <1>1 DEF Link, CtlTypeOK
  <1>8. \A e \in Conns' : e.from \notin Tool => e.req.cmd # "text"
    BY <1>2, <1>4 DEF Link
  <1>9. ASSUME NEW q \in Peer, Fit(q), q = p => r.cmd = "GET_TRACKER"
        PROVE  Fit(q)'
    BY <1>1, <1>2, <1>4, <1>9 DEF Fit
  <1>10. main' = "recv" => serving' # {}
    BY <1>1 DEF Link
  <1> QED BY <1>5, <1>6, <1>7, <1>8, <1>9, <1>10 DEF Link

LEMMA LinkEnds ==
    ASSUME CtlTypeOK, Link, NEW p \in Peer, NEW a, NEW next \in {"none", "connect"},
           CallEnds(p, a, next)
    PROVE  Link' /\ \A q \in Peer : Fit(q) => Fit(q)'
  <1>1. /\ answer' = [answer EXCEPT ![p] = NoAnswer] /\ call' = [call EXCEPT ![p] = next]
        /\ UNCHANGED <<main, backlog, serving>>
    BY DEF CallEnds, serverVars, connVars
  <1>2. Conns' = Conns /\ NoAnswer.status = "NONE"
    BY <1>1 DEF Conns, NoAnswer
  <1>3. \A c \in Conns : c.from \in Peer
    BY ConnsTyped
  <1>4. \A c \in Conns : c.open => c.from # p
    BY DEF CallEnds, Connected, Link, Underway
  <1>5. Underway'
    BY <1>1, <1>2, <1>3, <1>4 DEF Link, Underway, CtlTypeOK
  <1>6. \A q \in Peer : answer'[q].status # "NONE" => call'[q] = "recv"
    BY <1>1, <1>2 DEF Link, CtlTypeOK
  <1>7. \A q \in Peer : Fit(q) => Fit(q)'
    BY <1>1, <1>2 DEF Fit, CtlTypeOK
  <1> QED BY <1>1, <1>2, <1>5, <1>6, <1>7 DEF Link, OneOpenEach

LEMMA LinkLeave ==
    ASSUME CtlTypeOK, Link, NEW P \in SUBSET Peer, Leave(P)
    PROVE  Link' /\ \A q \in Peer : Fit(q) => Fit(q)'
  <1>1. /\ backlog' = [k \in DOMAIN backlog |-> Shut(backlog[k], P)]
        /\ serving' = {Shut(c, P) : c \in serving}
        /\ answer' = [p \in Peer |-> IF p \in P THEN NoAnswer ELSE answer[p]]
        /\ call' = [p \in Peer |-> IF p \in P THEN "none" ELSE call[p]]
        /\ main' = main
    BY DEF Leave, Close, serverVars
  <1>2. \A c \in Conn : /\ Shut(c, P).from = c.from /\ Shut(c, P).req = c.req
                        /\ Shut(c, P).open <=> c.open /\ c.from \notin P
    BY DEF Shut, Conn
  <1>3. (\A i \in DOMAIN backlog : backlog[i] \in Conn) /\ (\A c \in serving : c \in Conn)
    BY DEF CtlTypeOK
  <1>4. \A e \in Conns' : \E c \in Conns : c \in Conn /\ e = Shut(c, P)
    BY <1>1, <1>3 DEF Conns
  <1>5. OneOpenEach'
    BY <1>1, <1>2, <1>3 DEF OneOpenEach, Link
  <1>6. Underway'
    <2>1. ASSUME NEW e \in Conns', e.open
          PROVE  /\ call'[e.from] \in {"send", "recv"}
                 /\ call'[e.from] = "send" <=> e.req.cmd = "none"
                 /\ answer'[e.from].status = "NONE"
      <3>1. PICK c \in Conns : c \in Conn /\ e = Shut(c, P)
        BY <1>4
      <3>2. c.open /\ c.from \notin P /\ e.from = c.from /\ c.from \in Peer /\ e.req = c.req
        BY <1>2, <2>1, <3>1 DEF Conn
      <3> QED BY <1>1, <3>2 DEF Link, Underway
    <2> QED BY <2>1 DEF Underway
  <1>7. NoAnswer.status = "NONE"
    BY DEF NoAnswer
  <1>8. \A q \in Peer : answer'[q].status # "NONE" => call'[q] = "recv"
    BY <1>1, <1>7 DEF Link
  <1>9. \A e \in Conns' : e.from \notin Tool => e.req.cmd # "text"
    BY <1>2, <1>4 DEF Link
  <1>10. \A q \in Peer : Fit(q) => Fit(q)'
    BY <1>1, <1>2, <1>4, <1>7 DEF Fit
  <1>11. main' = "recv" => serving' # {}
    BY <1>1 DEF Link
  <1> QED BY <1>5, <1>6, <1>8, <1>9, <1>10, <1>11 DEF Link

LEMMA LinkAccept ==
    ASSUME CtlTypeOK, Link, AcceptCtl
    PROVE  Link' /\ \A q \in Peer : Fit(q) => Fit(q)'
  <1>1. /\ backlog \in Seq(Conn) /\ backlog # <<>> /\ serving' = {Head(backlog)}
        /\ backlog' = Tail(backlog) /\ UNCHANGED <<call, answer>>
    BY DEF AcceptCtl, CtlTypeOK, peerVars
  <1>2. 1 \in DOMAIN backlog /\ Head(backlog) = backlog[1]
    BY <1>1
  <1>3. \A i \in DOMAIN backlog' : /\ i + 1 \in DOMAIN backlog /\ i + 1 # 1 /\ i \in Nat
                                   /\ backlog'[i] = backlog[i + 1]
    BY <1>1
  <1>4. Conns' \subseteq Conns
    BY <1>1, <1>2, <1>3 DEF Conns
  <1>5. OneOpenEach'
    <2>1. ASSUME NEW i \in DOMAIN backlog', NEW j \in DOMAIN backlog',
                 backlog'[i].open, backlog'[j].open, backlog'[i].from = backlog'[j].from
          PROVE  i = j
      <3>1. i + 1 = j + 1
        BY <1>3, <2>1 DEF Link, OneOpenEach
      <3> QED BY <1>3, <3>1
    <2>2. ASSUME NEW i \in DOMAIN backlog', backlog'[i].open, backlog[1].open
          PROVE  backlog'[i].from # backlog[1].from
      BY <1>2, <1>3, <2>2 DEF Link, OneOpenEach
    <2> QED BY <1>1, <1>2, <2>1, <2>2 DEF OneOpenEach
  <1> QED BY <1>1, <1>4, <1>5, FewerConns

LEMMA LinkServe ==
    ASSUME CtlTypeOK, Link, Serve
    PROVE  Link' /\ \A q \in Peer : Fit(q) => Fit(q)'
  <1>1. PICK c \in serving :
          /\ c.open /\ Readable(c)
          /\ answer' = [answer EXCEPT ![c.from] = Reply(c.req)]
    BY DEF Serve
  <1>2. c \in Conn /\ c.from \in Peer /\ c.req \in Request /\ c \in Conns
    BY DEF CtlTypeOK, Conn, Conns
  <1>3. UNCHANGED <<backlog, call>> /\ serving' = {} /\ main' = "loop"
    BY DEF Serve
  <1>4. Conns' \subseteq Conns /\ \A e \in Conns' : \E i \in DOMAIN backlog : e = backlog[i]
    BY <1>3 DEF Conns
  <1>5. \A e \in Conns' : e.open => e.from # c.from
    BY <1>1, <1>4 DEF Link, OneOpenEach
  <1>6. call[c.from] = "recv"
    BY <1>1, <1>2 DEF Link, Underway, Readable
  <1>7. \A e \in Conns : e.from \in Peer
    BY ConnsTyped
  <1>8. Underway'
    BY <1>1, <1>3, <1>4, <1>5, <1>7 DEF Link, Underway, CtlTypeOK
  <1>9. \A q \in Peer : answer'[q].status # "NONE" => call'[q] = "recv"
    BY <1>1, <1>2, <1>3, <1>6 DEF Link, CtlTypeOK
  <1>10. ASSUME NEW q \in Peer, Fit(q)
         PROVE  Fit(q)'
    <2>1. CASE q = c.from
      <3>1. c.req.cmd = "GET_TRACKER"
        BY <1>1, <1>2, <1>10, <2>1 DEF Fit, Readable
      <3>2. Reply(c.req) = [status |-> "OK", week |-> week]
        BY <3>1 DEF Reply
      <3> QED BY <1>1, <1>2, <1>4, <1>10, <2>1, <3>2 DEF Fit, CtlTypeOK
    <2>2. CASE q # c.from
      BY <1>1, <1>2, <1>4, <1>10, <2>2 DEF Fit, CtlTypeOK
    <2> QED BY <2>1, <2>2
  <1> QED BY <1>3, <1>4, <1>8, <1>9, <1>10 DEF Link, OneOpenEach

LEMMA LinkStop ==
    ASSUME CtlTypeOK, Channel, Link, HangUp \/ ServeBreaks \/ ChildEnds \/ Restart
    PROVE  Link' /\ \A q \in Peer : Fit(q) => Fit(q)'
  <1>1. /\ UNCHANGED <<call, answer>> /\ main' # "recv"
        /\ backlog' \in {backlog, <<>>} /\ serving' \subseteq serving
    BY DEF HangUp, ServeBreaks, ChildEnds, Restart, peerVars, connVars
  <1>2. Conns' \subseteq Conns /\ OneOpenEach'
    <2>1. CASE backlog' = backlog
      BY <1>1, <2>1 DEF Conns, Link, OneOpenEach
    <2>2. CASE backlog' = <<>>
      <3>1. DOMAIN backlog' = {}
        BY <2>2
      <3> QED BY <1>1, <3>1 DEF Conns, OneOpenEach
    <2> QED BY <1>1, <2>1, <2>2
  <1> QED BY <1>1, <1>2, FewerConns

\* A peer that has no call makes one, or nothing happens on the channel.
LEMMA LinkBegins ==
    ASSUME CtlTypeOK, Link, UNCHANGED <<main, backlog, serving, answer>>,
           \/ call' = call
           \/ \E p \in Peer : call[p] = "none" /\ call' = [call EXCEPT ![p] = "connect"]
    PROVE  Link' /\ \A q \in Peer : Fit(q) => Fit(q)'
  <1>1. Conns' = Conns
    BY DEF Conns
  <1>2. \A c \in Conns : c.from \in Peer
    BY ConnsTyped
  <1>3. \A c \in Conns : c.open => call'[c.from] = call[c.from]
    BY <1>2 DEF Link, Underway, CtlTypeOK
  <1>4. Underway'
    BY <1>1, <1>3 DEF Link, Underway
  <1>5. \A q \in Peer : answer'[q].status # "NONE" => call'[q] = "recv"
    BY DEF Link, CtlTypeOK
  <1> QED BY <1>1, <1>4, <1>5 DEF Link, OneOpenEach, Fit
-----------------------------------------------------------------------------
(* The dashboards' part of it.                                             *)

LEMMA ThreadNames ==
    ASSUME NEW d \in Admin, NEW e \in Admin
    PROVE  /\ UI(d) # Poll(e)
           /\ UI(d) = UI(e) => d = e
           /\ Poll(d) = Poll(e) => d = e
           /\ UI(d) \in Peer \ Tool /\ Poll(d) \in Peer \ Tool
           /\ Threads(d) = {UI(d), Poll(d)}
  BY Peers DEF UI, Poll, Threads

LEMMA AsksWhen ==
    ASSUME NEW d \in Admin
    PROVE  /\ Asks(UI(d)) <=> ui[d] = "init"
           /\ Asks(Poll(d)) <=> poll[d] = "tracker"
  BY ThreadNames DEF Asks

\* What a thread does with its own variables when its call is kept as it is, or
\* begins or ends, and what it asks for is not something new.
LEMMA AsksNoMore ==
    ASSUME LInv, \A q \in Peer : Fit(q) => Fit(q)', NEW d \in Admin,
           \A e \in Admin \ {d} : ui'[e] = ui[e] /\ poll'[e] = poll[e],
           ui'[d] = "init" => ui[d] = "init" \/ Fit(UI(d)),
           poll'[d] = "tracker" => poll[d] = "tracker" \/ Fit(Poll(d))
    PROVE  \A q \in Peer : Asks(q)' => Fit(q)'
  <1>1. ASSUME NEW q \in Peer, NEW e \in Admin,
               \/ q = UI(e) /\ ui'[e] = "init"
               \/ q = Poll(e) /\ poll'[e] = "tracker"
        PROVE  Fit(q)'
    <2>1. CASE e = d
      BY <1>1, <2>1 DEF LInv, Asks
    <2>2. CASE e # d
      BY <1>1, <2>2 DEF LInv, Asks
    <2> QED BY <2>1, <2>2
  <1> QED BY <1>1 DEF Asks, UI, Poll

LEMMA PollStepLink ==
    ASSUME CtlTypeOK, DashTypeOK, LInv, NEW d \in Admin, PollStep(d)
    PROVE  LInv'
  <1> USE DEF DashTypeOK, Set
  <1>0. /\ UI(d) \in Peer /\ Poll(d) \in Peer \ Tool /\ UI(d) # Poll(d)
        /\ \A e \in Admin : UI(e) # Poll(d) /\ (Poll(e) = Poll(d) => e = d)
        /\ \A e \in Admin : UI(e) \in Peer /\ Poll(e) \in Peer
    BY ThreadNames
  <1>1. CASE PollCall(d)
    <2>1. UNCHANGED <<ui, poll, tui_running, t>>
      BY <1>1 DEF PollCall, dashVars
    <2>2. PollerLives'
      BY <2>1 DEF PollerLives, LInv
    <2>3. call[Poll(d)] # "none" /\ call' \in {[call EXCEPT ![Poll(d)] = "send"], [call EXCEPT ![Poll(d)] = "recv"]}
      BY <1>1 DEF PollCall, Connect, Send
    <2>4. CallPlace'
      BY <1>0, <2>1, <2>3 DEF LInv, CallPlace, CtlTypeOK
    <2>5. CASE Connect(Poll(d))
      <3>1. Link' /\ \A q \in Peer : Fit(q) => Fit(q)'
        BY <1>0, <2>5, LinkConnect DEF LInv
      <3> QED BY <2>1, <2>2, <2>4, <3>1, AsksNoMore DEF LInv
    <2>6. CASE poll[d] = "tracker" /\ Send(Poll(d), Req("GET_TRACKER"))
      <3>1. Req("GET_TRACKER") \in Request /\ Req("GET_TRACKER").cmd = "GET_TRACKER"
        BY DEF Req, Request, Cmd
      <3>2. Link' /\ \A q \in Peer : Fit(q) => Fit(q)'
        BY <1>0, <2>6, <3>1, LinkSend DEF LInv
      <3> QED BY <2>1, <2>2, <2>4, <3>2, AsksNoMore DEF LInv
    <2>7. CASE poll[d] = "csv" /\ Send(Poll(d), Req("GET_CSV_STAT"))
      <3>1. Req("GET_CSV_STAT") \in Request /\ Req("GET_CSV_STAT").cmd = "GET_CSV_STAT"
        BY DEF Req, Request, Cmd
      <3>2. Link' /\ \A q \in Peer : Fit(q) /\ q # Poll(d) => Fit(q)'
        BY <1>0, <2>7, <3>1, LinkSend DEF LInv
      <3>3. \A q \in Peer : Asks(q)' <=> Asks(q)
        BY <2>1 DEF Asks
      <3>4. ~Asks(Poll(d))
        BY <2>7, AsksWhen
      <3> QED BY <2>2, <2>4, <3>2, <3>3, <3>4 DEF LInv
    <2> QED BY <1>1, <2>5, <2>6, <2>7 DEF PollCall
  <1>2. CASE Wake(d)
    <2>1. /\ UNCHANGED <<main, backlog, serving, answer, ui, tui_running, t>>
          /\ poll[d] = "sleep" /\ call[Poll(d)] = "none"
          /\ \/ /\ tui_running[d] /\ poll' = [poll EXCEPT ![d] = "tracker"]
                /\ call' = [call EXCEPT ![Poll(d)] = "connect"]
             \/ ~tui_running[d] /\ poll' = [poll EXCEPT ![d] = "done"] /\ call' = call
      BY <1>2 DEF Wake, serverVars, connVars, LInv, CallPlace
    <2>2. Link' /\ \A q \in Peer : Fit(q) => Fit(q)'
      BY <1>0, <2>1, LinkBegins DEF LInv
    <2>3. Fit(Poll(d))
      BY <1>0, <2>1, IdleFits DEF LInv
    <2>4. CallPlace'
      BY <1>0, <2>1 DEF LInv, CallPlace, CtlTypeOK
    <2>5. PollerLives'
      BY <2>1 DEF LInv, PollerLives
    <2>6. \A q \in Peer : Asks(q)' => Fit(q)'
      BY <2>1, <2>2, <2>3, AsksNoMore
    <2> QED BY <2>2, <2>4, <2>5, <2>6 DEF LInv
  <1>3. CASE GotTracker(d)
    <2>1. PICK a \in {answer[Poll(d)], Failed} :
            /\ CallEnds(Poll(d), a, IF a.status = "OK" THEN "connect" ELSE "none")
            /\ IF a.status = "OK"
               THEN poll' = Set(poll, d, "csv") /\ t' = Set(t, d, SnapOf(a))
               ELSE poll' = Set(poll, d, "sleep") /\ UNCHANGED t
      BY <1>3 DEF GotTracker
    <2>2. poll[d] = "tracker" /\ UNCHANGED <<ui, tui_running>>
      BY <1>3 DEF GotTracker
    <2>3. Link' /\ \A q \in Peer : Fit(q) => Fit(q)'
      BY <1>0, <2>1, LinkEnds DEF LInv
    <2>4. a.status = "OK" => a.week \in Week
      <3>1. Fit(Poll(d))
        BY <1>0, <2>2, AsksWhen DEF LInv
      <3>2. Failed.status # "OK"
        BY DEF Failed
      <3> QED BY <2>1, <3>1, <3>2 DEF Fit
    <2>5. call' = [call EXCEPT ![Poll(d)] = IF a.status = "OK" THEN "connect" ELSE "none"]
      BY <2>1 DEF CallEnds
    <2>6. CallPlace'
      BY <1>0, <2>1, <2>2, <2>4, <2>5 DEF LInv, CallPlace, CtlTypeOK, SnapOf
    <2>7. PollerLives'
      BY <2>1, <2>2 DEF LInv, PollerLives
    <2>8. \A q \in Peer : Asks(q)' => Fit(q)'
      BY <2>1, <2>2, <2>3, AsksNoMore
    <2> QED BY <2>3, <2>6, <2>7, <2>8 DEF LInv
  <1>4. CASE GotCsvStat(d)
    <2>1. PICK a : CallEnds(Poll(d), a, "none")
      BY <1>4 DEF GotCsvStat
    <2>2. /\ poll[d] = "csv" /\ poll' = [poll EXCEPT ![d] = "store"]
          /\ UNCHANGED <<ui, tui_running, t>>
      BY <1>4 DEF GotCsvStat
    <2>3. Link' /\ \A q \in Peer : Fit(q) => Fit(q)'
      BY <1>0, <2>1, LinkEnds DEF LInv
    <2>4. call' = [call EXCEPT ![Poll(d)] = "none"]
      BY <2>1 DEF CallEnds
    <2>5. CallPlace' /\ PollerLives'
      BY <1>0, <2>2, <2>4 DEF LInv, CallPlace, PollerLives, CtlTypeOK
    <2>6. \A q \in Peer : Asks(q)' => Fit(q)'
      BY <2>2, <2>3, AsksNoMore
    <2> QED BY <2>3, <2>5, <2>6 DEF LInv
  <1>5. CASE Store(d) \/ Signal(d)
    <2>1. /\ UNCHANGED <<main, backlog, serving, answer, call, ui, tui_running>>
          /\ \/ poll[d] = "store" /\ poll' = [poll EXCEPT ![d] = "signal"]
             \/ poll[d] = "signal" /\ poll' = [poll EXCEPT ![d] = "sleep"]
          /\ \A e \in Admin \ {d} : t'[e] = t[e]
      BY <1>5 DEF Store, Signal, ctlVars, serverVars, connVars, peerVars
    <2>2. Link' /\ \A q \in Peer : Fit(q) => Fit(q)'
      BY <2>1, LinkBegins DEF LInv
    <2>3. CallPlace' /\ PollerLives'
      BY <2>1 DEF LInv, CallPlace, PollerLives
    <2>4. \A q \in Peer : Asks(q)' => Fit(q)'
      BY <2>1, <2>2, AsksNoMore
    <2> QED BY <2>2, <2>3, <2>4 DEF LInv
  <1> QED BY <1>1, <1>2, <1>3, <1>4, <1>5 DEF PollStep

\* The process is gone and with it its calls and connections.
LEMMA ResetLink ==
    ASSUME CtlTypeOK, DashTypeOK, LInv, NEW d \in Admin, Reset(d), Leave(Threads(d))
    PROVE  LInv'
  <1> USE DEF DashTypeOK
  <1>1. /\ ui' = [ui EXCEPT ![d] = "off"] /\ poll' = [poll EXCEPT ![d] = "off"]
        /\ tui_running' = [tui_running EXCEPT ![d] = TRUE]
        /\ \A e \in Admin \ {d} : t'[e] = t[e]
    BY DEF Reset, Set
  <1>2. Link' /\ \A q \in Peer : Fit(q) => Fit(q)'
    BY LinkLeave, Peers DEF LInv
  <1>3. /\ call'[UI(d)] = "none" /\ call'[Poll(d)] = "none"
        /\ \A e \in Admin \ {d} : call'[UI(e)] = call[UI(e)] /\ call'[Poll(e)] = call[Poll(e)]
    <2>1. call' = [p \in Peer |-> IF p \in Threads(d) THEN "none" ELSE call[p]]
      BY DEF Leave
    <2>2. \A e \in Admin \ {d} : UI(e) \notin Threads(d) /\ Poll(e) \notin Threads(d)
      BY ThreadNames
    <2>3. \A e \in Admin : UI(e) \in Peer /\ Poll(e) \in Peer
      BY ThreadNames
    <2>4. UI(d) \in Threads(d) /\ Poll(d) \in Threads(d)
      BY ThreadNames
    <2> QED BY <2>1, <2>2, <2>3, <2>4
  <1>4. CallPlace' /\ PollerLives'
    BY <1>1, <1>3 DEF LInv, CallPlace, PollerLives
  <1>5. \A q \in Peer : Asks(q)' => Fit(q)'
    BY <1>1, <1>2, AsksNoMore
  <1> QED BY <1>2, <1>4, <1>5 DEF LInv

LEMMA UiStepLink ==
    ASSUME CtlTypeOK, DashTypeOK, LInv, NEW d \in Admin, UiStep(d)
    PROVE  LInv'
  <1> USE DEF DashTypeOK, Set
  <1>0. /\ UI(d) \in Peer \ Tool
        /\ \A e \in Admin : UI(d) # Poll(e) /\ (UI(e) = UI(d) => e = d)
        /\ \A e \in Admin : UI(e) \in Peer /\ Poll(e) \in Peer
    BY ThreadNames
  <1>1. CASE UiCall(d)
    <2>1. UNCHANGED <<ui, poll, tui_running, t>>
      BY <1>1 DEF UiCall, dashVars
    <2>2. PollerLives'
      BY <2>1 DEF PollerLives, LInv
    <2>3. call[UI(d)] # "none" /\ call' \in {[call EXCEPT ![UI(d)] = "send"], [call EXCEPT ![UI(d)] = "recv"]}
      BY <1>1 DEF UiCall, Connect, Send
    <2>4. CallPlace'
      BY <1>0, <2>1, <2>3 DEF LInv, CallPlace, CtlTypeOK
    <2>5. CASE Connect(UI(d))
      <3>1. Link' /\ \A q \in Peer : Fit(q) => Fit(q)'
        BY <1>0, <2>5, LinkConnect DEF LInv
      <3> QED BY <2>1, <2>2, <2>4, <3>1, AsksNoMore DEF LInv
    <2>6. CASE ui[d] = "init" /\ Send(UI(d), Req("GET_TRACKER"))
      <3>1. Req("GET_TRACKER") \in Request /\ Req("GET_TRACKER").cmd = "GET_TRACKER"
        BY DEF Req, Request, Cmd
      <3>2. Link' /\ \A q \in Peer : Fit(q) => Fit(q)'
        BY <1>0, <2>6, <3>1, LinkSend DEF LInv
      <3> QED BY <2>1, <2>2, <2>4, <3>2, AsksNoMore DEF LInv
    <2>7. ASSUME ui[d] = "ipc", NEW r \in Request, Send(UI(d), r), r.cmd \in {"SET_HW", "OTHER"}
          PROVE  LInv'
      <3>1. Link' /\ \A q \in Peer : Fit(q) /\ q # UI(d) => Fit(q)'
        BY <1>0, <2>7, LinkSend DEF LInv
      <3>2. \A q \in Peer : Asks(q)' <=> Asks(q)
        BY <2>1 DEF Asks
      <3>3. ~Asks(UI(d))
        BY <2>7, AsksWhen
      <3> QED BY <2>2, <2>4, <3>1, <3>2, <3>3 DEF LInv
    <2>8. /\ Req("OTHER") \in Request /\ Req("OTHER").cmd = "OTHER"
          /\ \A w \in Week : ReqSetHw(w) \in Request /\ ReqSetHw(w).cmd = "SET_HW"
      BY DEF Req, ReqSetHw, Request, Cmd
    <2> QED BY <1>1, <2>5, <2>6, <2>7, <2>8 DEF UiCall
  <1>2. CASE GotFirst(d)
    <2>1. PICK a : CallEnds(UI(d), a, "none")
      BY <1>2 DEF GotFirst
    <2>2. /\ ui[d] = "init" /\ ui' = [ui EXCEPT ![d] = "key"]
          /\ poll' = [poll EXCEPT ![d] = "sleep"] /\ UNCHANGED <<tui_running, t>>
      BY <1>2 DEF GotFirst
    <2>3. Link' /\ \A q \in Peer : Fit(q) => Fit(q)'
      BY <1>0, <2>1, LinkEnds DEF LInv
    <2>4. call' = [call EXCEPT ![UI(d)] = "none"]
      BY <2>1 DEF CallEnds
    <2>5. CallPlace' /\ PollerLives'
      BY <1>0, <2>2, <2>4 DEF LInv, CallPlace, PollerLives, CtlTypeOK
    <2>6. \A q \in Peer : Asks(q)' => Fit(q)'
      BY <2>2, <2>3, AsksNoMore
    <2> QED BY <2>3, <2>5, <2>6 DEF LInv
  <1>3. CASE GotOutcome(d)
    <2>1. PICK a : CallEnds(UI(d), a, "none")
      BY <1>3 DEF GotOutcome
    <2>2. ui[d] = "ipc" /\ ui' = [ui EXCEPT ![d] = "hdr"] /\ UNCHANGED <<poll, tui_running, t>>
      BY <1>3 DEF GotOutcome
    <2>3. Link' /\ \A q \in Peer : Fit(q) => Fit(q)'
      BY <1>0, <2>1, LinkEnds DEF LInv
    <2>4. call' = [call EXCEPT ![UI(d)] = "none"]
      BY <2>1 DEF CallEnds
    <2>5. CallPlace' /\ PollerLives'
      BY <1>0, <2>2, <2>4 DEF LInv, CallPlace, PollerLives, CtlTypeOK
    <2>6. \A q \in Peer : Asks(q)' => Fit(q)'
      BY <2>2, <2>3, AsksNoMore
    <2> QED BY <2>3, <2>5, <2>6 DEF LInv
  <1>4. CASE ReadEvent(d) \/ DrawMenu(d) \/ DrawHdr(d) \/ DrawInfo(d)
    <2>1. /\ UNCHANGED <<main, backlog, serving, answer, call, poll, tui_running, t>>
          /\ ui[d] \in {"key", "hdr", "info"}
          /\ \E next \in {"key", "hdr", "info"} : ui' = [ui EXCEPT ![d] = next]
      BY <1>4 DEF ReadEvent, DrawMenu, DrawHdr, DrawInfo, ctlVars, serverVars, connVars, peerVars
    <2>2. Link' /\ \A q \in Peer : Fit(q) => Fit(q)'
      BY <2>1, LinkBegins DEF LInv
    <2>3. CallPlace' /\ PollerLives'
      BY <2>1 DEF LInv, CallPlace, PollerLives
    <2>4. \A q \in Peer : Asks(q)' => Fit(q)'
      BY <2>1, <2>2, AsksNoMore
    <2> QED BY <2>2, <2>3, <2>4 DEF LInv
  <1>5. CASE Joined(d)
    <2>1. /\ UNCHANGED <<main, backlog, serving, answer, call>>
          /\ ui[d] = "join" /\ poll[d] = "done"
          /\ ui' = [ui EXCEPT ![d] = "off"] /\ poll' = [poll EXCEPT ![d] = "off"]
          /\ tui_running' = [tui_running EXCEPT ![d] = TRUE]
          /\ \A e \in Admin \ {d} : t'[e] = t[e]
      BY <1>5 DEF Joined, Reset, ctlVars, serverVars, connVars, peerVars
    <2>2. Link' /\ \A q \in Peer : Fit(q) => Fit(q)'
      BY <2>1, LinkBegins DEF LInv
    <2>3. CallPlace' /\ PollerLives'
      BY <2>1 DEF LInv, CallPlace, PollerLives
    <2>4. \A q \in Peer : Asks(q)' => Fit(q)'
      BY <2>1, <2>2, AsksNoMore
    <2> QED BY <2>2, <2>3, <2>4 DEF LInv
  <1> QED BY <1>1, <1>2, <1>3, <1>4, <1>5 DEF UiStep

LEMMA AdminStepLink ==
    ASSUME CtlTypeOK, DashTypeOK, LInv, NEW d \in Admin, AdminStep(d)
    PROVE  LInv'
  <1> USE DEF DashTypeOK, Set
  <1>1. CASE Killed(d)
    BY <1>1, ResetLink DEF Killed
  <1>2. CASE Start(d) \/ Choose(d) \/ ClosePopup(d) \/ Quit(d)
    <2>0. /\ UI(d) \in Peer \ Tool
          /\ \A e \in Admin : UI(d) # Poll(e) /\ (UI(e) = UI(d) => e = d)
          /\ \A e \in Admin : UI(e) \in Peer /\ Poll(e) \in Peer
      BY ThreadNames
    <2>1. UNCHANGED <<main, backlog, serving, answer, poll, t>>
      BY <1>2 DEF Start, Choose, ClosePopup, Quit, GoOn, serverVars, connVars
    <2>2. /\ ui[d] \in {"off", "key", "popup"} /\ call[UI(d)] = "none"
          /\ \/ /\ call' = [call EXCEPT ![UI(d)] = "connect"]
                /\ ui' = [ui EXCEPT ![d] = IF ui[d] = "off" THEN "init" ELSE "ipc"]
                /\ tui_running' = tui_running
             \/ /\ call' = call /\ ui[d] # "off" /\ tui_running' = tui_running
                /\ \E next \in {"popup", "hdr"} : ui' = [ui EXCEPT ![d] = next]
             \/ /\ call' = call /\ ui[d] # "off" /\ ui' = [ui EXCEPT ![d] = "join"]
                /\ tui_running' = [tui_running EXCEPT ![d] = FALSE]
      <3>1. ui[d] \in {"off", "key", "popup"}
        BY <1>2 DEF Start, Choose, ClosePopup, Quit
      <3>2. call[UI(d)] = "none"
        BY <3>1 DEF LInv, CallPlace
      <3> QED BY <1>2, <3>1, <3>2 DEF Start, Choose, ClosePopup, Quit, GoOn
    <2>3. Link' /\ \A q \in Peer : Fit(q) => Fit(q)'
      BY <2>0, <2>1, <2>2, LinkBegins DEF LInv
    <2>4. Fit(UI(d))
      BY <2>0, <2>2, IdleFits DEF LInv
    <2>5. CallPlace'
      BY <2>0, <2>1, <2>2 DEF LInv, CallPlace, CtlTypeOK
    <2>6. PollerLives'
      BY <2>1, <2>2 DEF LInv, PollerLives, CallPlace
    <2>7. \A q \in Peer : Asks(q)' => Fit(q)'
      BY <2>1, <2>2, <2>3, <2>4, AsksNoMore
    <2> QED BY <2>3, <2>5, <2>6, <2>7 DEF LInv
  <1> QED BY <1>1, <1>2 DEF AdminStep

\* Steps of others leave the dashboards' variables and calls alone.
LEMMA OthersLink ==
    ASSUME LInv, UNCHANGED dashVars, Link', \A q \in Peer : Fit(q) => Fit(q)',
           \A p \in Peer \ Tool : call'[p] = call[p]
    PROVE  LInv'
  <1>1. UNCHANGED <<ui, poll, tui_running, t>>
    BY DEF dashVars
  <1>2. \A d \in Admin : call'[UI(d)] = call[UI(d)] /\ call'[Poll(d)] = call[Poll(d)]
    BY ThreadNames
  <1>3. CallPlace' /\ PollerLives'
    BY <1>1, <1>2 DEF LInv, CallPlace, PollerLives
  <1>4. \A q \in Peer : Asks(q)' <=> Asks(q)
    BY <1>1 DEF Asks
  <1> QED BY <1>3, <1>4 DEF LInv

LEMMA ToolLink ==
    ASSUME CtlTypeOK, LInv, NEW x \in Tool, ToolStart(x) \/ ToolStep(x) \/ ToolKilled(x)
    PROVE  LInv'
  <1>1. x \in Peer /\ {x} \in SUBSET Peer
    BY Peers
  <1>2. UNCHANGED dashVars
    BY DEF ToolStart, ToolStep, ToolKilled, dashVars
  <1>3. CASE ToolStart(x)
    <2>1. Link' /\ \A q \in Peer : Fit(q) => Fit(q)'
      BY <1>1, <1>3, LinkBegins DEF ToolStart, LInv, serverVars, connVars
    <2>2. \A p \in Peer \ Tool : call'[p] = call[p]
      BY <1>1, <1>3 DEF ToolStart, CtlTypeOK
    <2> QED BY <1>2, <2>1, <2>2, OthersLink
  <1>4. CASE Connect(x)
    <2>1. Link' /\ \A q \in Peer : Fit(q) => Fit(q)'
      BY <1>1, <1>4, LinkConnect DEF LInv
    <2>2. \A p \in Peer \ Tool : call'[p] = call[p]
      BY <1>1, <1>4 DEF Connect, CtlTypeOK
    <2> QED BY <1>2, <2>1, <2>2, OthersLink
  <1>5. CASE Send(x, Req("text"))
    <2>1. Req("text") \in Request /\ Req("text").cmd = "text"
      BY DEF Req, Request, Cmd
    <2>2. Link' /\ \A q \in Peer : Fit(q) /\ q # x => Fit(q)'
      BY <1>1, <1>5, <2>1, LinkSend DEF LInv
    <2>3. \A p \in Peer \ Tool : call'[p] = call[p]
      BY <1>1, <1>5 DEF Send, CtlTypeOK
    <2>4. UNCHANGED <<ui, poll, tui_running, t>>
      BY <1>2 DEF dashVars
    <2>5. \A d \in Admin : /\ call'[UI(d)] = call[UI(d)] /\ call'[Poll(d)] = call[Poll(d)]
                           /\ UI(d) # x /\ Poll(d) # x
      BY <2>3, ThreadNames
    <2>6. CallPlace' /\ PollerLives'
      BY <2>4, <2>5 DEF LInv, CallPlace, PollerLives
    <2>7. \A q \in Peer : Asks(q)' => Asks(q) /\ q # x
      BY <2>4, <2>5 DEF Asks
    <2> QED BY <2>2, <2>6, <2>7 DEF LInv
  <1>6. CASE Leave({x})
    <2>1. Link' /\ \A q \in Peer : Fit(q) => Fit(q)'
      BY <1>1, <1>6, LinkLeave DEF LInv
    <2>2. \A p \in Peer \ Tool : call'[p] = call[p]
      BY <1>6 DEF Leave
    <2> QED BY <1>2, <2>1, <2>2, OthersLink
  <1>7. ASSUME NEW a, CallEnds(x, a, "none") PROVE LInv'
    <2>1. Link' /\ \A q \in Peer : Fit(q) => Fit(q)'
      BY <1>1, <1>7, LinkEnds DEF LInv
    <2>2. \A p \in Peer \ Tool : call'[p] = call[p]
      BY <1>1, <1>7 DEF CallEnds, CtlTypeOK
    <2> QED BY <1>2, <2>1, <2>2, OthersLink
  <1> QED BY <1>3, <1>4, <1>5, <1>6, <1>7 DEF ToolStep, ToolKilled

LEMMA ServerLink ==
    ASSUME CtlTypeOK, Channel, LInv, ServerStep \/ Environment
    PROVE  LInv'
  <1>1. UNCHANGED <<dashVars, call>>
    BY DEF ServerStep, Environment, MainStep, AcceptCtl, HangUp, Serve, ServeBreaks,
           ChildEnds, Restart, peerVars
  <1>2. Link' /\ \A q \in Peer : Fit(q) => Fit(q)'
    BY LinkAccept, LinkServe, LinkStop DEF LInv, ServerStep, Environment, MainStep
  <1> QED BY <1>1, <1>2, OthersLink

LEMMA NextLink == CInv /\ DInv /\ LInv /\ [Next]_vars => LInv'
  <1> SUFFICES ASSUME CInv, DInv, LInv, [Next]_vars PROVE LInv'
    OBVIOUS
  <1>1. CtlTypeOK /\ Channel /\ DashTypeOK
    BY DEF CInv, DInv
  <1>2. CASE ServerStep \/ Environment
    BY <1>1, <1>2, ServerLink
  <1>3. ASSUME NEW d \in Admin, PollStep(d) \/ UiStep(d) \/ AdminStep(d) \/ Breaks(d)
        PROVE  LInv'
    BY <1>1, <1>3, PollStepLink, UiStepLink, AdminStepLink, ResetLink DEF Breaks
  <1>4. ASSUME NEW x \in Tool, ToolStart(x) \/ ToolStep(x) \/ ToolKilled(x)
        PROVE  LInv'
    BY <1>1, <1>4, ToolLink
  <1>5. CASE UNCHANGED vars
    <2>1. UNCHANGED <<main, backlog, serving, answer, call, dashVars>>
      BY <1>5 DEF vars, ctlVars, serverVars, connVars, peerVars
    <2>2. Link' /\ \A q \in Peer : Fit(q) => Fit(q)'
      BY <1>1, <2>1, LinkBegins DEF LInv
    <2> QED BY <2>1, <2>2, OthersLink
  <1> QED BY <1>2, <1>3, <1>4, <1>5 DEF Next

LEMMA InitLink == Init => LInv
  <1> SUFFICES ASSUME Init PROVE LInv
    OBVIOUS
  <1>1. Conns = {} /\ NoAnswer.status = "NONE"
    BY DEF Init, CtlInit, Conns, NoAnswer
  <1>2. Link
    BY <1>1 DEF Init, CtlInit, Link, OneOpenEach, Underway
  <1>3. CallPlace /\ PollerLives
    BY ThreadNames DEF Init, CtlInit, CallPlace, PollerLives
  <1>4. \A q \in Peer : ~Asks(q)
    BY DEF Init, Asks
  <1> QED BY <1>2, <1>3, <1>4 DEF LInv

\* The three parts of the inductive invariant: the channel, the threads of a
\* dashboard, and how calls and connections belong together (server.c:1312-1343,
\* minici-tui.c:73-87).
THEOREM LinkAlways == Spec => [](CInv /\ DInv /\ LInv)
  <1>1. Init => CInv /\ DInv /\ LInv
    BY InitIInv, InitLink
  <1>2. CInv /\ DInv /\ LInv /\ [Next]_vars => (CInv /\ DInv /\ LInv)'
    BY NextIInv, NextLink
  <1> QED BY <1>1, <1>2, PTL DEF Spec

\* The main thread and the dashboards never wait for each other, however many
\* there are: only a minici-ctl keeps the server waiting (server.c:1030).
THEOREM OnlyToolsBlock == Spec => []NoCircularWait
  <1>1. CInv /\ LInv => NoCircularWait
    <2> SUFFICES ASSUME CtlTypeOK, LInv PROVE NoCircularWait
      BY DEF CInv
    <2>1. \A c \in Conns : c.from \in Tool \/ c.from \in Thread
      BY ConnsTyped, DashboardAssumption
    <2>2. ASSUME NEW c \in Conns, c.open, c.from \in Thread, ~Readable(c)
          PROVE  call[c.from] = "send" /\ Connected(c.from)
      <3>1. c.from \notin Tool
        BY <2>2, DashboardAssumption
      <3>2. c.req.cmd = "none"
        BY <2>2, <3>1 DEF Readable, LInv, Link
      <3> QED BY <2>2, <3>2 DEF Connected, LInv, Link, Underway
    <2>3. main = "recv" => \E c \in serving : c \in Conns
      BY DEF LInv, Link, Conns
    <2>4. ASSUME NEW p \in Thread, call[p] = "recv", Connected(p)
          PROVE  \E c \in Conns : c.from = p /\ c.open /\ Readable(c)
      <3>1. PICK c \in Conns : c.from = p /\ c.open
        BY <2>4 DEF Connected
      <3> QED BY <2>2, <2>4, <3>1
    <2> QED BY <2>1, <2>2, <2>3, <2>4 DEF NoCircularWait
  <1> QED BY <1>1, LinkAlways, PTL

\* The thread that polls lives as long as its dashboard is in use, whatever the
\* server does, and has been told to end when it is waited for
\* (minici-tui.c:281-304, 715-717).
THEOREM PollerServes == Spec => []PollerLives
  <1>1. LInv => PollerLives
    BY DEF LInv
  <1> QED BY <1>1, LinkAlways, PTL

\* No failed call and no other answer makes a dashboard forget the week
\* (minici-tui.c:281-304).
THEOREM WeekKept == Spec => WeekStaysShown
  <1>1. CInv /\ DInv /\ LInv /\ [Next]_vars =>
          [\A d \in Admin :
              g_snap[d].week \in Week /\ ui'[d] # "off" => g_snap'[d].week \in Week]_vars
    <2> SUFFICES ASSUME CInv, DInv, LInv, Next, NEW d \in Admin,
                        g_snap[d].week \in Week, ui'[d] # "off"
                 PROVE  g_snap'[d].week \in Week
      OBVIOUS
    <2> USE DEF DInv, DashTypeOK, Set
    <2>1. CASE g_snap' = g_snap
      BY <2>1
    <2>2. ASSUME NEW e \in Admin, Store(e)
          PROVE  g_snap'[d].week \in Week
      <3>1. t[e].week \in Week
        BY <2>2 DEF Store, LInv, CallPlace
      <3> QED BY <2>2, <3>1 DEF Store
    <2>3. ASSUME NEW e \in Admin, GotFirst(e)
          PROVE  g_snap'[d].week \in Week
      <3>1. PICK a \in {answer[UI(e)], Failed} :
              g_snap' = IF a.status = "OK" THEN Set(g_snap, e, SnapOf(a)) ELSE g_snap
        BY <2>3 DEF GotFirst
      <3>2. Fit(UI(e))
        BY <2>3, AsksWhen, ThreadNames DEF GotFirst, LInv
      <3>3. Failed.status # "OK"
        BY DEF Failed
      <3>4. a.status = "OK" => SnapOf(a).week \in Week
        BY <3>1, <3>2, <3>3 DEF Fit, SnapOf
      <3> QED BY <3>1, <3>4
    <2>4. ASSUME NEW e \in Admin, Reset(e)
          PROVE  g_snap'[d].week \in Week
      <3>1. d # e
        BY <2>4 DEF Reset
      <3> QED BY <2>4, <3>1 DEF Reset
    <2>5. CASE ServerStep \/ Environment
      BY <2>1, <2>5 DEF ServerStep, Environment, dashVars
    <2>6. ASSUME NEW x \in Tool, ToolStart(x) \/ ToolStep(x) \/ ToolKilled(x)
          PROVE  g_snap' = g_snap
      BY <2>6 DEF ToolStart, ToolStep, ToolKilled, dashVars
    <2>7. ASSUME NEW e \in Admin, PollStep(e)
          PROVE  Store(e) \/ g_snap' = g_snap
      BY <2>7 DEF PollStep, PollCall, Wake, GotTracker, GotCsvStat, Signal, dashVars
    <2>8. ASSUME NEW e \in Admin, UiStep(e)
          PROVE  GotFirst(e) \/ Reset(e) \/ g_snap' = g_snap
      BY <2>8 DEF UiStep, UiCall, ReadEvent, DrawMenu, DrawHdr, DrawInfo, GotOutcome, Joined,
                  dashVars
    <2>9. ASSUME NEW e \in Admin, AdminStep(e) \/ Breaks(e)
          PROVE  Reset(e) \/ g_snap' = g_snap
      BY <2>9 DEF AdminStep, Breaks, Start, Killed, Choose, ClosePopup, Quit, GoOn
    <2> QED BY <2>1, <2>2, <2>3, <2>4, <2>5, <2>6, <2>7, <2>8, <2>9 DEF Next
  <1> QED BY <1>1, LinkAlways, PTL DEF Spec, WeekStaysShown
=============================================================================
