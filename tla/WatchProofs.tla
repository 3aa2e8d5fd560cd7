---------------------------- MODULE WatchProofs ----------------------------
(* The safety properties of Watch, for any number of files, of versions    *)
(* and of grades, and any limits of the two programs.                      *)
EXTENDS Watch, TLAPS

Ready == {<<>>, <<"ifd">>, <<"tfd">>, <<"ifd", "tfd">>, <<"tfd", "ifd">>}

\* The descriptors main() has still to handle.
IfdDue == ready \in {<<"ifd">>, <<"ifd", "tfd">>, <<"tfd", "ifd">>}
TfdDue == ready \in {<<"tfd">>, <<"ifd", "tfd">>, <<"tfd", "ifd">>}

\* The first of a pair, and what is left of it.
LEMMA PairTail ==
    ASSUME NEW a, NEW b
    PROVE  Head(<<a, b>>) = a /\ Tail(<<a, b>>) = <<b>>
  OBVIOUS

LEMMA SingleTail ==
    ASSUME NEW a
    PROVE  Head(<<a>>) = a /\ Tail(<<a>>) = <<>>
  OBVIOUS

\* Of the lists of descriptors, which begin with which and what is left.
LEMMA ReadyTail ==
    ASSUME NEW r \in Ready, r # <<>>
    PROVE  /\ Tail(r) \in Ready
           /\ \/ r = <<"ifd">> /\ Head(r) = "ifd" /\ Tail(r) = <<>>
              \/ r = <<"tfd">> /\ Head(r) = "tfd" /\ Tail(r) = <<>>
              \/ r = <<"ifd", "tfd">> /\ Head(r) = "ifd" /\ Tail(r) = <<"tfd">>
              \/ r = <<"tfd", "ifd">> /\ Head(r) = "tfd" /\ Tail(r) = <<"ifd">>
  <1>1. CASE r = <<"ifd">>  BY <1>1, SingleTail, Zenon DEF Ready
  <1>2. CASE r = <<"tfd">>  BY <1>2, SingleTail, Zenon DEF Ready
  <1>3. CASE r = <<"ifd", "tfd">>  BY <1>3, PairTail, Zenon DEF Ready
  <1>4. CASE r = <<"tfd", "ifd">>  BY <1>4, PairTail, Zenon DEF Ready
  <1> QED BY <1>1, <1>2, <1>3, <1>4, Zenon DEF Ready

\* The lists of one and two descriptors are different ones.
LEMMA ReadyDistinct ==
    /\ <<"ifd">> # <<"tfd">> /\ <<"ifd", "tfd">> # <<"tfd", "ifd">>
    /\ \A a, b, c : <<a, b>> # <<c>> /\ <<a>> # <<>> /\ <<a, b>> # <<>>
  OBVIOUS

-----------------------------------------------------------------------------
(* The inductive invariant.                                                *)

\* The client runs while main() waits for it, and starts with nothing in
\* hand; main() has descriptors to handle only in its loop over them.
Order ==
    /\ pc # "off" => at = "child"
    /\ pc \in {"off", "login"} => batch /\ cur = 1
    /\ ready # <<>> => at \in {"handle", "fork", "child"}
    /\ IfdDue => pending # {}

\* Each run that is due or on its way has an event of its own to its account:
\* one that waits, one for which the timer was set, and one for the timer's
\* place in the list if the timer has been set anew since.
Bit(b) == IF b THEN 1 ELSE 0

Account ==
    runs + Bit(at = "fork") + Bit(timer # "off") + Bit(pending # {})
         + Bit(TfdDue /\ timer # "expired")
      <= 1 + events

\* The running client has yet to read the file.
ClientComes(f) ==
    \/ pc = "login"
    \/ /\ pc \in {"read", "upload", "receive"}
       /\ batch
       /\ f > cur \/ (f = cur /\ pc = "read")

\* A run that will read the file is due, on its way or under way.
Coming(f) ==
    \/ pending # {} \/ timer # "off" \/ TfdDue \/ at = "fork"
    \/ ClientComes(f)
    \/ ~g_running

Submitted == \A f \in Judged \ missed : notified[f] <= tried[f] \/ Coming(f)

\* The texts submitted and told of are not newer than the files, and main()
\* has been told of the last one of a file it watches.
Told ==
    /\ \A f \in File : tried[f] <= content[f] /\ notified[f] <= content[f]
    /\ \A f \in File : content[f] <= version
    /\ \A f \in watched : notified[f] = content[f]

\* What results[] holds at every step of the client.
Screen ==
    /\ pc \in {"upload", "receive"} => payload = tried[cur]
    /\ \A f \in File :
          results[f].of # 0 \/ results[f].grade # "AC" =>
              [file |-> f, grade |-> results[f].grade, of |-> results[f].of] \in sent
    /\ \A f \in answered :
          results[f].of = tried[f] \/ (f = cur /\ pc \in {"upload", "receive"})

IInv == TypeOK /\ Order /\ Account /\ Submitted /\ Told /\ Screen

-----------------------------------------------------------------------------
(* Types.                                                                  *)

LEMMA FileFacts ==
    /\ 1 \in File
    /\ Judged \subseteq File
    /\ \A f \in Judged : \A k \in File : k < f => k + 1 \in Judged
    /\ File \subseteq Nat
    /\ Cleared \in Result
  BY ClientAssumption DEF File, Judged, Cleared, Result

LEMMA InitTypes == Init => TypeOK
  BY FileFacts, ClientAssumption
     DEF Init, ClientInit, TypeOK, ClientTypeOK, WatchTypeOK

\* The end of the client and the end of send_source.
LEMMA GoneTypes == ClientTypeOK /\ Gone /\ UNCHANGED fileVars => ClientTypeOK'
  BY FileFacts, ClientAssumption DEF ClientTypeOK, Gone, fileVars

LEMMA ReturnTypes ==
    ASSUME ClientTypeOK, Return
    PROVE  /\ pc' \in {"read", "ui"} /\ cur' \in File
           /\ payload' \in 0..MaxVersion /\ before' \in 0..MaxVersion
           /\ batch' \in BOOLEAN
  BY FileFacts, ClientAssumption DEF ClientTypeOK, Return

LEMMA AnsweredTypes ==
    ASSUME ClientTypeOK, NEW g \in Grade, Answered(g)
    PROVE  results' \in [File -> Result] /\ sent' \in SUBSET Answer
  <1>1. [grade |-> g, of |-> payload] \in Result  BY DEF ClientTypeOK, Result
  <1>2. [file |-> cur, grade |-> g, of |-> payload] \in Answer
    BY DEF ClientTypeOK, Answer
  <1> QED  BY <1>1, <1>2 DEF ClientTypeOK, Answered

LEMMA ClientStepTypes == ClientTypeOK /\ ClientStep /\ UNCHANGED fileVars => ClientTypeOK'
  <1> SUFFICES ASSUME ClientTypeOK, ClientStep, UNCHANGED fileVars
               PROVE  ClientTypeOK'
    OBVIOUS
  <1> USE ClientAssumption DEF ClientTypeOK, fileVars, resultVars
  <1>1. content[cur] \in 0..MaxVersion  OBVIOUS
  <1>2. CASE ReadSource  BY <1>1, <1>2 DEF ReadSource
  <1>3. CASE ReadFails  BY <1>1, <1>3, ReturnTypes DEF ReadFails
  <1>4. CASE Upload  BY <1>4, FileFacts DEF Upload
  <1>5. CASE UploadFails  BY <1>5, ReturnTypes DEF UploadFails
  <1>6. ASSUME NEW g \in Grade, Receive(g)  PROVE ClientTypeOK'
    BY <1>6, ReturnTypes, AnsweredTypes DEF Receive
  <1>7. ASSUME NEW g \in Grade, ReceiveFails(g)  PROVE ClientTypeOK'
    BY <1>7, ReturnTypes, AnsweredTypes DEF ReceiveFails
  <1> QED  BY <1>2, <1>3, <1>4, <1>5, <1>6, <1>7 DEF ClientStep

LEMMA StudentStepTypes == ClientTypeOK /\ StudentStep /\ UNCHANGED fileVars => ClientTypeOK'
  <1> SUFFICES ASSUME ClientTypeOK, StudentStep, UNCHANGED fileVars
               PROVE  ClientTypeOK'
    OBVIOUS
  <1> USE ClientAssumption, FileFacts DEF ClientTypeOK, fileVars, resultVars
  <1>1. CASE Login  BY <1>1 DEF Login
  <1>2. CASE Quit  BY <1>2, GoneTypes DEF Quit
  <1>3. CASE CloseEditor
    <2>1. pc' \in {"read", "ui"} /\ cur' \in File  BY <1>3 DEF CloseEditor
    <2>2. batch' \in BOOLEAN /\ before' = 0  BY <1>3, Zenon DEF CloseEditor
    <2>3. UNCHANGED <<payload, tried, results, answered, sent>>
      BY <1>3 DEF CloseEditor
    <2> QED  BY <2>1, <2>2, <2>3
  <1>4. ASSUME NEW f \in Judged, OpenEditor(f)  PROVE ClientTypeOK'
    BY <1>4 DEF OpenEditor
  <1> QED  BY <1>1, <1>2, <1>3, <1>4 DEF StudentStep

LEMMA SaveTypes == TypeOK /\ Save => TypeOK'
  <1> SUFFICES ASSUME TypeOK, Save  PROVE TypeOK'
    OBVIOUS
  <1> USE ClientAssumption DEF TypeOK, ClientTypeOK, WatchTypeOK,
          clientVars, resultVars, watchVars, history
  <1>1. PICK f \in File : \/ SaveBegins(f)
                          \/ SaveEnds(f)
                          \/ \E deleted \in BOOLEAN : SaveByRename(f, deleted)
    BY DEF Save
  <1>2. CASE SaveBegins(f)  BY <1>2 DEF SaveBegins, BeginSave
  <1>3. ASSUME Write(f)
        PROVE  content' \in [File -> 1..MaxVersion] /\ version' \in 1..MaxVersion
    BY <1>3 DEF Write
  <1>4. ASSUME Write(f), Notify(f) \/ NoNotify
        PROVE  /\ pending' \in SUBSET File /\ events' \in Nat
               /\ notified' \in [File -> 1..MaxVersion]
    <2>1. content'[f] \in 1..MaxVersion  BY <1>3, <1>4
    <2>2. CASE Notify(f)  BY <2>1, <2>2 DEF Notify
    <2>3. CASE NoNotify  BY <2>3 DEF NoNotify
    <2> QED  BY <1>4, <2>2, <2>3
  <1>5. CASE SaveEnds(f)
    BY <1>3, <1>4, <1>5 DEF SaveEnds, EndSave
  <1>6. ASSUME NEW deleted \in BOOLEAN, SaveByRename(f, deleted)  PROVE TypeOK'
    BY <1>3, <1>4, <1>6 DEF SaveByRename, RenameSave
  <1> QED  BY <1>1, <1>2, <1>5, <1>6

LEMMA MainTypes == TypeOK /\ Main => TypeOK'
  <1> SUFFICES ASSUME TypeOK, Main  PROVE TypeOK'
    OBVIOUS
  <1> USE DEF TypeOK, WatchTypeOK, fileVars, clientVars, resultVars, history
  <1>1. ready \in Ready  BY DEF Ready
  <1>2. CASE ForkClient  BY <1>2 DEF ForkClient, StartClient, ClientTypeOK
  <1>3. CASE ForkFails  BY <1>3 DEF ForkFails, ClientTypeOK
  <1>4. CASE ClientEnds  BY <1>4 DEF ClientEnds, ClientTypeOK
  <1>5. CASE Loop  BY <1>5 DEF Loop, ClientTypeOK
  <1>6. CASE EpollWait  BY <1>6 DEF EpollWait, ClientTypeOK
  <1>7. CASE LeaveLoop  BY <1>7 DEF LeaveLoop, ClientTypeOK
  <1>8. CASE HandleInotify
    <2>1. ready' \in Ready  BY <1>1, <1>8, ReadyTail DEF HandleInotify
    <2> QED  BY <1>8, <2>1 DEF HandleInotify, ClientTypeOK, Ready
  <1>9. CASE HandleTimer
    <2>1. ready' \in Ready  BY <1>1, <1>9, ReadyTail DEF HandleTimer
    <2> QED  BY <1>9, <2>1 DEF HandleTimer, ClientTypeOK, Ready
  <1> QED  BY <1>2, <1>3, <1>4, <1>5, <1>6, <1>7, <1>8, <1>9 DEF Main

LEMMA TypeStep == TypeOK /\ [Next]_vars => TypeOK'
  <1> SUFFICES ASSUME TypeOK, [Next]_vars  PROVE TypeOK'
    OBVIOUS
  <1>1. CASE Save  BY <1>1, SaveTypes
  <1>2. CASE Expire
    BY <1>2 DEF Expire, TypeOK, ClientTypeOK, WatchTypeOK, fileVars, clientVars,
                resultVars, history
  <1>3. CASE Main  BY <1>3, MainTypes
  <1>4. CASE ClientSteps
    BY <1>4, ClientStepTypes
       DEF ClientSteps, TypeOK, WatchTypeOK, watchVars
  <1>5. CASE StudentSteps
    BY <1>5, StudentStepTypes
       DEF StudentSteps, TypeOK, WatchTypeOK, watchVars, history
  <1>6. CASE Interrupt
    BY <1>6, GoneTypes DEF Interrupt, TypeOK, WatchTypeOK, history
  <1>7. CASE UNCHANGED vars
    BY <1>7 DEF vars, TypeOK, ClientTypeOK, WatchTypeOK, fileVars, clientVars,
                resultVars, watchVars, history
  <1> QED  BY <1>1, <1>2, <1>3, <1>4, <1>5, <1>6, <1>7 DEF Next

\* Every variable keeps its type: the loop over the files stays within
\* results[], whose MAX_FILES is smaller than that of inotify_watch.c.
THEOREM TypeCorrect == Spec => []TypeOK
  <1>1. Init => TypeOK  BY InitTypes
  <1>2. TypeOK /\ [Next]_vars => TypeOK'  BY TypeStep
  <1> QED  BY <1>1, <1>2, PTL DEF Spec

-----------------------------------------------------------------------------
(* The order of the steps, and the account of the runs.                    *)

LEMMA InotifyDue ==
    ASSUME TypeOK, HandleInotify
    PROVE  IfdDue /\ ~IfdDue' /\ (TfdDue' <=> TfdDue)
  <1>1. ready \in Ready /\ ready # <<>> /\ Head(ready) = "ifd" /\ ready' = Tail(ready)
    BY DEF TypeOK, WatchTypeOK, Ready, HandleInotify
  <1>2. \/ ready = <<"ifd">> /\ ready' = <<>>
        \/ ready = <<"ifd", "tfd">> /\ ready' = <<"tfd">>
    BY <1>1, ReadyTail
  <1> QED  BY <1>2, ReadyDistinct DEF IfdDue, TfdDue

LEMMA TimerDue ==
    ASSUME TypeOK, HandleTimer
    PROVE  TfdDue /\ ~TfdDue' /\ (IfdDue' => IfdDue)
  <1>1. ready \in Ready /\ ready # <<>> /\ Head(ready) = "tfd" /\ ready' = Tail(ready)
    BY DEF TypeOK, WatchTypeOK, Ready, HandleTimer
  <1>2. \/ ready = <<"tfd">> /\ ready' = <<>>
        \/ ready = <<"tfd", "ifd">> /\ ready' = <<"ifd">>
    BY <1>1, ReadyTail
  <1> QED  BY <1>2, ReadyDistinct DEF IfdDue, TfdDue

LEMMA EpollDue ==
    ASSUME EpollWait
    PROVE  /\ IfdDue' => pending # {}
           /\ TfdDue' => timer = "expired"
  <1> DEFINE s == ready'
  <1>1. s \in {<<"ifd">>, <<"tfd">>, <<"ifd", "tfd">>, <<"tfd", "ifd">>}
        /\ {s[k] : k \in DOMAIN s} = Readable
    BY DEF EpollWait
  <1>2. IfdDue' => "ifd" \in Readable
    <2>1. CASE s = <<"ifd">>  BY <1>1, <2>1, 1 \in DOMAIN s, s[1] = "ifd"
    <2>2. CASE s = <<"ifd", "tfd">>  BY <1>1, <2>2, 1 \in DOMAIN s, s[1] = "ifd"
    <2>3. CASE s = <<"tfd", "ifd">>  BY <1>1, <2>3, 2 \in DOMAIN s, s[2] = "ifd"
    <2> QED  BY <2>1, <2>2, <2>3 DEF IfdDue
  <1>3. TfdDue' => "tfd" \in Readable
    <2>1. CASE s = <<"tfd">>  BY <1>1, <2>1, 1 \in DOMAIN s, s[1] = "tfd"
    <2>2. CASE s = <<"ifd", "tfd">>  BY <1>1, <2>2, 2 \in DOMAIN s, s[2] = "tfd"
    <2>3. CASE s = <<"tfd", "ifd">>  BY <1>1, <2>3, 1 \in DOMAIN s, s[1] = "tfd"
    <2> QED  BY <2>1, <2>2, <2>3 DEF TfdDue
  <1> QED  BY <1>2, <1>3 DEF Readable

\* A step of the client ends with the client still there.
LEMMA ClientStays ==
    ASSUME TypeOK, ClientStep
    PROVE  pc' \in {"read", "upload", "receive", "ui"} /\ pc \in {"read", "upload", "receive"}
  BY DEF ClientStep, ReadSource, ReadFails, Upload, UploadFails, Receive, ReceiveFails, Return

LEMMA OrderStep == TypeOK /\ Order /\ [Next]_vars => Order'
  <1> SUFFICES ASSUME TypeOK, Order, [Next]_vars  PROVE Order'
    OBVIOUS
  <1> USE DEF Order
  <1>1. CASE Save
    <2>1. UNCHANGED <<clientVars, at, ready>> /\ pending \subseteq pending'
      BY <1>1 DEF Save, SaveBegins, SaveEnds, SaveByRename, Notify, NoNotify,
                  watchVars, history
    <2> QED  BY <2>1 DEF clientVars, IfdDue
  <1>2. CASE Expire  BY <1>2 DEF Expire, clientVars, IfdDue
  <1>3. CASE ForkClient
    BY <1>3 DEF ForkClient, StartClient, IfdDue
  <1>4. CASE ForkFails  BY <1>4 DEF ForkFails, clientVars, IfdDue
  <1>5. CASE ClientEnds  BY <1>5 DEF ClientEnds, clientVars, IfdDue
  <1>6. CASE Loop  BY <1>6 DEF Loop, clientVars, IfdDue
  <1>7. CASE EpollWait  BY <1>7, EpollDue DEF EpollWait, clientVars
  <1>8. CASE LeaveLoop  BY <1>8 DEF LeaveLoop, clientVars, IfdDue
  <1>9. CASE HandleInotify  BY <1>9, InotifyDue DEF HandleInotify, clientVars
  <1>10. CASE HandleTimer  BY <1>10, TimerDue DEF HandleTimer, clientVars
  <1>11. CASE ClientSteps
    BY <1>11, ClientStays DEF ClientSteps, watchVars, IfdDue
  <1>12. CASE StudentSteps
    BY <1>12 DEF StudentSteps, StudentStep, Login, Quit, Gone, CloseEditor, OpenEditor,
                 watchVars, IfdDue
  <1>13. CASE Interrupt  BY <1>13 DEF Interrupt, Gone, IfdDue
  <1>14. CASE UNCHANGED vars
    BY <1>14 DEF vars, clientVars, watchVars, IfdDue
  <1> QED
    BY <1>1, <1>2, <1>3, <1>4, <1>5, <1>6, <1>7, <1>8, <1>9, <1>10, <1>11, <1>12,
       <1>13, <1>14 DEF Next, Main

LEMMA AccountStep == TypeOK /\ Order /\ Account /\ [Next]_vars => Account'
  <1> SUFFICES ASSUME TypeOK, Order, Account, [Next]_vars  PROVE Account'
    OBVIOUS
  <1> USE DEF Account, Bit
  <1>0. runs \in Nat /\ events \in Nat /\ timer \in {"off", "armed", "expired"}
    BY DEF TypeOK, WatchTypeOK
  <1>1. CASE Save
    <2>1. UNCHANGED <<runs, at, timer, ready>>
      BY <1>1 DEF Save, SaveBegins, SaveEnds, SaveByRename, watchVars, history
    <2>2. \/ UNCHANGED <<pending, events>>
          \/ events' = events + 1
      BY <1>1 DEF Save, SaveBegins, SaveEnds, SaveByRename, Notify, NoNotify,
                  watchVars, history
    <2> QED  BY <1>0, <2>1, <2>2 DEF TfdDue
  <1>2. CASE Expire  BY <1>0, <1>2 DEF Expire, history, TfdDue
  <1>3. CASE ForkClient  BY <1>0, <1>3 DEF ForkClient, TfdDue
  <1>4. CASE ForkFails  BY <1>0, <1>4 DEF ForkFails, TfdDue
  <1>5. CASE ClientEnds  BY <1>0, <1>5 DEF ClientEnds, history, TfdDue
  <1>6. CASE Loop  BY <1>0, <1>6 DEF Loop, history, TfdDue
  <1>7. CASE EpollWait  BY <1>0, <1>7, EpollDue DEF EpollWait, history
  <1>8. CASE LeaveLoop  BY <1>0, <1>8 DEF LeaveLoop, history, TfdDue
  <1>9. CASE HandleInotify
    BY <1>0, <1>9, InotifyDue DEF HandleInotify, history, Order
  <1>10. CASE HandleTimer  BY <1>0, <1>10, TimerDue DEF HandleTimer, history
  <1>11. CASE ClientSteps  BY <1>0, <1>11 DEF ClientSteps, watchVars, TfdDue
  <1>12. CASE StudentSteps  BY <1>0, <1>12 DEF StudentSteps, watchVars, history, TfdDue
  <1>13. CASE Interrupt  BY <1>0, <1>13 DEF Interrupt, history, TfdDue
  <1>14. CASE UNCHANGED vars  BY <1>0, <1>14 DEF vars, watchVars, history, TfdDue
  <1> QED
    BY <1>1, <1>2, <1>3, <1>4, <1>5, <1>6, <1>7, <1>8, <1>9, <1>10, <1>11, <1>12,
       <1>13, <1>14 DEF Next, Main

-----------------------------------------------------------------------------
(* What main() is told of and what is submitted.                           *)

\* What a step of the client does to tried.
LEMMA TriedSteps ==
    ASSUME ClientStep \/ StudentStep \/ Gone
    PROVE  tried' = tried \/ (pc = "read" /\ tried' = [tried EXCEPT ![cur] = content[cur]])
  BY DEF ClientStep, ReadSource, ReadFails, Upload, UploadFails, Receive, ReceiveFails,
         StudentStep, Login, Quit, Gone, CloseEditor, OpenEditor, resultVars

LEMMA ToldStep == TypeOK /\ Told /\ [Next]_vars => Told'
  <1> SUFFICES ASSUME TypeOK, Told, [Next]_vars  PROVE Told'
    OBVIOUS
  <1>0. /\ content \in [File -> Nat] /\ tried \in [File -> Nat]
        /\ notified \in [File -> Nat] /\ version \in Nat
        /\ cur \in File /\ watched \subseteq File
    BY ClientAssumption DEF TypeOK, ClientTypeOK, WatchTypeOK
  <1> USE DEF Told
  <1>1. CASE Save
    <2>1. PICK f \in File : \/ SaveBegins(f)
                            \/ SaveEnds(f)
                            \/ \E deleted \in BOOLEAN : SaveByRename(f, deleted)
      BY <1>1 DEF Save
    <2>2. CASE SaveBegins(f)
      BY <2>2 DEF SaveBegins, BeginSave, clientVars, watchVars, history
    <2>3. CASE SaveEnds(f)
      <3>1. /\ version' = version + 1 /\ content' = [content EXCEPT ![f] = version + 1]
            /\ UNCHANGED <<tried, watched>>
            /\ IF f \in watched THEN notified' = [notified EXCEPT ![f] = content'[f]]
                                ELSE UNCHANGED notified
        BY <2>3 DEF SaveEnds, EndSave, Write, Notify, NoNotify, clientVars
      <3> QED  BY <1>0, <3>1
    <2>4. ASSUME NEW deleted \in BOOLEAN, SaveByRename(f, deleted)  PROVE Told'
      <3>1. /\ version' = version + 1 /\ content' = [content EXCEPT ![f] = version + 1]
            /\ UNCHANGED tried /\ watched' = watched \ {f}
            /\ \/ notified' = [notified EXCEPT ![f] = content'[f]]
               \/ UNCHANGED notified
        BY <2>4 DEF SaveByRename, RenameSave, Write, Notify, NoNotify, clientVars
      <3> QED  BY <1>0, <3>1
    <2> QED  BY <2>1, <2>2, <2>3, <2>4
  <1>2. ASSUME UNCHANGED <<content, version, watched, notified>>,
               \/ tried' = tried
               \/ tried' = [tried EXCEPT ![cur] = content[cur]]
        PROVE  Told'
    BY <1>0, <1>2
  <1>3. CASE Expire \/ Main
    BY <1>2, <1>3 DEF Expire, Main, ForkClient, StartClient, ForkFails, ClientEnds, Loop,
          EpollWait, LeaveLoop, HandleInotify, HandleTimer, fileVars, clientVars, history
  <1>4. CASE ClientSteps \/ StudentSteps \/ Interrupt
    BY <1>2, <1>4, TriedSteps
       DEF ClientSteps, StudentSteps, Interrupt, fileVars, watchVars, history
  <1>5. CASE UNCHANGED vars
    BY <1>2, <1>5 DEF vars, fileVars, clientVars, watchVars, history
  <1> QED  BY <1>1, <1>3, <1>4, <1>5 DEF Next

\* A step of the client reads the next file, or leaves what it has to read.
LEMMA ClientReads ==
    ASSUME TypeOK, Told, ClientStep, NEW f \in Judged
    PROVE  \/ f = cur /\ pc = "read" /\ tried'[f] = content[f]
           \/ tried'[f] = tried[f] /\ (ClientComes(f) => ClientComes(f)')
  <1>0. /\ cur \in Nat /\ f \in Nat /\ cur \in File /\ f \in File
        /\ cur < f => cur + 1 \in Judged
        /\ tried \in [File -> 0..MaxVersion]
    BY FileFacts DEF TypeOK, ClientTypeOK
  <1>1. pc \in {"read", "upload", "receive"}  BY ClientStays
  <1>2. CASE ReadSource \/ ReadFails
    <2>1. tried' = [tried EXCEPT ![cur] = content[cur]] /\ pc = "read"
      BY <1>2 DEF ReadSource, ReadFails
    <2>2. CASE f = cur  BY <1>0, <2>1, <2>2
    <2>3. CASE f # cur
      BY <1>0, <1>2, <2>1, <2>3 DEF ReadSource, ReadFails, Return, ClientComes
    <2> QED  BY <2>2, <2>3
  <1>3. CASE Upload
    BY <1>0, <1>3 DEF Upload, ClientComes
  <1>4. ASSUME Return, UNCHANGED tried, pc \in {"upload", "receive"}
        PROVE  tried'[f] = tried[f] /\ (ClientComes(f) => ClientComes(f)')
    BY <1>0, <1>4 DEF Return, ClientComes
  <1>5. CASE UploadFails  BY <1>4, <1>5 DEF UploadFails
  <1>6. CASE \E g \in Grade : Receive(g) \/ ReceiveFails(g)
    BY <1>4, <1>6 DEF Receive, ReceiveFails
  <1> QED  BY <1>2, <1>3, <1>5, <1>6 DEF ClientStep

LEMMA SubmittedStep ==
    TypeOK /\ Order /\ Told /\ Submitted /\ [Next]_vars => Submitted'
  <1> SUFFICES ASSUME TypeOK, Order, Told, Submitted, [Next]_vars,
                      NEW f \in Judged, f \notin missed'
               PROVE  notified'[f] <= tried'[f] \/ Coming(f)'
    BY DEF Submitted
  <1>0. f \in File  BY FileFacts
  <1>1. CASE Save
    <2>1. UNCHANGED <<clientVars, at, timer, ready, g_running, missed>>
      BY <1>1 DEF Save, SaveBegins, SaveEnds, SaveByRename, watchVars, history
    <2>2. UNCHANGED <<notified, pending>> \/ pending' # {}
      BY <1>1 DEF Save, SaveBegins, SaveEnds, SaveByRename, Notify, NoNotify,
                  watchVars, history
    <2> QED  BY <2>1, <2>2 DEF Submitted, Coming, ClientComes, TfdDue, clientVars
  <1>2. CASE Expire
    BY <1>2 DEF Expire, Submitted, Coming
  <1>3. CASE ForkClient
    BY <1>3 DEF ForkClient, StartClient, Coming, ClientComes
  <1>4. CASE ForkFails
    BY <1>0, <1>4 DEF ForkFails
  <1>5. ASSUME UNCHANGED <<clientVars, pending, timer, g_running, history>>,
               at # "fork", TfdDue => TfdDue'
        PROVE  notified'[f] <= tried'[f] \/ Coming(f)'
    BY <1>5 DEF Submitted, Coming, ClientComes, clientVars, history
  <1>6. CASE ClientEnds  BY <1>5, <1>6 DEF ClientEnds, TfdDue
  <1>7. CASE Loop  BY <1>5, <1>7 DEF Loop, TfdDue
  <1>8. CASE EpollWait
    BY <1>5, <1>8, ReadyDistinct DEF EpollWait, Order, TfdDue
  <1>9. CASE LeaveLoop  BY <1>5, <1>9 DEF LeaveLoop, TfdDue
  <1>10. CASE HandleInotify  BY <1>10 DEF HandleInotify, Coming
  <1>11. CASE HandleTimer  BY <1>11 DEF HandleTimer, Coming
  <1>12. CASE ClientSteps
    <2>1. UNCHANGED <<watchVars, notified, content>>
      BY <1>12 DEF ClientSteps, fileVars
    <2>2. CASE f = cur /\ pc = "read" /\ tried'[f] = content[f]
      BY <1>0, <2>1, <2>2 DEF Told
    <2>3. CASE tried'[f] = tried[f] /\ (ClientComes(f) => ClientComes(f)')
      <3>1. CASE f \in missed
        <4>1. f = cur /\ pc = "read"  BY <1>12, <3>1 DEF ClientSteps
        <4>2. ReadSource \/ ReadFails
          BY <1>12, <4>1 DEF ClientSteps, ClientStep, Upload, UploadFails, Receive,
                             ReceiveFails
        <4>3. tried'[f] = content[f]
          BY <1>0, <4>1, <4>2 DEF ReadSource, ReadFails, TypeOK, ClientTypeOK
        <4> QED  BY <1>0, <2>1, <4>3 DEF Told
      <3>2. CASE f \notin missed
        BY <2>1, <2>3, <3>2 DEF Submitted, Coming, TfdDue, watchVars
      <3> QED  BY <3>1, <3>2
    <2> QED  BY <1>12, <2>2, <2>3, ClientReads DEF ClientSteps
  <1>13. CASE StudentSteps
    <2>1. UNCHANGED <<watchVars, history, tried>>
      BY <1>13 DEF StudentSteps, StudentStep, Login, Quit, Gone, CloseEditor, OpenEditor
    <2>2. ClientComes(f) => ClientComes(f)'
      <3>1. f \in Nat /\ 1 <= f  BY <1>0 DEF File
      <3> QED
        BY <1>13, <3>1 DEF StudentSteps, StudentStep, Login, Quit, Gone, CloseEditor,
             OpenEditor, ClientComes, Order
    <2> QED  BY <2>1, <2>2 DEF Submitted, Coming, TfdDue, watchVars, history
  <1>14. CASE Interrupt  BY <1>14 DEF Interrupt, Coming
  <1>15. CASE UNCHANGED vars
    BY <1>15 DEF vars, clientVars, watchVars, history, Submitted, Coming, ClientComes, TfdDue
  <1> QED
    BY <1>1, <1>2, <1>3, <1>4, <1>6, <1>7, <1>8, <1>9, <1>10, <1>11, <1>12, <1>13,
       <1>14, <1>15 DEF Next, Main

-----------------------------------------------------------------------------
(* What the screen shows.                                                  *)

LEMMA AnsweredScreen ==
    ASSUME TypeOK, Screen, NEW g \in Grade, Answered(g)
    PROVE  /\ \A f \in File :
                 results'[f].of # 0 \/ results'[f].grade # "AC" =>
                     [file |-> f, grade |-> results'[f].grade, of |-> results'[f].of] \in sent'
           /\ results'[cur].of = payload
           /\ \A f \in File \ {cur} : results'[f] = results[f]
  BY DEF Answered, Screen, TypeOK, ClientTypeOK

LEMMA ScreenClientStep ==
    ASSUME TypeOK, Screen, ClientStep
    PROVE  Screen'
  <1>0. /\ cur \in File /\ answered \subseteq File
        /\ results \in [File -> Result] /\ tried \in [File -> 0..MaxVersion]
    BY DEF TypeOK, ClientTypeOK
  <1> USE DEF Screen
  <1>1. CASE ReadSource
    BY <1>0, <1>1 DEF ReadSource, resultVars
  <1>2. CASE ReadFails
    BY <1>0, <1>2 DEF ReadFails, Return
  <1>3. CASE Upload
    BY <1>0, <1>3 DEF Upload, Cleared
  <1>4. CASE UploadFails
    BY <1>0, <1>4 DEF UploadFails, Return
  <1>5. ASSUME NEW g \in Grade, Receive(g)  PROVE Screen'
    <2>1. pc = "receive" /\ pc' \in {"read", "ui"} /\ UNCHANGED tried
          /\ answered' = answered \cup {cur} /\ Answered(g)
      BY <1>5 DEF Receive, Return
    <2>2. \A f \in answered' : results'[f].of = tried'[f]
      BY <1>0, <2>1, AnsweredScreen
    <2> QED  BY <2>1, <2>2, AnsweredScreen
  <1>6. ASSUME NEW g \in Grade, ReceiveFails(g)  PROVE Screen'
    <2>1. pc = "receive" /\ pc' \in {"read", "ui"} /\ UNCHANGED tried
          /\ answered' = answered \ {cur}
      BY <1>6 DEF ReceiveFails, Return
    <2>2. CASE Answered(g)
      BY <1>0, <2>1, <2>2, AnsweredScreen
    <2>3. CASE UNCHANGED <<results, sent>>
      BY <2>1, <2>3
    <2> QED  BY <1>6, <2>2, <2>3 DEF ReceiveFails
  <1> QED  BY <1>1, <1>2, <1>3, <1>4, <1>5, <1>6 DEF ClientStep

LEMMA GoneScreen == Gone => Screen'
  BY DEF Gone, Screen, Cleared

LEMMA ScreenStep == TypeOK /\ Order /\ Screen /\ [Next]_vars => Screen'
  <1> SUFFICES ASSUME TypeOK, Order, Screen, [Next]_vars  PROVE Screen'
    OBVIOUS
  <1>1. CASE Save
    BY <1>1 DEF Save, SaveBegins, SaveEnds, SaveByRename, Screen, clientVars, resultVars
  <1>2. CASE Expire  BY <1>2 DEF Expire, Screen, clientVars, resultVars
  <1>3. CASE ForkClient
    BY <1>3 DEF ForkClient, StartClient, Screen, resultVars
  <1>4. CASE Main /\ UNCHANGED clientVars
    BY <1>4 DEF Screen, clientVars, resultVars
  <1>5. CASE Main /\ ~ForkClient
    BY <1>4, <1>5 DEF Main, ForkFails, ClientEnds, Loop, EpollWait, LeaveLoop,
                      HandleInotify, HandleTimer
  <1>6. CASE ClientSteps  BY <1>6, ScreenClientStep DEF ClientSteps
  <1>7. CASE StudentSteps
    <2>1. CASE Quit  BY <2>1, GoneScreen DEF Quit
    <2>2. CASE Login \/ CloseEditor \/ \E f \in Judged : OpenEditor(f)
      BY <2>2 DEF Login, CloseEditor, OpenEditor, Screen, resultVars
    <2> QED  BY <1>7, <2>1, <2>2 DEF StudentSteps, StudentStep
  <1>8. CASE Interrupt  BY <1>8, GoneScreen DEF Interrupt
  <1>9. CASE UNCHANGED vars
    BY <1>9 DEF vars, clientVars, resultVars, Screen
  <1> QED  BY <1>1, <1>2, <1>3, <1>5, <1>6, <1>7, <1>8, <1>9 DEF Next

-----------------------------------------------------------------------------
(* The theorems.                                                           *)

LEMMA InitInv == Init => IInv
  <1> SUFFICES ASSUME Init  PROVE IInv
    OBVIOUS
  <1>1. TypeOK  BY InitTypes
  <1>2. Order  BY ReadyDistinct DEF Init, ClientInit, Order, IfdDue
  <1>3. Account  BY ReadyDistinct DEF Init, Account, Bit, TfdDue
  <1>4. Submitted  BY DEF Init, Submitted, Coming
  <1>5. Told
    <2>1. watched \subseteq File  BY DEF Init
    <2> QED  BY <2>1 DEF Init, ClientInit, Told
  <1>6. Screen  BY DEF Init, ClientInit, Screen, Cleared
  <1> QED  BY <1>1, <1>2, <1>3, <1>4, <1>5, <1>6 DEF IInv

\* The inductive invariant holds in every reachable state of the watcher.
THEOREM InvAlways == Spec => []IInv
  <1>1. Init => IInv  BY InitInv
  <1>2. IInv /\ [Next]_vars => IInv'
    BY TypeStep, OrderStep, AccountStep, SubmittedStep, ToldStep, ScreenStep, Zenon DEF IInv
  <1> QED  BY <1>1, <1>2, PTL DEF Spec

LEMMA RestFacts ==
    ASSUME IInv, AtRest
    PROVE  \A f \in Judged \ missed : notified[f] <= tried[f]
  <1>1. ready = <<>> /\ pc = "off" /\ at = "wait"
    BY DEF IInv, Order, AtRest
  <1>2. ~TfdDue  BY <1>1, ReadyDistinct DEF TfdDue
  <1>3. \A f \in Judged : ~Coming(f)
    BY <1>1, <1>2 DEF AtRest, Coming, ClientComes
  <1> QED  BY <1>3 DEF IInv, Submitted

\* At rest everything the watcher was told of has been submitted since,
\* wherever the saves fell (inotify_watch.c:195-241).
THEOREM RestSubmitted == Spec => []RestMeansSubmitted
  <1>1. IInv => RestMeansSubmitted  BY RestFacts DEF RestMeansSubmitted
  <1> QED  BY <1>1, InvAlways, PTL

\* At rest the text submitted is the file's, while its path names the watched
\* inode (inotify_watch.c:119-135).
THEOREM RestCurrent == Spec => []RestMeansCurrent
  <1>1. IInv => RestMeansCurrent
    <2> SUFFICES ASSUME IInv, AtRest,
                        NEW f \in (Judged \cap watched) \ (missed \cup writing)
                 PROVE  tried[f] = content[f]
      BY DEF RestMeansCurrent
    <2>1. f \in File /\ tried[f] \in Nat /\ content[f] \in Nat
      BY FileFacts, ClientAssumption DEF IInv, TypeOK, ClientTypeOK
    <2>2. tried[f] <= content[f] /\ notified[f] = content[f]
      BY <2>1 DEF IInv, Told
    <2>3. notified[f] <= tried[f]  BY RestFacts
    <2> QED  BY <2>1, <2>2, <2>3
  <1> QED  BY <1>1, InvAlways, PTL

\* The client is run once at the start and then at most once for each event,
\* whatever the timer and the list of descriptors do to each other
\* (inotify_watch.c:215-235).
THEOREM RunsAccounted == Spec => []NoRunWithoutEvent
  <1>1. IInv => NoRunWithoutEvent
    BY DEF IInv, TypeOK, WatchTypeOK, Account, Bit, NoRunWithoutEvent
  <1> QED  BY <1>1, InvAlways, PTL

\* Every grade on the screen is one the server sent for that file and text,
\* except an AC where the last submission brought no whole answer
\* (client/client.c:714-719, 763).
THEOREM ScreenExplained == Spec => []ScreenIsExplained
  <1>1. IInv => ScreenIsExplained
    <2> SUFFICES ASSUME IInv, pc \in {"ui", "editor"}, NEW f \in Judged
                 PROVE  /\ results[f].of # 0 \/ results[f].grade # "AC" =>
                             [file |-> f, grade |-> results[f].grade,
                              of |-> results[f].of] \in sent
                        /\ f \in answered => results[f].of = tried[f]
      BY DEF ScreenIsExplained
    <2> QED  BY FileFacts DEF IInv, Screen
  <1> QED  BY <1>1, InvAlways, PTL
-----------------------------------------------------------------------------
(* No save is forgotten: what EventIsSubmitted needs besides fairness.     *)

\* main() can take a step, and so can the client.
MainReady ==
    \/ at \in {"fork", "handle"}
    \/ at = "child" /\ pc = "off"
    \/ at = "wait" /\ (Readable # {} \/ ~g_running)

ClientReady == pc \in {"read", "upload", "receive"}

\* The client waits for the student, at the prompt for the ID or the screen.
StudentAsked == pc \in {"login", "ui", "editor"}

\* As long as the watcher has been told of a text that is not submitted, a run
\* that will read the file is in store, and something in the chain of timer,
\* main() and client can go on, or the student is waited for: the chain never
\* stands still with the text in it (inotify_watch.c:195-241).
SubmissionGoesOn ==
    \A f \in Judged \ missed :
        notified[f] > tried[f] /\ g_running =>
            /\ Coming(f)
            /\ MainReady \/ ClientReady \/ timer = "armed" \/ StudentAsked

\* main() leaves its loop only after the signal.
EndMeansSignal == at = "ended" => ~g_running

LEMMA EndMeansSignalStep ==
    TypeOK /\ EndMeansSignal /\ [Next]_vars => EndMeansSignal'
  <1> SUFFICES ASSUME TypeOK, EndMeansSignal, [Next]_vars  PROVE EndMeansSignal'
    OBVIOUS
  <1> USE DEF EndMeansSignal
  <1>1. CASE Save
    BY <1>1 DEF Save, SaveBegins, SaveEnds, SaveByRename, watchVars
  <1>2. CASE Expire  BY <1>2 DEF Expire
  <1>3. CASE Main
    BY <1>3 DEF Main, ForkClient, ForkFails, ClientEnds, Loop, EpollWait, LeaveLoop,
                HandleInotify, HandleTimer
  <1>4. CASE ClientSteps \/ StudentSteps \/ Interrupt
    BY <1>4 DEF ClientSteps, StudentSteps, Interrupt, watchVars
  <1>5. CASE UNCHANGED vars  BY <1>5 DEF vars, watchVars
  <1> QED  BY <1>1, <1>2, <1>3, <1>4, <1>5 DEF Next

LEMMA GoesOn == IInv /\ EndMeansSignal => SubmissionGoesOn
  <1> SUFFICES ASSUME IInv, EndMeansSignal, g_running,
                      NEW f \in Judged \ missed, notified[f] > tried[f]
               PROVE  /\ Coming(f)
                      /\ MainReady \/ ClientReady \/ timer = "armed" \/ StudentAsked
    BY DEF SubmissionGoesOn
  <1>1. Coming(f)
    <2>1. notified[f] \in Nat /\ tried[f] \in Nat
      BY FileFacts, ClientAssumption DEF IInv, TypeOK, ClientTypeOK, WatchTypeOK
    <2> QED  BY <2>1 DEF IInv, Submitted
  <1>2. CASE at \in {"fork", "handle"}  BY <1>1, <1>2 DEF MainReady
  <1>3. CASE at = "child"
    BY <1>1, <1>3 DEF IInv, TypeOK, ClientTypeOK, MainReady, ClientReady, StudentAsked
  <1>4. CASE at = "wait"
    <2>1. ready = <<>> /\ pc = "off"  BY <1>4 DEF IInv, Order
    <2>2. ~TfdDue  BY <2>1, ReadyDistinct DEF TfdDue
    <2>3. pending # {} \/ timer # "off"
      BY <1>1, <1>4, <2>1, <2>2 DEF Coming, ClientComes
    <2>4. timer = "armed" \/ Readable # {}
      BY <2>3 DEF IInv, TypeOK, WatchTypeOK, Readable, Descriptor
    <2> QED  BY <1>1, <1>4, <2>4 DEF MainReady
  <1>5. at # "ended"  BY DEF EndMeansSignal
  <1> QED  BY <1>1, <1>2, <1>3, <1>4, <1>5 DEF IInv, TypeOK, WatchTypeOK

\* The safety half of EventIsSubmitted: a text the watcher was told of is
\* never left behind with nothing under way that would submit it
\* (inotify_watch.c:195-241).
THEOREM NoSaveForgotten == Spec => []SubmissionGoesOn
  <1>1. Init => EndMeansSignal  BY DEF Init, EndMeansSignal
  <1>2. IInv /\ EndMeansSignal /\ [Next]_vars => EndMeansSignal'
    BY EndMeansSignalStep DEF IInv
  <1> QED  BY <1>1, <1>2, GoesOn, InvAlways, PTL DEF Spec
=============================================================================
