------------------------------- MODULE Client -------------------------------
(* The submitting client, client/client.c, and the student's files.        *)
(*                                                                         *)
(* The client reads each file of its command line, uploads it and waits    *)
(* for the result (send_source), then shows the results.  From the screen  *)
(* the student opens files in an editor; a file whose modification time    *)
(* has changed is submitted again.  Files are also saved by other editors, *)
(* at any time.                                                            *)
(*                                                                         *)
(* A file is known by its place on the command line.  Every text saved has *)
(* a number of its own, which grow with time; a text read in the middle of *)
(* a save goes by the number of the text before it.                        *)
EXTENDS Naturals

CONSTANTS
    NumFiles,        \* files on the command line
    MaxClientFiles,  \* MAX_FILES of client/client.c (50)
    Grade,           \* grades; "AC" is the one with the value 0
    MaxVersion       \* bound: texts of all files together

ASSUME ClientAssumption ==
    /\ NumFiles \in Nat \ {0}
    /\ MaxClientFiles \in Nat \ {0}
    /\ "AC" \in Grade
    /\ MaxVersion \in Nat \ {0}

File == 1..NumFiles

\* The files the client looks at, the rest of the command line is ignored.
Judged == {f \in File : f <= MaxClientFiles}

\* results[] is cleared with memset, and the value of GRADE_AC is 0.
Cleared == [grade |-> "AC", of |-> 0]

VARIABLES
    content,   \* the version each file holds
    writing,   \* files truncated by a save in place that has not closed yet
    version,   \* the newest version of any file
    pc,        \* the client: "off", "login", a step of send_source, "ui", "editor"
    batch,     \* the submission at hand belongs to the loop at the start
    cur,       \* the file being submitted or edited
    payload,   \* the version read for the submission at hand
    before,    \* the version of which st_before.st_mtime is the time
    results,   \* results[]: the grade shown, and the version it was given to
    answered,  \* history: files whose last submission brought a whole answer
    tried,     \* history: the version each file held when last opened to submit
    sent       \* history: answers the server has sent to this client

fileVars   == <<content, writing, version>>
resultVars == <<results, answered, sent>>
clientVars == <<pc, batch, cur, payload, before, tried, resultVars>>

Result == [grade : Grade, of : 0..MaxVersion]
Answer == [file : File, grade : Grade, of : 0..MaxVersion]

ClientTypeOK ==
    /\ content \in [File -> 1..MaxVersion]
    /\ writing \in SUBSET File
    /\ version \in 1..MaxVersion
    /\ pc \in {"off", "login", "read", "upload", "receive", "ui", "editor"}
    /\ batch \in BOOLEAN
    /\ cur \in File
    /\ payload \in 0..MaxVersion
    /\ before \in 0..MaxVersion
    /\ results \in [File -> Result]
    /\ answered \in SUBSET File
    /\ tried \in [File -> 0..MaxVersion]
    /\ sent \in SUBSET Answer

ClientInit ==
    /\ content = [f \in File |-> 1]
    /\ writing = {}
    /\ version = 1
    /\ pc = "off"
    /\ batch = TRUE
    /\ cur = 1
    /\ payload = 0
    /\ before = 0
    /\ results = [f \in File |-> Cleared]
    /\ answered = {}
    /\ tried = [f \in File |-> 0]
    /\ sent = {}

-----------------------------------------------------------------------------
(* The files.                                                              *)

Write(f) ==
    /\ version < MaxVersion
    /\ version' = version + 1
    /\ content' = [content EXCEPT ![f] = version + 1]

\* An editor opens the file for writing, which truncates it ...
BeginSave(f) ==
    /\ f \notin writing
    /\ version < MaxVersion
    /\ writing' = writing \cup {f}
    /\ UNCHANGED <<content, version>>

\* ... writes the text and closes the file.
EndSave(f) ==
    /\ f \in writing
    /\ Write(f)
    /\ writing' = writing \ {f}

\* An editor writes a new file and renames it over the old one.
RenameSave(f) ==
    /\ f \notin writing
    /\ Write(f)
    /\ UNCHANGED writing

-----------------------------------------------------------------------------
(* The client.  A local variable is reset when it goes out of use.         *)

\* The process ends, of itself or by a signal.
Gone ==
    /\ pc' = "off"
    /\ results' = [f \in File |-> Cleared]
    /\ answered' = {}
    /\ sent' = {}
    /\ batch' = TRUE
    /\ cur' = 1
    /\ payload' = 0
    /\ before' = 0
    /\ UNCHANGED tried

\* main: the student is asked for the ID ...
StartClient ==
    /\ pc = "off"
    /\ pc' = "login"
    /\ UNCHANGED <<batch, cur, payload, before, tried, resultVars>>

\* ... and has typed one; results[] is cleared, the first file is next.
Login ==
    /\ pc = "login"
    /\ pc' = "read"
    /\ UNCHANGED <<batch, cur, payload, before, tried, resultVars>>

\* Mutant: the loop over the files runs one further than their number.
ReturnOneMore ==
    /\ IF batch /\ cur \in Judged
       THEN pc' = "read" /\ cur' = cur + 1
       ELSE pc' = "ui" /\ cur' = 1
    /\ payload' = 0
    /\ UNCHANGED <<batch, before>>

\* send_source returns, its value is not looked at: the next file of the
\* loop, or the screen.
Return ==
    /\ IF batch /\ cur + 1 \in Judged
       THEN pc' = "read" /\ cur' = cur + 1
       ELSE pc' = "ui" /\ cur' = 1
    /\ payload' = 0
    /\ UNCHANGED <<batch, before>>

ReadSource ==
    /\ pc = "read"
    /\ tried' = [tried EXCEPT ![cur] = content[cur]]
    /\ payload' = content[cur]
    /\ pc' = "upload"
    /\ UNCHANGED <<batch, cur, before, resultVars>>

\* The file cannot be read, is empty or too large, or shrinks while it is
\* read.
ReadFails ==
    /\ pc = "read"
    /\ tried' = [tried EXCEPT ![cur] = content[cur]]
    /\ answered' = answered \ {cur}
    /\ Return
    /\ UNCHANGED <<results, sent>>

\* Connect, send header and text; then the result's record is cleared.
Upload ==
    /\ pc = "upload"
    /\ pc' = "receive"
    /\ results' = [results EXCEPT ![cur] = Cleared]
    /\ UNCHANGED <<batch, cur, payload, before, tried, answered, sent>>

UploadFails ==
    /\ pc = "upload"
    /\ answered' = answered \ {cur}
    /\ Return
    /\ UNCHANGED <<tried, results, sent>>

\* Mutant: every answer goes into the first entry of results[].
AnsweredFirst(g) ==
    /\ results' = [results EXCEPT ![1] = [grade |-> g, of |-> payload]]
    /\ sent' = sent \cup {[file |-> cur, grade |-> g, of |-> payload]}

\* The server's answer reaches the client, at least up to the grade.
Answered(g) ==
    /\ results' = [results EXCEPT ![cur] = [grade |-> g, of |-> payload]]
    /\ sent' = sent \cup {[file |-> cur, grade |-> g, of |-> payload]}

\* A whole ResultHeader arrives.
Receive(g) ==
    /\ pc = "receive"
    /\ Answered(g)
    /\ answered' = answered \cup {cur}
    /\ Return
    /\ UNCHANGED tried

\* The connection ends before the ResultHeader is complete, with or without
\* the byte that holds the grade.
ReceiveFails(g) ==
    /\ pc = "receive"
    /\ Answered(g) \/ UNCHANGED <<results, sent>>
    /\ answered' = answered \ {cur}
    /\ Return
    /\ UNCHANGED tried

\* ENTER on a file: its modification time is taken, the editor opens.
OpenEditor(f) ==
    /\ pc = "ui"
    /\ pc' = "editor"
    /\ cur' = f
    /\ before' = content[f]
    /\ UNCHANGED <<batch, payload, tried, resultVars>>

\* The editor has ended: submit again if the modification time has changed.
\* It counts whole seconds, so a save within the second of the one before
\* leaves it as it was.
CloseEditor ==
    /\ pc = "editor"
    /\ \/ pc' = "read" /\ content[cur] # before /\ UNCHANGED cur
       \/ pc' = "ui" /\ cur' = 1
    /\ batch' = FALSE
    /\ before' = 0
    /\ UNCHANGED <<payload, tried, resultVars>>

Quit == pc = "ui" /\ Gone

\* The steps the client takes by itself.
ClientStep ==
    \/ ReadSource \/ ReadFails
    \/ Upload \/ UploadFails
    \/ \E g \in Grade : Receive(g) \/ ReceiveFails(g)

\* What the student does at the screen.
StudentStep == Login \/ Quit \/ CloseEditor \/ \E f \in Judged : OpenEditor(f)
=============================================================================
