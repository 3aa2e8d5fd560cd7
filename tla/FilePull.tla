------------------------------ MODULE FilePull ------------------------------
(***************************************************************************)
(* Distribution of the week's files: handle_file_pull and send_one_file of *)
(* server/server.c against do_pull_mode of client/client.c, over one TCP   *)
(* connection.                                                             *)
(*                                                                         *)
(* The connection is the sequence of packets sent so far and the number of *)
(* them the client has taken.  A file is a sequence of blocks of           *)
(* FILE_CHUNK_SIZE, a block the number of the edit that wrote it, and a    *)
(* checksum is the content it was computed of.                             *)
(***************************************************************************)
EXTENDS Integers, Sequences, FiniteSets

CONSTANTS
    File,           \* regular files of dist/<week>
    NoFile,         \* out_fd = -1
    Absent,         \* no such file in the student's directory
    MaxDistFiles,   \* MAX_DIST_FILES
    Window,         \* bound: packets the connection holds
    MaxBlocks,      \* bound: blocks of a file
    MaxEdits,       \* bound: rewrites of distributed files
    MaxPulls        \* bound: pulls of the student

ASSUME PullAssumption ==
    /\ IsFiniteSet(File) /\ File # {}
    /\ NoFile \notin File
    /\ Absent \notin Seq(Nat)
    /\ MaxDistFiles \in Nat \ {0} /\ Window \in Nat \ {0}
    /\ MaxBlocks \in Nat /\ MaxEdits \in Nat /\ MaxPulls \in Nat

VARIABLES
    dist,        \* the files of dist/<week>
    edits,       \* number of rewrites
    server,      \* where the worker is in handle_file_pull
    list,        \* file_names, in the order of readdir
    index,       \* i of the loop over them
    read,        \* blocks read of the current file: offset and crc
    conn,        \* "none", "up", "lost"
    sent,        \* packets sent on the connection
    got,         \* number of them the client has received
    client,      \* "idle", in do_pull_mode ("pull"), or how it ended
    out,         \* file open as out_fd, which is also the client's state
    blocks,      \* crc_accum: blocks received of that file
    files_done,  \* counted files
    local,       \* the student's directory
    pulls        \* number of pulls

distVars   == <<dist, edits>>
serverVars == <<server, list, index, read>>
clientVars == <<client, out, blocks, files_done, local, pulls>>
vars == <<distVars, serverVars, conn, sent, got, clientVars>>

(* The packets of the protocol. *)
Meta(f, n) == [type |-> "META", file |-> f, size |-> n]
Chunk(b)   == [type |-> "CHUNK", block |-> b]
End(s)     == [type |-> "END", sum |-> s]
Done(n)    == [type |-> "DONE", total |-> n]
Error      == [type |-> "ERROR"]

Block   == 0..MaxEdits
Content == UNION {[1..n -> Block] : n \in 0..MaxBlocks}

(* What readdir may return: no file twice, MAX_DIST_FILES of them. *)
Listings ==
    LET n == IF Cardinality(File) < MaxDistFiles
             THEN Cardinality(File) ELSE MaxDistFiles
    IN  {l \in [1..n -> File] : \A i, j \in 1..n : l[i] = l[j] => i = j}

Init ==
    /\ dist \in [File -> {[i \in 1..n |-> 0] : n \in 0..MaxBlocks}]
    /\ edits = 0
    /\ server = "idle" /\ list = <<>> /\ index = 1 /\ read = <<>>
    /\ conn = "none" /\ sent = <<>> /\ got = 0
    /\ client = "idle" /\ out = NoFile /\ blocks = <<>> /\ files_done = 0
    /\ local = [f \in File |-> Absent]
    /\ pulls = 0

-----------------------------------------------------------------------------
(* The world around: the teacher rewrites a file in place, the connection  *)
(* breaks.                                                                 *)

Truncate(f) ==
    /\ edits < MaxEdits
    /\ dist' = [dist EXCEPT ![f] = <<>>]
    /\ edits' = edits + 1
    /\ UNCHANGED <<serverVars, conn, sent, got, clientVars>>

WriteBlock(f) ==
    /\ edits > 0 /\ Len(dist[f]) < MaxBlocks
    /\ dist' = [dist EXCEPT ![f] = Append(@, edits)]
    /\ UNCHANGED <<edits, serverVars, conn, sent, got, clientVars>>

LoseConnection ==
    /\ conn = "up" /\ client = "pull"
    /\ conn' = "lost"
    /\ UNCHANGED <<distVars, serverVars, sent, got, clientVars>>

-----------------------------------------------------------------------------
(* The server's worker.                                                    *)

(* _send_all: waits while the connection is full, fails when it is gone. *)
Send(packet) ==
    /\ conn = "up"
    /\ Len(sent) - got < Window
    /\ sent' = Append(sent, packet)

DropRequest ==
    /\ server = "request" /\ conn = "lost"
    /\ server' = "closed"
    /\ UNCHANGED <<distVars, list, index, read, conn, sent, got, clientVars>>

(* The request is read and the folder is listed. *)
ListFiles ==
    /\ server = "request"
    /\ server' = "open"
    /\ list' \in Listings
    /\ index' = 1
    /\ UNCHANGED <<distVars, read, conn, sent, got, clientVars>>

(* The folder does not exist or is empty. *)
NothingToList ==
    /\ server = "request"
    /\ server' = "error"
    /\ UNCHANGED <<distVars, list, index, read, conn, sent, got, clientVars>>

(* open, fstat and the META packet with the size of that moment. *)
OpenFile ==
    /\ server = "open"
    /\ Send(Meta(list[index], Len(dist[list[index]])))
    /\ server' = "read"
    /\ read' = <<>>
    /\ UNCHANGED <<distVars, list, index, conn, got, clientVars>>

(* Mutant: a file that cannot be opened is passed over. *)
OpenFailsSkips ==
    /\ server = "open"
    /\ server' = IF index = Len(list) THEN "done" ELSE "open"
    /\ index' = IF index = Len(list) THEN index ELSE index + 1
    /\ UNCHANGED <<distVars, list, read, conn, sent, got, clientVars>>

(* The file cannot be opened or is too large. *)
OpenFails ==
    /\ server = "open"
    /\ server' = "error"
    /\ UNCHANGED <<distVars, list, index, read, conn, sent, got, clientVars>>

(* malloc of the chunk buffer fails. *)
NoBuffer ==
    /\ server = "read" /\ read = <<>>
    /\ server' = "error"
    /\ UNCHANGED <<distVars, list, index, read, conn, sent, got, clientVars>>

ReadChunk ==
    /\ server = "read"
    /\ Len(read) < Len(dist[list[index]])
    /\ LET b == dist[list[index]][Len(read) + 1]
       IN  Send(Chunk(b)) /\ read' = Append(read, b)
    /\ UNCHANGED <<distVars, server, list, index, conn, got, clientVars>>

(* read returns 0 at the end of the file as it is by now, or -1: either    *)
(* ends the loop, and END carries the checksum of what was sent.           *)
EndFile ==
    /\ server = "read"
    /\ Send(End(read))
    /\ IF index = Len(list) THEN server' = "done" /\ index' = index
                            ELSE server' = "open" /\ index' = index + 1
    /\ UNCHANGED <<distVars, list, read, conn, got, clientVars>>

SendDone ==
    /\ server = "done"
    /\ Send(Done(Len(list)))
    /\ server' = "closed"
    /\ UNCHANGED <<distVars, list, index, read, conn, got, clientVars>>

SendError ==
    /\ server = "error"
    /\ Send(Error)
    /\ server' = "closed"
    /\ UNCHANGED <<distVars, list, index, read, conn, got, clientVars>>

(* A send fails, and so does that of the error packet. *)
SendFails ==
    /\ server \in {"open", "read", "done", "error"} /\ conn = "lost"
    /\ server' = "closed"
    /\ UNCHANGED <<distVars, list, index, read, conn, sent, got, clientVars>>

-----------------------------------------------------------------------------
(* The client.                                                             *)

(* The student runs the client with --get; a worker takes the connection. *)
StartPull ==
    /\ client # "pull" /\ server \in {"idle", "closed"} /\ pulls < MaxPulls
    /\ client' = "pull" /\ server' = "request" /\ conn' = "up"
    /\ sent' = <<>> /\ got' = 0
    /\ out' = NoFile /\ blocks' = <<>> /\ files_done' = 0
    /\ pulls' = pulls + 1
    /\ UNCHANGED <<distVars, list, index, read, local>>

Arrived == got < Len(sent)
Packet  == sent[got + 1]

Receive(type) ==
    /\ client = "pull" /\ Arrived /\ Packet.type = type
    /\ got' = got + 1

(* A new file: created, or emptied if the student has one of that name. *)
RecvMeta ==
    /\ Receive("META")
    /\ out' = Packet.file
    /\ local' = [local EXCEPT ![Packet.file] = <<>>]
    /\ blocks' = <<>>
    /\ UNCHANGED <<distVars, serverVars, conn, sent, client, files_done, pulls>>

(* A block is written to the target as it arrives. *)
RecvChunk ==
    /\ Receive("CHUNK") /\ out # NoFile
    /\ blocks' = Append(blocks, Packet.block)
    /\ local' = [local EXCEPT ![out] = Append(@, Packet.block)]
    /\ UNCHANGED <<distVars, serverVars, conn, sent, client, out, files_done, pulls>>

RecvEnd ==
    /\ Receive("END") /\ out # NoFile
    /\ IF Packet.sum = blocks
       THEN files_done' = files_done + 1 /\ local' = local
       ELSE files_done' = files_done /\ local' = [local EXCEPT ![out] = Absent]
    /\ out' = NoFile
    /\ UNCHANGED <<distVars, serverVars, conn, sent, client, blocks, pulls>>

RecvDone ==
    /\ Receive("DONE")
    /\ client' = "ok" /\ conn' = "lost"
    /\ UNCHANGED <<distVars, serverVars, sent, out, blocks, files_done, local, pulls>>

(* The client closes the connection and removes the file it has open. *)
GiveUp ==
    /\ client' = "failed" /\ conn' = "lost"
    /\ local' = IF out = NoFile THEN local ELSE [local EXCEPT ![out] = Absent]
    /\ out' = NoFile

RecvError ==
    /\ Receive("ERROR")
    /\ GiveUp
    /\ UNCHANGED <<distVars, serverVars, sent, blocks, files_done, pulls>>

(* The connection is gone, or at its end. *)
EndOfStream == conn = "lost" \/ (server = "closed" /\ ~Arrived)

(* The target cannot be opened or written, or a packet is out of place. *)
CannotContinue ==
    Arrived /\ \/ Packet.type \in {"META", "CHUNK"}
               \/ Packet.type = "END" /\ out = NoFile

(* Mutant: an end of the stream is not taken for an error. *)
RecvFailsNotAtEnd ==
    /\ client = "pull" /\ CannotContinue
    /\ GiveUp
    /\ UNCHANGED <<distVars, serverVars, sent, got, blocks, files_done, pulls>>

(* Mutant: the file is closed but not removed. *)
RecvFailsKeepsFile ==
    /\ client = "pull" /\ (EndOfStream \/ CannotContinue)
    /\ client' = "failed" /\ conn' = "lost" /\ out' = NoFile
    /\ UNCHANGED <<distVars, serverVars, sent, got, blocks, files_done, local, pulls>>

(* recv_error. *)
RecvFails ==
    /\ client = "pull" /\ (EndOfStream \/ CannotContinue)
    /\ GiveUp
    /\ UNCHANGED <<distVars, serverVars, sent, got, blocks, files_done, pulls>>

(* The student interrupts the client; nothing is cleaned up. *)
Interrupt ==
    /\ client = "pull"
    /\ client' = "killed" /\ conn' = "lost"
    /\ UNCHANGED <<distVars, serverVars, sent, got, out, blocks, files_done, local,
                   pulls>>

-----------------------------------------------------------------------------
ServerNext ==
    \/ DropRequest \/ ListFiles \/ NothingToList \/ OpenFile \/ OpenFails
    \/ NoBuffer \/ ReadChunk \/ EndFile \/ SendDone \/ SendError \/ SendFails

ClientNext ==
    RecvMeta \/ RecvChunk \/ RecvEnd \/ RecvDone \/ RecvError \/ RecvFails

Next ==
    \/ \E f \in File : Truncate(f) \/ WriteBlock(f)
    \/ LoseConnection
    \/ StartPull \/ ServerNext \/ ClientNext \/ Interrupt

(* Worker and client go on unless they wait for each other's packets. *)
Fairness == WF_vars(ServerNext) /\ WF_vars(ClientNext)

Spec == Init /\ [][Next]_vars /\ Fairness

-----------------------------------------------------------------------------
(* Properties.                                                             *)

(* The types of the variables; a pull counts no more files than were listed. *)
TypeOK ==
    /\ dist \in [File -> Content] /\ edits \in 0..MaxEdits
    /\ server \in {"idle", "request", "open", "read", "done", "error", "closed"}
    /\ list \in {<<>>} \cup Listings
    /\ index \in 1..Cardinality(File)
    /\ read \in Content
    /\ conn \in {"none", "up", "lost"}
    /\ got \in 0..Len(sent)
    /\ client \in {"idle", "pull", "ok", "failed", "killed"}
    /\ out \in File \cup {NoFile}
    /\ blocks \in Content
    /\ files_done \in 0..Len(list)
    /\ local \in [File -> Content \cup {Absent}]
    /\ pulls \in 0..MaxPulls

(* Packet e is the END of the file whose META is packet m. *)
Ends(m, e) ==
    /\ m < e /\ sent[e].type = "END"
    /\ \A i \in m + 1..e - 1 : sent[i].type = "CHUNK"

(* The student's copy is what the server sent for the file of packet m. *)
Received(m) ==
    \E e \in 1..got : Ends(m, e) /\ local[sent[m].file] = sent[e].sum

MetaPackets == {m \in 1..got : sent[m].type = "META"}

(* When do_pull_mode reports success, every file handle_file_pull listed   *)
(* is in the student's directory as it was sent, and counted.              *)
SuccessIsComplete ==
    client = "ok" =>
        /\ \A i \in 1..Len(list) :
             \E m \in MetaPackets : sent[m].file = list[i] /\ Received(m)
        /\ files_done = Len(list)

(* Wherever do_pull_mode fails, it leaves no file behind it has received   *)
(* in part: each file it began is whole or removed.                        *)
NothingHalfLeft ==
    client \in {"ok", "failed"} =>
        \A m \in MetaPackets : local[sent[m].file] = Absent \/ Received(m)

(* A file counted as received has the size that was announced. *)
CompleteFiles ==
    client = "ok" =>
        \A m \in MetaPackets : Len(local[sent[m].file]) = sent[m].size

(* Every pull ends for the student and frees the server's worker. *)
PullEnds ==
    /\ client = "pull" ~> client # "pull"
    /\ server \notin {"idle", "closed"} ~> server \in {"idle", "closed"}
=============================================================================
