-------------------------- MODULE FilePullProofs ---------------------------
(* The safety properties of FilePull, for any files, contents, numbers of  *)
(* edits and pulls, and any room in the connection.                        *)
EXTENDS FilePull, FiniteSetTheorems, SequenceTheorems, TLAPS

MetaPacket  == [type : {"META"}, file : File, size : Nat]
ChunkPacket == [type : {"CHUNK"}, block : Block]
EndPacket   == [type : {"END"}, sum : Content]
LastPacket  == [type : {"DONE"}, total : Nat] \cup [type : {"ERROR"}]
PacketType  == MetaPacket \cup ChunkPacket \cup EndPacket \cup LastPacket

\* Packets m+1 to k are blocks of a file, and s is those blocks.
Run(q, m, k) == \A i \in m + 1..k : q[i].type = "CHUNK"

Holds(q, s, m, k) ==
    /\ s \in Seq(Block) /\ Len(s) = k - m
    /\ \A i \in 1..Len(s) : s[i] = q[m + i].block

\* The END packets among the first k.
EndPos(q, k) == {e \in 1..k : q[e].type = "END"}

-----------------------------------------------------------------------------
(* The inductive invariant: the server and what it has sent.               *)

ServerTypes ==
    /\ dist \in [File -> Content] /\ edits \in 0..MaxEdits
    /\ server \in {"idle", "request", "open", "read", "done", "error", "closed"}
    /\ list \in {<<>>} \cup Listings
    /\ index \in 1..Cardinality(File)
    /\ read \in Content
    /\ sent \in Seq(PacketType)

\* Where the server is in the list and in the file.
ServerPlace ==
    /\ server \in {"open", "read", "done"} => list \in Listings /\ index \in 1..Len(list)
    /\ server \in {"idle", "request"} => sent = <<>>
    /\ server = "open" => sent = <<>> \/ sent[Len(sent)].type = "END"
    /\ server = "read" =>
         \E m \in 1..Len(sent) :
            /\ sent[m].type = "META" /\ sent[m].file = list[index]
            /\ Run(sent, m, Len(sent)) /\ Holds(sent, read, m, Len(sent))

\* A file begins where the one before has ended; it ends with the blocks sent
\* since, and these are no more than a file has.
FilesInTurn ==
    /\ \A m \in 1..Len(sent) : sent[m].type = "META" => m = 1 \/ sent[m - 1].type = "END"
    /\ \A e \in 1..Len(sent) : sent[e].type = "END" =>
         \E m \in 1..e - 1 :
            sent[m].type = "META" /\ Run(sent, m, e - 1) /\ Holds(sent, sent[e].sum, m, e - 1)
    /\ \A m, k \in 1..Len(sent) :
         sent[m].type = "META" /\ m <= k /\ Run(sent, m, k) => k - m <= MaxBlocks

\* The files begun are those of the list so far, each once.
FilesListed ==
    /\ \A m \in 1..Len(sent) : sent[m].type = "META" =>
         \E i \in 1..Len(list) :
            /\ sent[m].file = list[i] /\ i <= index
            /\ server = "open" => i < index
    /\ \A m, n \in 1..Len(sent) :
         sent[m].type = "META" /\ sent[n].type = "META" /\ sent[m].file = sent[n].file => m = n

Whole(i) ==
    \E m, e \in 1..Len(sent) : sent[m].type = "META" /\ sent[m].file = list[i] /\ Ends(m, e)

\* The files behind the server are whole, and each has one END.
FilesWhole ==
    /\ Cardinality(EndPos(sent, Len(sent))) <= Len(list)
    /\ server \in {"open", "read"} =>
         /\ \A i \in 1..index - 1 : Whole(i)
         /\ Cardinality(EndPos(sent, Len(sent))) = index - 1
    /\ server = "done" =>
         /\ \A i \in 1..Len(list) : Whole(i)
         /\ Cardinality(EndPos(sent, Len(sent))) = Len(list)
    /\ \A k \in 1..Len(sent) : sent[k].type = "DONE" =>
         /\ k = Len(sent) /\ server = "closed"
         /\ \A i \in 1..Len(list) : Whole(i)
         /\ Cardinality(EndPos(sent, Len(sent))) = Len(list)

SInv == ServerTypes /\ ServerPlace /\ FilesInTurn /\ FilesListed /\ FilesWhole

(* The client and what it has received.                                    *)

ClientTypes ==
    /\ conn \in {"none", "up", "lost"}
    /\ got \in 0..Len(sent)
    /\ client \in {"idle", "pull", "ok", "failed", "killed"}
    /\ out \in File \cup {NoFile}
    /\ blocks \in Content
    /\ local \in [File -> Content \cup {Absent}]
    /\ pulls \in 0..MaxPulls

\* The file that is open has what has come of it, and so has the checksum.
OpenPart ==
    client = "pull" /\ out # NoFile =>
        \E m \in 1..got :
            /\ sent[m].type = "META" /\ sent[m].file = out
            /\ Run(sent, m, got) /\ Holds(sent, blocks, m, got) /\ local[out] = blocks

Alive == client \in {"pull", "ok", "failed"}

\* A file that has ended is in the directory; one that has not is open or gone.
Directory ==
    Alive =>
        /\ \A m, e \in 1..got :
             sent[m].type = "META" /\ Ends(m, e) => local[sent[m].file] = sent[e].sum
        /\ \A m \in 1..got : sent[m].type = "META" =>
             \/ \E e \in 1..got : Ends(m, e)
             \/ local[sent[m].file] = Absent
             \/ client = "pull" /\ out = sent[m].file

\* Every END received is a file counted, and success is the DONE packet.
Counted ==
    /\ files_done = Cardinality(EndPos(sent, got))
    /\ client = "ok" => got \in 1..Len(sent) /\ sent[got].type = "DONE"

CInv == ClientTypes /\ OpenPart /\ Directory /\ Counted

IInv == SInv /\ CInv

-----------------------------------------------------------------------------
(* Facts about packets, runs of them and their number.                     *)

LEMMA ContentSeq ==
    ASSUME NEW c
    PROVE  c \in Content <=> c \in Seq(Block) /\ Len(c) <= MaxBlocks
  <1>1. ASSUME c \in Content PROVE c \in Seq(Block) /\ Len(c) <= MaxBlocks
    <2>1. PICK n \in 0..MaxBlocks : c \in [1..n -> Block]
      BY <1>1 DEF Content
    <2>2. n \in Nat /\ n <= MaxBlocks
      BY PullAssumption
    <2>3. c \in Seq(Block) /\ Len(c) = n
      BY <2>1, <2>2
    <2> QED BY <2>2, <2>3
  <1>2. ASSUME c \in Seq(Block), Len(c) <= MaxBlocks PROVE c \in Content
    <2>1. Len(c) \in 0..MaxBlocks /\ c \in [1..Len(c) -> Block]
      BY <1>2, PullAssumption
    <2> QED BY <2>1 DEF Content
  <1> QED BY <1>1, <1>2

LEMMA EmptyContent == <<>> \in Content
  <1>1. <<>> \in Seq(Block) /\ Len(<<>>) = 0
    BY EmptySeq
  <1>2. Len(<<>>) <= MaxBlocks
    BY <1>1, PullAssumption
  <1> QED BY <1>1, <1>2, ContentSeq

LEMMA SendFacts ==
    ASSUME sent \in Seq(PacketType), NEW p \in PacketType, Send(p)
    PROVE  /\ sent' \in Seq(PacketType) /\ Len(sent) \in Nat /\ Len(sent') = Len(sent) + 1
           /\ \A k \in 1..Len(sent) : sent'[k] = sent[k]
           /\ sent'[Len(sent) + 1] = p
           /\ conn = "up"
  BY DEF Send

\* EndPos is finite and grows by one with an END, else not at all.
LEMMA EndPosFacts ==
    ASSUME NEW q, NEW k \in Nat
    PROVE  /\ Cardinality(EndPos(q, k)) \in Nat
           /\ Cardinality(EndPos(q, 0)) = 0
           /\ Cardinality(EndPos(q, k + 1)) =
                IF q[k + 1].type = "END" THEN Cardinality(EndPos(q, k)) + 1
                                            ELSE Cardinality(EndPos(q, k))
  <1>1. IsFiniteSet(1..k)
    BY FS_Interval
  <1>2. IsFiniteSet(EndPos(q, k))
    BY <1>1, FS_Subset DEF EndPos
  <1>3. EndPos(q, 0) = {}
    BY DEF EndPos
  <1>4. CASE q[k + 1].type = "END"
    <2>1. EndPos(q, k + 1) = EndPos(q, k) \cup {k + 1} /\ k + 1 \notin EndPos(q, k)
      BY <1>4 DEF EndPos
    <2>2. Cardinality(EndPos(q, k) \cup {k + 1}) = Cardinality(EndPos(q, k)) + 1
      BY <1>2, <2>1, FS_AddElement
    <2>3. Cardinality(EndPos(q, k)) \in Nat /\ Cardinality({}) = 0
      BY <1>2, FS_EmptySet, FS_CardinalityType
    <2> QED BY <1>3, <1>4, <2>1, <2>2, <2>3
  <1>5. CASE q[k + 1].type # "END"
    <2>1. EndPos(q, k + 1) = EndPos(q, k)
      BY <1>5 DEF EndPos
    <2> QED BY <1>2, <1>3, <1>5, <2>1, FS_EmptySet, FS_CardinalityType
  <1> QED BY <1>4, <1>5

\* Only one file can be under way before packet k + 1.
LEMMA RunUnique ==
    ASSUME NEW q, NEW k \in Nat, NEW m \in 1..k, NEW n \in 1..k,
           q[m].type = "META", q[n].type = "META", Run(q, m, k), Run(q, n, k)
    PROVE  m = n
  <1>1. ~(m < n)
    BY DEF Run
  <1>2. ~(n < m)
    BY DEF Run
  <1> QED BY <1>1, <1>2

LEMMA HoldsUnique ==
    ASSUME NEW q, NEW k \in Nat, NEW m \in 1..k, NEW s, NEW u, Holds(q, s, m, k), Holds(q, u, m, k)
    PROVE  s = u
  <1>1. \A i \in 1..Len(s) : s[i] = u[i]
    BY DEF Holds
  <1> QED BY <1>1, SeqEqual DEF Holds

\* One more block.
LEMMA HoldsNext ==
    ASSUME NEW q, NEW k \in Nat, NEW m \in 1..k, NEW s, Holds(q, s, m, k),
           NEW b \in Block, q[k + 1].block = b
    PROVE  Holds(q, Append(s, b), m, k + 1)
  <1>1. s \in Seq(Block) /\ Len(s) = k - m /\ Len(s) \in Nat
    BY DEF Holds
  <1>2. Append(s, b) \in Seq(Block) /\ Len(Append(s, b)) = Len(s) + 1
    BY <1>1
  <1>3. \A i \in 1..Len(s) + 1 : Append(s, b)[i] = IF i <= Len(s) THEN s[i] ELSE b
    BY <1>1
  <1>4. m + (Len(s) + 1) = k + 1
    BY <1>1
  <1>5. ASSUME NEW i \in 1..Len(s) + 1 PROVE Append(s, b)[i] = q[m + i].block
    <2>1. CASE i <= Len(s)
      BY <1>1, <1>3, <2>1 DEF Holds
    <2>2. CASE i = Len(s) + 1
      BY <1>1, <1>3, <1>4, <2>2
    <2> QED BY <1>1, <2>1, <2>2
  <1> QED BY <1>1, <1>2, <1>5 DEF Holds

-----------------------------------------------------------------------------
(* The server's part is kept.                                              *)

\* What the connection and the client do leaves it alone.
LEMMA ServerFrame ==
    ASSUME SInv, UNCHANGED <<dist, edits, serverVars, sent>>
    PROVE  SInv'
  BY DEF SInv, ServerTypes, ServerPlace, FilesInTurn, FilesListed, FilesWhole, Whole, Ends,
         Run, Holds, EndPos, serverVars

\* A step to an end of the worker that sends nothing.
LEMMA ServerStops ==
    ASSUME SInv, server' \in {"error", "closed"}, server \in {"request", "open", "read", "error", "done"},
           UNCHANGED <<dist, edits, list, index, read, sent>>
    PROVE  SInv'
  <1>1. ServerTypes'
    BY DEF SInv, ServerTypes
  <1>2. ServerPlace' /\ FilesInTurn' /\ FilesListed'
    BY DEF SInv, ServerPlace, FilesInTurn, FilesListed, Ends, Run, Holds
  <1>3. FilesWhole'
    BY DEF SInv, FilesWhole, Whole, Ends, EndPos
  <1> QED BY <1>1, <1>2, <1>3 DEF SInv

LEMMA EditKeeps ==
    ASSUME SInv, NEW f \in File, Truncate(f) \/ WriteBlock(f)
    PROVE  SInv'
  <1>1. edits' \in 0..MaxEdits /\ dist[f] \in Content /\ edits \in Nat
    BY PullAssumption DEF SInv, ServerTypes, Truncate, WriteBlock
  <1>2. dist'[f] \in Content
    <2>1. CASE Truncate(f)
      <3>1. <<>> \in Content
        BY EmptyContent
      <3> QED BY <2>1, <3>1 DEF Truncate, SInv, ServerTypes
    <2>2. CASE WriteBlock(f)
      <3>1. edits \in Block /\ dist'[f] = Append(dist[f], edits) /\ Len(dist[f]) < MaxBlocks
        BY <2>2, PullAssumption DEF WriteBlock, Block, SInv, ServerTypes
      <3>2. dist[f] \in Seq(Block)
        BY <1>1, ContentSeq
      <3>3. Append(dist[f], edits) \in Seq(Block) /\ Len(Append(dist[f], edits)) <= MaxBlocks
        BY <3>1, <3>2, PullAssumption
      <3> QED BY <3>1, <3>3, ContentSeq
    <2> QED BY <2>1, <2>2
  <1>3. dist' \in [File -> Content]
    BY <1>2 DEF Truncate, WriteBlock, SInv, ServerTypes
  <1>4. ServerTypes'
    BY <1>1, <1>3 DEF Truncate, WriteBlock, serverVars, SInv, ServerTypes
  <1>5. UNCHANGED <<serverVars, sent>>
    BY DEF Truncate, WriteBlock
  <1> QED BY <1>4, <1>5
      DEF SInv, ServerPlace, FilesInTurn, FilesListed, FilesWhole, Whole, Ends,
          Run, Holds, EndPos, serverVars

\* A list that readdir may return is not empty and not longer than the folder.
LEMMA ListingFacts ==
    ASSUME NEW l \in Listings
    PROVE  /\ Len(l) \in Nat /\ 1 <= Len(l) /\ Len(l) <= Cardinality(File)
           /\ \A i \in 1..Len(l) : l[i] \in File
           /\ \A i, j \in 1..Len(l) : l[i] = l[j] => i = j
  <1> DEFINE n == IF Cardinality(File) < MaxDistFiles THEN Cardinality(File) ELSE MaxDistFiles
  <1>1. Cardinality(File) \in Nat /\ Cardinality(File) # 0
    BY PullAssumption, FS_CardinalityType, FS_EmptySet
  <1>2. n \in Nat /\ 1 <= n /\ n <= Cardinality(File)
    BY <1>1, PullAssumption
  <1>3. l \in [1..n -> File] /\ \A i, j \in 1..n : l[i] = l[j] => i = j
    BY DEF Listings
  <1>4. Len(l) = n
    BY <1>2, <1>3
  <1> QED BY <1>2, <1>3, <1>4

LEMMA ListKeeps ==
    ASSUME SInv, ListFiles
    PROVE  SInv'
  <1> USE DEF SInv, ListFiles
  <1>1. sent = <<>> /\ list' \in Listings /\ Len(sent) = 0
    BY DEF ServerPlace
  <1>2. Len(list') \in Nat /\ 1 <= Len(list') /\ Len(list') <= Cardinality(File)
    BY <1>1, ListingFacts
  <1>3. Cardinality(File) \in Nat
    BY PullAssumption, FS_CardinalityType
  <1>4. ServerTypes'
    BY <1>1, <1>2, <1>3 DEF ServerTypes, distVars
  <1>5. ServerPlace' /\ FilesInTurn' /\ FilesListed'
    BY <1>1, <1>2 DEF ServerPlace, FilesInTurn, FilesListed
  <1>6. Cardinality(EndPos(sent', Len(sent'))) = 0
    BY EndPosFacts, <1>1
  <1>7. FilesWhole'
    BY <1>1, <1>2, <1>6 DEF FilesWhole
  <1> QED BY <1>4, <1>5, <1>7

LEMMA StartKeepsServer ==
    ASSUME SInv, StartPull
    PROVE  SInv'
  <1> USE DEF SInv, StartPull
  <1>1. sent' = <<>> /\ Len(sent') = 0 /\ sent' \in Seq(PacketType)
    BY EmptySeq
  <1>2. ServerTypes'
    BY <1>1 DEF ServerTypes, distVars
  <1>3. ServerPlace' /\ FilesInTurn' /\ FilesListed'
    BY <1>1 DEF ServerPlace, FilesInTurn, FilesListed
  <1>4. EndPos(sent', Len(sent')) = {}
    BY <1>1 DEF EndPos
  <1>5. Len(list') \in Nat /\ Cardinality(EndPos(sent', Len(sent'))) = 0
    <2>1. list \in Listings => Len(list) \in Nat
      BY ListingFacts
    <2>2. Len(<<>>) \in Nat /\ Cardinality({}) = 0
      BY FS_EmptySet
    <2> QED BY <1>4, <2>1, <2>2 DEF ServerTypes
  <1>6. FilesWhole'
    BY <1>1, <1>4, <1>5 DEF FilesWhole
  <1> QED BY <1>2, <1>3, <1>6

\* A packet more leaves what is said of the packets before it.
LEMMA PrefixKeeps ==
    ASSUME sent \in Seq(PacketType), NEW p \in PacketType, Send(p)
    PROVE  /\ \A m \in Nat, k \in 0..Len(sent) : Run(sent', m, k) <=> Run(sent, m, k)
           /\ \A s : \A m \in Nat, k \in 0..Len(sent) : Holds(sent', s, m, k) <=> Holds(sent, s, m, k)
           /\ \A k \in 0..Len(sent) : EndPos(sent', k) = EndPos(sent, k)
           /\ \A m \in Nat, e \in 1..Len(sent) : Ends(m, e)' <=> Ends(m, e)
  <1> DEFINE L == Len(sent)
  <1>1. L \in Nat /\ \A k \in 1..L : sent'[k] = sent[k]
    BY SendFacts
  <1> HIDE DEF L
  <1>2. ASSUME NEW m \in Nat, NEW k \in 0..L PROVE Run(sent', m, k) <=> Run(sent, m, k)
    BY <1>1 DEF Run
  <1>3. ASSUME NEW s, NEW m \in Nat, NEW k \in 0..L PROVE Holds(sent', s, m, k) <=> Holds(sent, s, m, k)
    <2>1. ASSUME s \in Seq(Block), Len(s) = k - m
          PROVE  Len(s) \in Nat /\ \A i \in 1..Len(s) : m + i \in 1..L
      BY <1>1, <2>1
    <2> QED BY <1>1, <2>1 DEF Holds
  <1>4. ASSUME NEW k \in 0..L PROVE EndPos(sent', k) = EndPos(sent, k)
    BY <1>1 DEF EndPos
  <1>5. ASSUME NEW m \in Nat, NEW e \in 1..L PROVE Ends(m, e)' <=> Ends(m, e)
    BY <1>1 DEF Ends
  <1> QED BY <1>2, <1>3, <1>4, <1>5 DEF L

\* Files stay in turn if each packet is sent in its place.
LEMMA TurnKeeps ==
    ASSUME SInv, NEW p \in PacketType, Send(p),
           p.type = "META" => sent = <<>> \/ sent[Len(sent)].type = "END",
           p.type = "CHUNK" => \E m \in 1..Len(sent) :
                sent[m].type = "META" /\ Run(sent, m, Len(sent)) /\ Len(sent) - m < MaxBlocks,
           p.type = "END" => \E m \in 1..Len(sent) :
                sent[m].type = "META" /\ Run(sent, m, Len(sent)) /\ Holds(sent, p.sum, m, Len(sent))
    PROVE  FilesInTurn'
  <1>0. PICK L \in Nat : L = Len(sent)
    BY LenProperties DEF SInv, ServerTypes
  <1>1. /\ L \in Nat /\ Len(sent') = L + 1 /\ sent'[L + 1] = p
        /\ \A k \in 1..L : sent'[k] = sent[k]
        /\ sent \in Seq(PacketType) /\ sent' \in Seq(PacketType)
    BY <1>0, SendFacts DEF SInv, ServerTypes
  <1>2. /\ \A m \in Nat, k \in 0..L : Run(sent', m, k) <=> Run(sent, m, k)
        /\ \A s : \A m \in Nat, k \in 0..L : Holds(sent', s, m, k) <=> Holds(sent, s, m, k)
    BY <1>0, <1>1, PrefixKeeps
  <1>3. FilesInTurn
    BY DEF SInv
  <1>4. ASSUME NEW m \in 1..L + 1, sent'[m].type = "META"
        PROVE  m = 1 \/ sent'[m - 1].type = "END"
    <2>1. CASE m <= L
      BY <1>1, <1>3, <1>4, <2>1, <1>0 DEF FilesInTurn
    <2>2. CASE m = L + 1
      <3>1. p.type = "META"
        BY <1>1, <1>4, <2>2
      <3>2. CASE sent = <<>>
        BY <2>2, <3>2, <1>0
      <3>3. CASE sent # <<>> /\ sent[Len(sent)].type = "END"
        <4>1. L # 0
          BY <1>1, <3>3, <1>0
        <4> QED BY <1>1, <2>2, <3>3, <4>1, <1>0
      <3> QED BY <3>1, <3>2, <3>3
    <2> QED BY <1>1, <2>1, <2>2
  <1>5. ASSUME NEW e \in 1..L + 1, sent'[e].type = "END"
        PROVE  (\E m \in 1..e - 1 : sent[m].type = "META" /\ Run(sent, m, e - 1)
                                      /\ Holds(sent, sent[e].sum, m, e - 1))'
    <2>1. CASE e <= L
      <3>1. PICK m \in 1..e - 1 :
              sent[m].type = "META" /\ Run(sent, m, e - 1) /\ Holds(sent, sent[e].sum, m, e - 1)
        BY <1>1, <1>3, <1>5, <2>1, <1>0 DEF FilesInTurn
      <3>2. m \in Nat /\ m \in 1..L /\ e - 1 \in 0..L /\ e \in 1..L
        BY <1>1, <2>1
      <3>3. Run(sent', m, e - 1) /\ Holds(sent', sent'[e].sum, m, e - 1)
        BY <1>1, <1>2, <3>1, <3>2
      <3> QED BY <1>1, <3>1, <3>2, <3>3
    <2>2. CASE e = L + 1
      <3>1. PICK m \in 1..L : sent[m].type = "META" /\ Run(sent, m, L) /\ Holds(sent, p.sum, m, L)
        BY <1>1, <1>5, <2>2, <1>0
      <3>2. m \in Nat /\ L \in 0..L /\ e - 1 = L
        BY <1>1, <2>2
      <3>3. Run(sent', m, L) /\ Holds(sent', p.sum, m, L)
        BY <1>1, <1>2, <3>1, <3>2
      <3>4. Run(sent', m, e - 1) /\ Holds(sent', sent'[e].sum, m, e - 1)
        BY <1>1, <2>2, <3>3, <3>2
      <3> QED BY <1>1, <2>2, <3>1, <3>2, <3>4
    <2> QED BY <1>1, <2>1, <2>2
  <1>6. ASSUME NEW m \in 1..L + 1, NEW k \in 1..L + 1,
               sent'[m].type = "META", m <= k, Run(sent', m, k)
        PROVE  k - m <= MaxBlocks
    <2>1. CASE k <= L
      <3>1. m \in 1..L /\ k \in 1..L /\ m \in Nat /\ k \in 0..L
        BY <1>1, <1>6, <2>1
      <3>2. sent[m].type = "META" /\ Run(sent, m, k)
        BY <1>1, <1>2, <1>6, <3>1
      <3> QED BY <1>3, <1>6, <3>1, <3>2, <1>0 DEF FilesInTurn
    <2>2. CASE k = L + 1 /\ m = L + 1
      BY <1>1, <2>2, PullAssumption
    <2>3. CASE k = L + 1 /\ m # L + 1
      <3>1. m \in 1..L /\ m \in Nat /\ L \in 0..L
        BY <1>1, <2>3
      <3>2. p.type = "CHUNK" /\ sent[m].type = "META"
        BY <1>1, <1>6, <2>3, <3>1 DEF Run
      <3>3. Run(sent', m, L)
        BY <1>1, <1>6, <2>3, <3>1 DEF Run
      <3>4. Run(sent, m, L)
        BY <1>2, <3>1, <3>3
      <3>5. PICK n \in 1..L : sent[n].type = "META" /\ Run(sent, n, L) /\ L - n < MaxBlocks
        BY <3>2, <1>0
      <3>6. m = n
        BY <1>1, <3>1, <3>2, <3>4, <3>5, RunUnique
      <3> QED BY <1>1, <2>3, <3>5, <3>6, PullAssumption
    <2> QED BY <1>1, <2>1, <2>2, <2>3
  <1> QED BY <1>0, <1>1, <1>4, <1>5, <1>6 DEF FilesInTurn

\* What a packet more does to the number of ENDs and to the files that are whole.
LEMMA WholeKeeps ==
    ASSUME SInv, NEW p \in PacketType, Send(p), list' = list
    PROVE  /\ Len(sent) \in Nat /\ Len(sent') = Len(sent) + 1
           /\ Cardinality(EndPos(sent, Len(sent))) \in Nat
           /\ Cardinality(EndPos(sent', Len(sent'))) =
                IF p.type = "END" THEN Cardinality(EndPos(sent, Len(sent))) + 1
                                  ELSE Cardinality(EndPos(sent, Len(sent)))
           /\ \A i : Whole(i) => Whole(i)'
  <1>1. PICK L \in Nat : L = Len(sent)
    BY LenProperties DEF SInv, ServerTypes
  <1>2. /\ sent \in Seq(PacketType) /\ Len(sent') = L + 1 /\ sent'[L + 1] = p
        /\ \A k \in 1..L : sent'[k] = sent[k]
    BY <1>1, SendFacts DEF SInv, ServerTypes
  <1>3. EndPos(sent', L) = EndPos(sent, L)
    BY <1>1, <1>2, PrefixKeeps
  <1>4. /\ Cardinality(EndPos(sent, L)) \in Nat
        /\ Cardinality(EndPos(sent', L + 1)) =
             IF p.type = "END" THEN Cardinality(EndPos(sent, L)) + 1
                               ELSE Cardinality(EndPos(sent, L))
    BY <1>2, <1>3, EndPosFacts
  <1>5. ASSUME NEW i, Whole(i) PROVE Whole(i)'
    <2>1. PICK m \in 1..L, e \in 1..L :
             sent[m].type = "META" /\ sent[m].file = list[i] /\ Ends(m, e)
      BY <1>1, <1>5 DEF Whole
    <2>2. Ends(m, e)'
      BY <1>2, <2>1 DEF Ends
    <2>3. m \in 1..L + 1 /\ e \in 1..L + 1
      OBVIOUS
    <2> QED BY <1>2, <2>1, <2>2, <2>3 DEF Whole
  <1> QED BY <1>1, <1>2, <1>4, <1>5

LEMMA OpenKeeps ==
    ASSUME SInv, OpenFile
    PROVE  SInv'
  <1> DEFINE f == list[index]
             p == Meta(list[index], Len(dist[list[index]]))
  <1>1. PICK L \in Nat : L = Len(sent)
    BY LenProperties DEF SInv, ServerTypes
  <1>2. /\ list \in Listings /\ index \in 1..Len(list) /\ Len(list) \in Nat /\ index \in Nat
        /\ \A i, j \in 1..Len(list) : list[i] = list[j] => i = j
        /\ f \in File /\ dist[f] \in Content
        /\ server = "open" /\ server' = "read" /\ read' = <<>>
        /\ UNCHANGED <<list, index, dist, edits>>
    BY ListingFacts DEF SInv, ServerTypes, ServerPlace, OpenFile, distVars
  <1>3. p \in PacketType /\ p.type = "META" /\ p.file = f /\ Send(p)
    <2>1. Len(dist[f]) \in Nat
      BY <1>2, ContentSeq, LenProperties
    <2> QED BY <1>2, <2>1 DEF PacketType, MetaPacket, Meta, OpenFile
  <1> HIDE DEF p
  <1>4. /\ Len(sent') = L + 1 /\ sent'[L + 1] = p /\ sent' \in Seq(PacketType)
        /\ \A k \in 1..L : sent'[k] = sent[k]
    BY <1>1, <1>3, SendFacts DEF SInv, ServerTypes
  <1>5. ServerTypes'
    BY <1>2, <1>4, EmptyContent DEF SInv, ServerTypes
  <1>6. ServerPlace'
    <2>1. Run(sent', L + 1, L + 1) /\ Holds(sent', <<>>, L + 1, L + 1)
      BY EmptySeq DEF Run, Holds
    <2> QED BY <1>2, <1>3, <1>4, <2>1 DEF ServerPlace
  <1>7. FilesInTurn'
    BY <1>2, <1>3, TurnKeeps DEF SInv, ServerPlace
  <1>8. FilesListed'
    <2>1. \A m \in 1..L : sent[m].type = "META" =>
            \E i \in 1..Len(list) : sent[m].file = list[i] /\ i < index
      BY <1>1, <1>2 DEF SInv, FilesListed
    <2>2. \A m \in 1..L : sent[m].type = "META" => sent[m].file # f
      BY <1>2, <2>1
    <2>3. ASSUME NEW m \in 1..L + 1, sent'[m].type = "META"
          PROVE  \E i \in 1..Len(list) : sent'[m].file = list[i] /\ i <= index
      BY <1>2, <1>3, <1>4, <2>1, <2>3
    <2>4. ASSUME NEW m \in 1..L + 1, NEW n \in 1..L + 1, sent'[m].type = "META",
                 sent'[n].type = "META", sent'[m].file = sent'[n].file
          PROVE  m = n
      <3>1. \A k \in 1..L + 1 : k \in 1..L \/ k = L + 1
        OBVIOUS
      <3>2. CASE m \in 1..L /\ n \in 1..L
        BY <1>1, <1>4, <2>4, <3>2 DEF SInv, FilesListed
      <3> QED BY <1>3, <1>4, <2>2, <2>4, <3>1, <3>2
    <2> QED BY <1>2, <1>4, <2>3, <2>4 DEF FilesListed
  <1>9. FilesWhole'
    <2>1. /\ Cardinality(EndPos(sent', Len(sent'))) = Cardinality(EndPos(sent, Len(sent)))
          /\ \A i : Whole(i) => Whole(i)'
      BY <1>2, <1>3, WholeKeeps
    <2>2. \A k \in 1..L + 1 : sent'[k].type # "DONE"
      BY <1>1, <1>2, <1>3, <1>4 DEF SInv, FilesWhole
    <2> QED BY <1>2, <1>4, <2>1, <2>2 DEF SInv, FilesWhole
  <1> QED BY <1>5, <1>6, <1>7, <1>8, <1>9 DEF SInv

LEMMA ListedKeeps ==
    ASSUME SInv, NEW p \in PacketType, Send(p), p.type # "META", list' = list,
           index \in Nat, index' \in Nat, index <= index',
           server' = "open" => index < index'
    PROVE  FilesListed'
  <1>1. PICK L \in Nat : L = Len(sent)
    BY LenProperties DEF SInv, ServerTypes
  <1>2. /\ Len(sent') = L + 1 /\ sent'[L + 1] = p
        /\ \A k \in 1..L : sent'[k] = sent[k]
    BY <1>1, SendFacts DEF SInv, ServerTypes
  <1>3. \A m \in 1..L + 1 : sent'[m].type = "META" => m \in 1..L /\ sent'[m] = sent[m]
    BY <1>2
  <1>4. Len(list) \in Nat
    <2>1. list \in Listings => Len(list) \in Nat
      BY ListingFacts
    <2> QED BY <2>1 DEF SInv, ServerTypes
  <1>5. ASSUME NEW m \in 1..L + 1, sent'[m].type = "META"
        PROVE  \E i \in 1..Len(list) : /\ sent'[m].file = list[i] /\ i <= index'
                                       /\ server' = "open" => i < index'
    <2>1. PICK i \in 1..Len(list) : sent[m].file = list[i] /\ i <= index
      BY <1>1, <1>3, <1>5 DEF SInv, FilesListed
    <2>2. i \in Nat
      BY <1>4
    <2> QED BY <1>3, <1>5, <2>1, <2>2
  <1>6. ASSUME NEW m \in 1..L + 1, NEW n \in 1..L + 1, sent'[m].type = "META",
               sent'[n].type = "META", sent'[m].file = sent'[n].file
        PROVE  m = n
    BY <1>1, <1>3, <1>6 DEF SInv, FilesListed
  <1> QED BY <1>2, <1>5, <1>6 DEF FilesListed

LEMMA ReadKeeps ==
    ASSUME SInv, ReadChunk
    PROVE  SInv'
  <1> DEFINE b == dist[list[index]][Len(read) + 1]
             p == Chunk(dist[list[index]][Len(read) + 1])
  <1>1. PICK L \in Nat : L = Len(sent)
    BY LenProperties DEF SInv, ServerTypes
  <1>2. /\ list \in Listings /\ index \in 1..Len(list) /\ Len(list) \in Nat /\ index \in Nat
        /\ list[index] \in File /\ dist[list[index]] \in Content
        /\ server = "read" /\ server' = "read" /\ read' = Append(read, b)
        /\ UNCHANGED <<list, index, dist, edits>>
    BY ListingFacts DEF SInv, ServerTypes, ServerPlace, ReadChunk, distVars
  <1>3. /\ read \in Seq(Block) /\ Len(read) \in Nat /\ Len(read) < MaxBlocks /\ b \in Block
        /\ dist[list[index]] \in Seq(Block)
    <2>1. dist[list[index]] \in Seq(Block) /\ Len(dist[list[index]]) <= MaxBlocks
      BY <1>2, ContentSeq
    <2>2. read \in Seq(Block) /\ Len(read) \in Nat /\ Len(read) < Len(dist[list[index]])
      BY ContentSeq, LenProperties DEF SInv, ServerTypes, ReadChunk
    <2>3. Len(dist[list[index]]) \in Nat
      BY <2>1, LenProperties
    <2>4. Len(read) + 1 \in 1..Len(dist[list[index]])
      BY <2>2, <2>3
    <2>5. b \in Block
      BY <2>1, <2>4, ElementOfSeq
    <2> QED BY <2>1, <2>2, <2>3, <2>5, PullAssumption
  <1> HIDE DEF b
  <1>4. p \in PacketType /\ p.type = "CHUNK" /\ p.block = b /\ Send(p)
    BY <1>3 DEF PacketType, ChunkPacket, Chunk, ReadChunk, b
  <1> HIDE DEF p
  <1>5. /\ Len(sent') = L + 1 /\ sent'[L + 1] = p /\ sent' \in Seq(PacketType)
        /\ \A k \in 1..L : sent'[k] = sent[k]
    BY <1>1, <1>4, SendFacts DEF SInv, ServerTypes
  <1>6. PICK m \in 1..L : /\ sent[m].type = "META" /\ sent[m].file = list[index]
                          /\ Run(sent, m, L) /\ Holds(sent, read, m, L)
    BY <1>1, <1>2 DEF SInv, ServerPlace
  <1>7. ServerTypes'
    <2>1. Append(read, b) \in Seq(Block) /\ Len(Append(read, b)) <= MaxBlocks
      BY <1>3, PullAssumption
    <2>2. read' \in Content
      BY <1>2, <2>1, ContentSeq
    <2> QED BY <1>2, <1>5, <2>2 DEF SInv, ServerTypes
  <1>8. ServerPlace'
    <2>1. Run(sent', m, L) /\ Holds(sent', read, m, L)
      <3>1. m \in Nat /\ L \in 0..Len(sent)
        BY <1>1, <1>6
      <3> QED BY <1>4, <1>6, <3>1, PrefixKeeps DEF SInv, ServerTypes
    <2>2. Run(sent', m, L + 1)
      BY <1>4, <1>5, <2>1 DEF Run
    <2>3. Holds(sent', Append(read, b), m, L + 1)
      BY <1>3, <1>4, <1>5, <2>1, HoldsNext
    <2>4. m \in 1..L + 1 /\ sent'[m] = sent[m]
      BY <1>5
    <2> QED BY <1>2, <1>5, <1>6, <2>2, <2>3, <2>4 DEF ServerPlace
  <1>9. FilesInTurn'
    <2>1. L - m < MaxBlocks
      BY <1>3, <1>6 DEF Holds
    <2> QED BY <1>1, <1>4, <1>6, <2>1, TurnKeeps
  <1>10. FilesListed'
    BY <1>2, <1>4, ListedKeeps
  <1>11. FilesWhole'
    <2>1. /\ Cardinality(EndPos(sent', Len(sent'))) = Cardinality(EndPos(sent, Len(sent)))
          /\ \A i : Whole(i) => Whole(i)'
      BY <1>2, <1>4, WholeKeeps
    <2>2. \A k \in 1..L : sent[k].type # "DONE"
      BY <1>1, <1>2 DEF SInv, FilesWhole
    <2>3. \A k \in 1..L + 1 : sent'[k].type # "DONE"
      BY <1>4, <1>5, <2>2
    <2> QED BY <1>2, <1>5, <2>1, <2>3 DEF SInv, FilesWhole
  <1> QED BY <1>7, <1>8, <1>9, <1>10, <1>11 DEF SInv

LEMMA EndKeeps ==
    ASSUME SInv, EndFile
    PROVE  SInv'
  <1> DEFINE p == End(read)
  <1>1. PICK L \in Nat : L = Len(sent)
    BY LenProperties DEF SInv, ServerTypes
  <1>2. /\ list \in Listings /\ index \in 1..Len(list) /\ Len(list) \in Nat /\ index \in Nat
        /\ Len(list) <= Cardinality(File) /\ Cardinality(File) \in Nat
        /\ server = "read" /\ UNCHANGED <<list, read, dist, edits>>
        /\ \/ server' = "done" /\ index' = index /\ index = Len(list)
           \/ server' = "open" /\ index' = index + 1 /\ index < Len(list)
    <2>1. list \in Listings /\ index \in 1..Len(list)
      BY DEF SInv, ServerPlace, EndFile
    <2>2. Cardinality(File) \in Nat
      BY PullAssumption, FS_CardinalityType
    <2>3. Len(list) \in Nat /\ index \in Nat
      BY <2>1, ListingFacts
    <2> QED BY <2>1, <2>2, <2>3, ListingFacts DEF EndFile, distVars
  <1>3. p \in PacketType /\ p.type = "END" /\ p.sum = read /\ Send(p)
    BY DEF PacketType, EndPacket, End, EndFile, SInv, ServerTypes
  <1> HIDE DEF p
  <1>4. /\ Len(sent') = L + 1 /\ sent'[L + 1] = p /\ sent' \in Seq(PacketType)
        /\ \A k \in 1..L : sent'[k] = sent[k]
    BY <1>1, <1>3, SendFacts DEF SInv, ServerTypes
  <1>5. PICK m \in 1..L : /\ sent[m].type = "META" /\ sent[m].file = list[index]
                          /\ Run(sent, m, L) /\ Holds(sent, read, m, L)
    BY <1>1, <1>2 DEF SInv, ServerPlace
  <1>6. ServerTypes'
    BY <1>2, <1>4 DEF SInv, ServerTypes
  <1>7. ServerPlace'
    BY <1>2, <1>3, <1>4 DEF ServerPlace
  <1>8. FilesInTurn'
    BY <1>1, <1>3, <1>5, TurnKeeps
  <1>9. FilesListed'
    BY <1>2, <1>3, ListedKeeps
  <1>10. FilesWhole'
    <2>1. /\ Cardinality(EndPos(sent', Len(sent'))) = Cardinality(EndPos(sent, Len(sent))) + 1
          /\ Cardinality(EndPos(sent, Len(sent))) = index - 1
          /\ \A i : Whole(i) => Whole(i)'
      BY <1>2, <1>3, WholeKeeps DEF SInv, FilesWhole
    <2>2. PICK c \in 1..Len(list) : c = index
      BY <1>2
    <2>3. Whole(c)'
      <3>1. m \in 1..L + 1 /\ L + 1 \in 1..L + 1 /\ sent'[m] = sent[m]
        BY <1>4
      <3>2. Ends(m, L + 1)'
        BY <1>3, <1>4, <1>5 DEF Ends, Run
      <3>3. (sent[m].type = "META" /\ sent[m].file = list[c])'
        BY <1>2, <1>5, <2>2, <3>1
      <3> QED BY <1>4, <3>1, <3>2, <3>3 DEF Whole
    <2>4. \A i \in 1..c : Whole(i)'
      <3>1. \A i \in 1..c - 1 : Whole(i)
        BY <1>2, <2>2 DEF SInv, FilesWhole
      <3>2. \A i \in 1..c : i \in 1..c - 1 \/ i = c
        BY <1>2
      <3> QED BY <2>1, <2>3, <3>1, <3>2
    <2>5. \A k \in 1..L + 1 : sent'[k].type # "DONE"
      BY <1>1, <1>2, <1>3, <1>4 DEF SInv, FilesWhole
    <2> QED BY <1>2, <1>4, <2>1, <2>2, <2>4, <2>5 DEF FilesWhole
  <1> QED BY <1>6, <1>7, <1>8, <1>9, <1>10 DEF SInv

\* DONE or the error packet: nothing comes after it.
LEMMA LastKeeps ==
    ASSUME SInv, SendDone \/ SendError
    PROVE  SInv'
  <1>1. PICK L \in Nat : L = Len(sent)
    BY LenProperties DEF SInv, ServerTypes
  <1>2. /\ server \in {"done", "error"} /\ server' = "closed"
        /\ UNCHANGED <<list, index, read, dist, edits>>
        /\ index \in Nat /\ Len(list) \in Nat
    <2>1. list \in Listings => Len(list) \in Nat
      BY ListingFacts
    <2> QED BY <2>1 DEF SInv, ServerTypes, SendDone, SendError, distVars
  <1>3. PICK p \in LastPacket : /\ Send(p) /\ p.type \in {"DONE", "ERROR"}
                                /\ p.type = "DONE" => server = "done"
    <2>1. CASE SendDone
      BY <1>2, <2>1 DEF SendDone, Done, LastPacket
    <2>2. CASE SendError
      BY <2>2 DEF SendError, Error, LastPacket
    <2> QED BY <2>1, <2>2
  <1>4. p \in PacketType
    BY DEF PacketType
  <1>5. /\ Len(sent') = L + 1 /\ sent'[L + 1] = p /\ sent' \in Seq(PacketType)
        /\ \A k \in 1..L : sent'[k] = sent[k]
    BY <1>1, <1>3, <1>4, SendFacts DEF SInv, ServerTypes
  <1>6. ServerTypes'
    BY <1>2, <1>5 DEF SInv, ServerTypes
  <1>7. ServerPlace'
    BY <1>2 DEF ServerPlace
  <1>8. FilesInTurn'
    BY <1>3, <1>4, TurnKeeps
  <1>9. FilesListed'
    BY <1>2, <1>3, <1>4, ListedKeeps
  <1>10. FilesWhole'
    <2>1. /\ Cardinality(EndPos(sent', Len(sent'))) = Cardinality(EndPos(sent, Len(sent)))
          /\ \A i : Whole(i) => Whole(i)'
      BY <1>2, <1>3, <1>4, WholeKeeps
    <2>2. \A k \in 1..L : sent[k].type # "DONE"
      BY <1>1, <1>2 DEF SInv, FilesWhole
    <2>3. \A k \in 1..L + 1 : sent'[k].type = "DONE" => k = L + 1 /\ server = "done"
      BY <1>3, <1>5, <2>2
    <2>4. server = "done" => /\ \A i \in 1..Len(list) : Whole(i)'
                             /\ Cardinality(EndPos(sent, Len(sent))) = Len(list)
      BY <2>1 DEF SInv, FilesWhole
    <2> QED BY <1>2, <1>5, <2>1, <2>3, <2>4 DEF SInv, FilesWhole
  <1> QED BY <1>6, <1>7, <1>8, <1>9, <1>10 DEF SInv

LEMMA ServerKeeps ==
    ASSUME SInv, ServerNext
    PROVE  SInv'
  <1>1. CASE DropRequest \/ NothingToList \/ OpenFails \/ NoBuffer \/ SendFails
    BY <1>1, ServerStops
       DEF DropRequest, NothingToList, OpenFails, NoBuffer, SendFails, distVars
  <1>2. CASE ListFiles
    BY <1>2, ListKeeps
  <1>3. CASE OpenFile
    BY <1>3, OpenKeeps
  <1>4. CASE ReadChunk
    BY <1>4, ReadKeeps
  <1>5. CASE EndFile
    BY <1>5, EndKeeps
  <1>6. CASE SendDone \/ SendError
    BY <1>6, LastKeeps
  <1> QED BY <1>1, <1>2, <1>3, <1>4, <1>5, <1>6 DEF ServerNext

-----------------------------------------------------------------------------
(* The client's part is kept.                                              *)

\* What the server and the connection do leaves it alone: the packets received
\* stay.
LEMMA ClientFrame ==
    ASSUME CInv, UNCHANGED <<got, clientVars>>, conn' \in {"none", "up", "lost"},
           Len(sent) \in Nat, Len(sent') \in Nat, Len(sent) <= Len(sent'),
           \A k \in 1..Len(sent) : sent'[k] = sent[k]
    PROVE  CInv'
  <1> USE DEF CInv, ClientTypes, clientVars
  <1>1. got \in Nat /\ got <= Len(sent) /\ got' = got
        /\ \A k \in 1..got : sent'[k] = sent[k]
    OBVIOUS
  <1>2. ClientTypes'
    BY <1>1
  <1>3. OpenPart'
    <2>1. ASSUME client = "pull", out # NoFile
          PROVE  (\E m \in 1..got :
                     /\ sent[m].type = "META" /\ sent[m].file = out
                     /\ Run(sent, m, got) /\ Holds(sent, blocks, m, got)
                     /\ local[out] = blocks)'
      <3>1. PICK m \in 1..got :
               /\ sent[m].type = "META" /\ sent[m].file = out
               /\ Run(sent, m, got) /\ Holds(sent, blocks, m, got) /\ local[out] = blocks
        BY <2>1 DEF OpenPart
      <3>2. Run(sent', m, got)
        BY <1>1, <3>1 DEF Run
      <3>3. Holds(sent', blocks, m, got)
        <4>1. Len(blocks) = got - m /\ Len(blocks) \in Nat
          BY <3>1, LenProperties DEF Holds
        <4>2. \A i \in 1..Len(blocks) : m + i \in 1..got
          BY <1>1, <4>1
        <4> QED BY <1>1, <3>1, <4>2 DEF Holds
      <3> QED BY <1>1, <3>1, <3>2, <3>3
    <2> QED BY <2>1 DEF OpenPart
  <1>4. \A m \in 1..got, e \in 1..got : Ends(m, e)' <=> Ends(m, e)
    BY <1>1 DEF Ends
  <1>5. Directory'
    BY <1>1, <1>4 DEF Directory, Alive
  <1>6. Counted'
    <2>1. EndPos(sent', got) = EndPos(sent, got)
      BY <1>1 DEF EndPos
    <2> QED BY <1>1, <2>1 DEF Counted
  <1> QED BY <1>2, <1>3, <1>5, <1>6

LEMMA ServerLeavesClient ==
    ASSUME IInv, ServerNext
    PROVE  CInv'
  <1>1. sent \in Seq(PacketType) /\ Len(sent) \in Nat /\ CInv /\ conn \in {"none", "up", "lost"}
    BY LenProperties DEF IInv, SInv, ServerTypes, CInv, ClientTypes
  <1>2. UNCHANGED <<conn, got, clientVars>>
    BY DEF ServerNext, DropRequest, NothingToList, OpenFails, NoBuffer, SendFails,
           ListFiles, OpenFile, ReadChunk, EndFile, SendDone, SendError
  <1>3. SInv'
    BY ServerKeeps DEF IInv
  <1>4. sent' = sent \/ \E p : sent' = Append(sent, p)
    BY DEF ServerNext, DropRequest, NothingToList, OpenFails, NoBuffer, SendFails,
           ListFiles, OpenFile, ReadChunk, EndFile, SendDone, SendError, Send
  <1>5. Len(sent') \in Nat /\ Len(sent) <= Len(sent') /\ \A k \in 1..Len(sent) : sent'[k] = sent[k]
    <2>1. CASE sent' = sent
      BY <1>1, <2>1
    <2>2. ASSUME NEW p, sent' = Append(sent, p)
          PROVE  Len(sent') \in Nat /\ Len(sent) <= Len(sent')
                 /\ \A k \in 1..Len(sent) : sent'[k] = sent[k]
      BY <1>1, <2>2, AppendProperties
    <2> QED BY <1>4, <2>1, <2>2
  <1> QED BY <1>1, <1>2, <1>5, ClientFrame

LEMMA EditLeavesClient ==
    ASSUME IInv, UNCHANGED <<sent, got, clientVars>>, conn' \in {"none", "up", "lost"}
    PROVE  CInv'
  BY ClientFrame, LenProperties DEF IInv, SInv, ServerTypes

LEMMA StartKeepsClient ==
    ASSUME IInv, StartPull
    PROVE  CInv'
  <1> USE DEF StartPull
  <1>1. ClientTypes'
    BY EmptyContent, PullAssumption DEF IInv, CInv, ClientTypes
  <1>2. OpenPart' /\ Directory'
    BY DEF OpenPart, Directory
  <1>3. Cardinality(EndPos(sent', 0)) = 0
    BY EndPosFacts
  <1>4. Counted'
    BY <1>3 DEF Counted
  <1> QED BY <1>1, <1>2, <1>4 DEF CInv

\* The file that is open is not among those that have ended.
LEMMA OpenFacts ==
    ASSUME IInv, client = "pull", out # NoFile
    PROVE  \E m \in 1..got :
              /\ sent[m].type = "META" /\ sent[m].file = out
              /\ Run(sent, m, got) /\ Holds(sent, blocks, m, got) /\ local[out] = blocks
              /\ \A n \in 1..got : sent[n].type = "META" /\ sent[n].file = out => n = m
              /\ \A e \in 1..got : ~Ends(m, e)
  <1>1. PICK m \in 1..got :
           /\ sent[m].type = "META" /\ sent[m].file = out
           /\ Run(sent, m, got) /\ Holds(sent, blocks, m, got) /\ local[out] = blocks
    BY DEF IInv, CInv, OpenPart
  <1>2. got \in Nat /\ got <= Len(sent) /\ Len(sent) \in Nat
    BY LenProperties DEF IInv, CInv, ClientTypes, SInv, ServerTypes
  <1>3. \A n \in 1..got : sent[n].type = "META" /\ sent[n].file = out => n = m
    BY <1>1, <1>2 DEF IInv, SInv, FilesListed
  <1>4. \A e \in 1..got : ~Ends(m, e)
    BY <1>1, <1>2 DEF Ends, Run
  <1> QED BY <1>1, <1>3, <1>4

\* What every receipt has: one more packet taken, none sent.
LEMMA ReceiptFacts ==
    ASSUME IInv, NEW t, Receive(t)
    PROVE  /\ got \in Nat /\ Len(sent) \in Nat /\ got + 1 \in 1..Len(sent) /\ got' = got + 1
           /\ client = "pull" /\ sent[got + 1] \in PacketType /\ sent[got + 1].type = t
           /\ Cardinality(EndPos(sent, got + 1)) =
                IF t = "END" THEN files_done + 1 ELSE files_done
           /\ t # "END" => \A m \in 1..got + 1, e \in 1..got + 1 : Ends(m, e) => e \in 1..got
           /\ t # "META" => \A m \in 1..got + 1 : sent[m].type = "META" => m \in 1..got
  <1>1. /\ got \in Nat /\ Len(sent) \in Nat /\ got < Len(sent) /\ sent \in Seq(PacketType)
        /\ got' = got + 1 /\ client = "pull" /\ sent[got + 1].type = t
    BY LenProperties
       DEF Receive, Arrived, Packet, IInv, CInv, ClientTypes, SInv, ServerTypes
  <1>2. sent[got + 1] \in PacketType
    BY <1>1, ElementOfSeq
  <1>3. files_done = Cardinality(EndPos(sent, got))
    BY DEF IInv, CInv, Counted
  <1>4. t # "END" => \A m \in 1..got + 1, e \in 1..got + 1 : Ends(m, e) => e \in 1..got
    BY <1>1 DEF Ends
  <1>5. t # "META" => \A m \in 1..got + 1 : sent[m].type = "META" => m \in 1..got
    BY <1>1
  <1>6. Cardinality(EndPos(sent, got + 1)) = IF t = "END" THEN files_done + 1 ELSE files_done
    BY <1>1, <1>3, EndPosFacts
  <1>7. got + 1 \in 1..Len(sent)
    BY <1>1
  <1> QED BY <1>1, <1>2, <1>4, <1>5, <1>6, <1>7

LEMMA MetaKeeps ==
    ASSUME IInv, RecvMeta
    PROVE  CInv'
  <1> DEFINE f == Packet.file
  <1>1. PICK k \in 1..Len(sent) : /\ k = got + 1 /\ got' = k /\ client = "pull" /\ got \in Nat
                                  /\ sent[k].type = "META" /\ sent[k].file = f /\ f \in File
    <2>1. Receive("META")
      BY DEF RecvMeta
    <2>2. sent[got + 1].file \in File
      BY <2>1, ReceiptFacts DEF PacketType, MetaPacket, ChunkPacket, EndPacket, LastPacket
    <2> QED BY <2>1, <2>2, ReceiptFacts DEF Packet
  <1>2. /\ out' = f /\ local' = [local EXCEPT ![f] = <<>>] /\ blocks' = <<>>
        /\ UNCHANGED <<sent, list, conn, client, files_done, pulls>>
    BY DEF RecvMeta, serverVars
  <1> HIDE DEF f
  <1>3. out = NoFile
    <2>1. k = 1 \/ sent[got].type = "END"
      BY <1>1 DEF IInv, SInv, FilesInTurn
    <2>2. SUFFICES ASSUME out # NoFile PROVE FALSE
      OBVIOUS
    <2>3. PICK m \in 1..got : sent[m].type = "META" /\ Run(sent, m, got)
      BY <1>1, <2>2, OpenFacts
    <2> QED BY <1>1, <2>1, <2>3 DEF Run
  <1>4. \A m \in 1..got : sent[m].type = "META" => sent[m].file \in File /\ sent[m].file # f
    <2>1. \A m \in 1..got : sent[m].type = "META" => sent[m].file # f
      BY <1>1 DEF IInv, SInv, FilesListed
    <2>2. \A m \in 1..got : sent[m] \in PacketType
      BY <1>1, ElementOfSeq DEF IInv, SInv, ServerTypes
    <2> QED BY <2>1, <2>2 DEF PacketType, MetaPacket, ChunkPacket, EndPacket, LastPacket
  <1>5. local' \in [File -> Content \cup {Absent}] /\ local'[f] = <<>>
        /\ \A g \in File : g # f => local'[g] = local[g]
    BY <1>1, <1>2, EmptyContent DEF IInv, CInv, ClientTypes
  <1>6. ClientTypes'
    BY <1>1, <1>2, <1>5, EmptyContent DEF IInv, CInv, ClientTypes
  <1>7. OpenPart'
    <2>1. Run(sent', k, k) /\ Holds(sent', <<>>, k, k)
      BY <1>1, EmptySeq DEF Run, Holds
    <2> QED BY <1>1, <1>2, <1>5, <2>1 DEF OpenPart
  <1>8. Directory'
    <2>1. ASSUME NEW m \in 1..k, NEW e \in 1..k, sent[m].type = "META", Ends(m, e)
          PROVE  local'[sent[m].file] = sent[e].sum
      <3>1. m \in 1..got /\ e \in 1..got
        BY <1>1, <2>1 DEF Ends
      <3>2. local[sent[m].file] = sent[e].sum
        BY <1>1, <2>1, <3>1 DEF IInv, CInv, Directory, Alive
      <3> QED BY <1>4, <1>5, <2>1, <3>1, <3>2
    <2>2. ASSUME NEW m \in 1..k, sent[m].type = "META"
          PROVE  \/ \E e \in 1..k : Ends(m, e)
                 \/ local'[sent[m].file] = Absent
                 \/ f = sent[m].file
      <3>1. CASE m = k
        BY <1>1, <3>1
      <3>2. CASE m # k
        <4>1. m \in 1..got
          BY <1>1, <3>2
        <4>2. (\E e \in 1..got : Ends(m, e)) \/ local[sent[m].file] = Absent
          BY <1>1, <1>3, <1>4, <2>2, <4>1, PullAssumption DEF IInv, CInv, Directory, Alive
        <4> QED BY <1>1, <1>4, <1>5, <2>2, <4>1, <4>2
      <3> QED BY <3>1, <3>2
    <2>3. \A m, e : Ends(m, e)' <=> Ends(m, e)
      BY <1>2 DEF Ends
    <2> QED BY <1>1, <1>2, <2>1, <2>2, <2>3 DEF Directory
  <1>9. Counted'
    <2>1. Cardinality(EndPos(sent, k)) = files_done
      BY <1>1, ReceiptFacts DEF RecvMeta
    <2> QED BY <1>1, <1>2, <2>1 DEF Counted
  <1> QED BY <1>6, <1>7, <1>8, <1>9 DEF CInv

\* The file of a META packet is a file of the folder.
LEMMA MetaFile ==
    ASSUME IInv
    PROVE  \A m \in 1..Len(sent) : sent[m].type = "META" => sent[m].file \in File
  <1>1. \A m \in 1..Len(sent) : sent[m] \in PacketType
    BY ElementOfSeq DEF IInv, SInv, ServerTypes
  <1> QED BY <1>1 DEF PacketType, MetaPacket, ChunkPacket, EndPacket, LastPacket

LEMMA ChunkKeeps ==
    ASSUME IInv, RecvChunk
    PROVE  CInv'
  <1> DEFINE b == Packet.block
  <1>1. PICK k \in 1..Len(sent) : /\ k = got + 1 /\ got' = k /\ client = "pull" /\ got \in Nat
                                  /\ sent[k].type = "CHUNK" /\ sent[k].block = b /\ b \in Block
    <2>1. Receive("CHUNK")
      BY DEF RecvChunk
    <2>2. sent[got + 1].block \in Block
      BY <2>1, ReceiptFacts DEF PacketType, MetaPacket, ChunkPacket, EndPacket, LastPacket
    <2> QED BY <2>1, <2>2, ReceiptFacts DEF Packet
  <1>2. /\ blocks' = Append(blocks, b) /\ local' = [local EXCEPT ![out] = Append(@, b)]
        /\ out \in File /\ out # NoFile
        /\ UNCHANGED <<sent, list, conn, client, out, files_done, pulls>>
    BY DEF RecvChunk, serverVars, IInv, CInv, ClientTypes
  <1> HIDE DEF b
  <1>3. PICK m \in 1..got :
           /\ sent[m].type = "META" /\ sent[m].file = out
           /\ Run(sent, m, got) /\ Holds(sent, blocks, m, got) /\ local[out] = blocks
           /\ \A n \in 1..got : sent[n].type = "META" /\ sent[n].file = out => n = m
           /\ \A e \in 1..got : ~Ends(m, e)
    BY <1>1, <1>2, OpenFacts
  <1>4. m \in 1..k /\ Run(sent, m, k) /\ Holds(sent, Append(blocks, b), m, k)
    <2>1. Holds(sent, Append(blocks, b), m, got + 1)
      BY <1>1, <1>3, HoldsNext
    <2> QED BY <1>1, <1>3, <2>1 DEF Run
  <1>5. Append(blocks, b) \in Content
    <2>1. k - m <= MaxBlocks
      BY <1>1, <1>3, <1>4 DEF IInv, SInv, FilesInTurn
    <2> QED BY <1>4, <2>1, ContentSeq DEF Holds
  <1>6. local' \in [File -> Content \cup {Absent}] /\ local'[out] = Append(blocks, b)
        /\ \A g \in File : g # out => local'[g] = local[g]
    BY <1>2, <1>3, <1>5 DEF IInv, CInv, ClientTypes
  <1>7. ClientTypes'
    BY <1>1, <1>2, <1>5, <1>6 DEF IInv, CInv, ClientTypes
  <1>8. OpenPart'
    BY <1>1, <1>2, <1>3, <1>4, <1>6 DEF OpenPart
  <1>9. Directory'
    <2>1. ASSUME NEW n \in 1..k, NEW e \in 1..k, sent[n].type = "META", Ends(n, e)
          PROVE  local'[sent[n].file] = sent[e].sum
      <3>1. n \in 1..got /\ e \in 1..got
        BY <1>1, <2>1 DEF Ends
      <3>2. sent[n].file # out
        BY <1>3, <2>1, <3>1
      <3>3. local[sent[n].file] = sent[e].sum
        BY <1>1, <2>1, <3>1 DEF IInv, CInv, Directory, Alive
      <3> QED BY <1>1, <1>6, <2>1, <3>1, <3>2, <3>3, MetaFile
    <2>2. ASSUME NEW n \in 1..k, sent[n].type = "META"
          PROVE  \/ \E e \in 1..k : Ends(n, e)
                 \/ local'[sent[n].file] = Absent
                 \/ out = sent[n].file
      <3>1. n \in 1..got
        BY <1>1, <2>2
      <3>2. CASE out = sent[n].file
        BY <3>2
      <3>3. CASE out # sent[n].file
        <4>1. (\E e \in 1..got : Ends(n, e)) \/ local[sent[n].file] = Absent
          BY <1>1, <2>2, <3>1, <3>3 DEF IInv, CInv, Directory, Alive
        <4> QED BY <1>1, <1>6, <2>2, <3>1, <3>3, <4>1, MetaFile
      <3> QED BY <3>2, <3>3
    <2>3. \A n, e : Ends(n, e)' <=> Ends(n, e)
      BY <1>2 DEF Ends
    <2> QED BY <1>1, <1>2, <2>1, <2>2, <2>3 DEF Directory
  <1>10. Counted'
    <2>1. Cardinality(EndPos(sent, k)) = files_done
      BY <1>1, ReceiptFacts DEF RecvChunk
    <2> QED BY <1>1, <1>2, <2>1 DEF Counted
  <1> QED BY <1>7, <1>8, <1>9, <1>10 DEF CInv

\* The checksum of an END is always that of what came: no file is refused for it.
LEMMA EndReceived ==
    ASSUME IInv, RecvEnd
    PROVE  CInv'
  <1>1. PICK k \in 1..Len(sent) : /\ k = got + 1 /\ got' = k /\ client = "pull" /\ got \in Nat
                                  /\ sent[k].type = "END" /\ Packet = sent[k]
    <2>1. Receive("END")
      BY DEF RecvEnd
    <2> QED BY <2>1, ReceiptFacts DEF Packet
  <1>2. out \in File /\ out # NoFile /\ out' = NoFile
        /\ UNCHANGED <<sent, list, conn, client, blocks, pulls>>
    BY DEF RecvEnd, serverVars, IInv, CInv, ClientTypes
  <1>3. PICK m \in 1..got :
           /\ sent[m].type = "META" /\ sent[m].file = out
           /\ Run(sent, m, got) /\ Holds(sent, blocks, m, got) /\ local[out] = blocks
           /\ \A n \in 1..got : sent[n].type = "META" /\ sent[n].file = out => n = m
    BY <1>1, <1>2, OpenFacts
  <1>4. sent[k].sum = blocks
    <2>1. PICK n \in 1..k - 1 : /\ sent[n].type = "META" /\ Run(sent, n, k - 1)
                                /\ Holds(sent, sent[k].sum, n, k - 1)
      BY <1>1 DEF IInv, SInv, FilesInTurn
    <2>2. k - 1 = got
      BY <1>1
    <2>3. n = m
      BY <1>1, <1>3, <2>1, <2>2, RunUnique
    <2> QED BY <1>1, <1>3, <2>1, <2>2, <2>3, HoldsUnique
  <1>5. files_done' = files_done + 1 /\ local' = local
    BY <1>1, <1>4 DEF RecvEnd
  <1>6. ClientTypes'
    BY <1>1, <1>2, <1>5 DEF IInv, CInv, ClientTypes
  <1>7. OpenPart'
    BY <1>2 DEF OpenPart
  <1>8. Ends(m, k) /\ m \in 1..k
    BY <1>1, <1>3 DEF Ends, Run
  <1>9. Directory'
    <2>1. ASSUME NEW n \in 1..k, NEW e \in 1..k, sent[n].type = "META", Ends(n, e)
          PROVE  local[sent[n].file] = sent[e].sum
      <3>1. n \in 1..got
        BY <1>1, <2>1 DEF Ends
      <3>2. CASE e = k
        <4>1. Run(sent, n, got)
          BY <1>1, <2>1, <3>2 DEF Ends, Run
        <4>2. n = m
          BY <1>1, <1>3, <2>1, <3>1, <4>1, RunUnique
        <4> QED BY <1>3, <1>4, <3>2, <4>2
      <3>3. CASE e # k
        <4>1. e \in 1..got
          BY <1>1, <3>3
        <4> QED BY <1>1, <2>1, <3>1, <4>1 DEF IInv, CInv, Directory, Alive
      <3> QED BY <3>2, <3>3
    <2>2. ASSUME NEW n \in 1..k, sent[n].type = "META"
          PROVE  (\E e \in 1..k : Ends(n, e)) \/ local[sent[n].file] = Absent
      <3>1. n \in 1..got
        BY <1>1, <2>2
      <3>2. CASE out = sent[n].file
        BY <1>3, <1>8, <2>2, <3>1, <3>2
      <3>3. CASE out # sent[n].file
        <4>1. (\E e \in 1..got : Ends(n, e)) \/ local[sent[n].file] = Absent
          BY <1>1, <2>2, <3>1, <3>3 DEF IInv, CInv, Directory, Alive
        <4> QED BY <1>1, <4>1
      <3> QED BY <3>2, <3>3
    <2>3. \A n, e : Ends(n, e)' <=> Ends(n, e)
      BY <1>2 DEF Ends
    <2> QED BY <1>1, <1>2, <1>5, <2>1, <2>2, <2>3 DEF Directory
  <1>10. Counted'
    <2>1. Cardinality(EndPos(sent, k)) = files_done + 1
      BY <1>1, ReceiptFacts DEF RecvEnd
    <2> QED BY <1>1, <1>2, <1>5, <2>1 DEF Counted
  <1> QED BY <1>6, <1>7, <1>9, <1>10 DEF CInv

\* DONE comes after the last END of the list.
LEMMA DoneReceived ==
    ASSUME IInv, RecvDone
    PROVE  CInv'
  <1>1. PICK k \in 1..Len(sent) : /\ k = got + 1 /\ got' = k /\ client = "pull" /\ got \in Nat
                                  /\ sent[k].type = "DONE" /\ Len(sent) \in Nat
    <2>1. Receive("DONE")
      BY DEF RecvDone
    <2> QED BY <2>1, ReceiptFacts
  <1>2. /\ client' = "ok" /\ conn' = "lost"
        /\ UNCHANGED <<sent, list, out, blocks, files_done, local, pulls>>
    BY DEF RecvDone, serverVars
  <1>3. k = Len(sent) /\ \A i \in 1..Len(list) : Whole(i)
    BY <1>1 DEF IInv, SInv, FilesWhole
  <1>4. ClientTypes' /\ OpenPart'
    BY <1>1, <1>2 DEF IInv, CInv, ClientTypes, OpenPart
  <1>5. Directory'
    <2>1. ASSUME NEW n \in 1..k, NEW e \in 1..k, sent[n].type = "META", Ends(n, e)
          PROVE  local[sent[n].file] = sent[e].sum
      <3>1. n \in 1..got /\ e \in 1..got
        BY <1>1, <2>1 DEF Ends
      <3> QED BY <1>1, <2>1, <3>1 DEF IInv, CInv, Directory, Alive
    <2>2. ASSUME NEW n \in 1..k, sent[n].type = "META"
          PROVE  \E e \in 1..k : Ends(n, e)
      <3>1. PICK i \in 1..Len(list) : sent[n].file = list[i]
        BY <1>1, <2>2 DEF IInv, SInv, FilesListed
      <3>2. PICK m \in 1..Len(sent), e \in 1..Len(sent) :
               sent[m].type = "META" /\ sent[m].file = list[i] /\ Ends(m, e)
        BY <1>3, <3>1 DEF Whole
      <3>3. n = m
        BY <1>1, <2>2, <3>1, <3>2 DEF IInv, SInv, FilesListed
      <3> QED BY <1>3, <3>2, <3>3
    <2>3. \A n, e : Ends(n, e)' <=> Ends(n, e)
      BY <1>2 DEF Ends
    <2> QED BY <1>1, <1>2, <2>1, <2>2, <2>3 DEF Directory
  <1>6. Counted'
    <2>1. Cardinality(EndPos(sent, k)) = files_done
      BY <1>1, ReceiptFacts DEF RecvDone
    <2> QED BY <1>1, <1>2, <2>1 DEF Counted
  <1> QED BY <1>4, <1>5, <1>6 DEF CInv

\* The client gives up with or without taking one more packet, which ends no file.
LEMMA GiveUpKeeps ==
    ASSUME IInv, client = "pull", GiveUp, UNCHANGED <<sent, list, blocks, files_done, pulls>>,
           NEW k \in 0..Len(sent), got' = k, got <= k, k <= got + 1,
           \A i \in got + 1..k : sent[i].type = "ERROR"
    PROVE  CInv'
  <1>1. /\ got \in Nat /\ Len(sent) \in Nat /\ got <= Len(sent) /\ out \in File \cup {NoFile}
        /\ client' = "failed" /\ conn' = "lost" /\ out' = NoFile
    BY LenProperties DEF IInv, CInv, ClientTypes, SInv, ServerTypes, GiveUp
  <1>2. /\ out # NoFile => local'[out] = Absent
        /\ \A g \in File : g # out => local'[g] = local[g]
        /\ local' \in [File -> Content \cup {Absent}]
    BY <1>1 DEF GiveUp, IInv, CInv, ClientTypes
  <1>3. ClientTypes' /\ OpenPart'
    BY <1>1, <1>2 DEF IInv, CInv, ClientTypes, OpenPart
  <1>4. Directory'
    <2>1. ASSUME NEW n \in 1..k, NEW e \in 1..k, sent[n].type = "META", Ends(n, e)
          PROVE  local'[sent[n].file] = sent[e].sum
      <3>1. n \in 1..got /\ e \in 1..got
        <4>1. n \in 1..got \/ n \in got + 1..k
          BY <1>1
        <4>2. e \in 1..got \/ e \in got + 1..k
          BY <1>1
        <4> QED BY <2>1, <4>1, <4>2 DEF Ends
      <3>2. sent[n].file \in File
        BY <2>1, MetaFile
      <3>3. sent[n].file # out
        <4>1. SUFFICES ASSUME sent[n].file = out PROVE FALSE
          OBVIOUS
        <4>2. out # NoFile
          BY <3>2, <4>1, PullAssumption
        <4> QED BY <2>1, <3>1, <4>1, <4>2, OpenFacts
      <3>4. local[sent[n].file] = sent[e].sum
        BY <2>1, <3>1 DEF IInv, CInv, Directory, Alive
      <3> QED BY <1>2, <3>2, <3>3, <3>4
    <2>2. ASSUME NEW n \in 1..k, sent[n].type = "META"
          PROVE  (\E e \in 1..k : Ends(n, e)) \/ local'[sent[n].file] = Absent
      <3>1. n \in 1..got
        <4>1. n \in 1..got \/ n \in got + 1..k
          BY <1>1
        <4> QED BY <2>2, <4>1
      <3>2. sent[n].file \in File
        BY <2>2, MetaFile
      <3>3. CASE out = sent[n].file
        BY <1>2, <3>2, <3>3, PullAssumption
      <3>4. CASE out # sent[n].file
        <4>1. (\E e \in 1..got : Ends(n, e)) \/ local[sent[n].file] = Absent
          BY <2>2, <3>1, <3>4 DEF IInv, CInv, Directory, Alive
        <4> QED BY <1>1, <1>2, <3>2, <3>4, <4>1
      <3> QED BY <3>3, <3>4
    <2>3. \A n, e : Ends(n, e)' <=> Ends(n, e)
      BY DEF Ends
    <2> QED BY <2>1, <2>2, <2>3 DEF Directory
  <1>5. Counted'
    <2>1. CASE k = got
      BY <1>1, <2>1 DEF IInv, CInv, Counted
    <2>2. CASE k = got + 1
      <3>1. sent[got + 1].type # "END"
        BY <1>1, <2>2
      <3> QED BY <1>1, <2>2, <3>1, EndPosFacts DEF IInv, CInv, Counted
    <2> QED BY <1>1, <2>1, <2>2
  <1> QED BY <1>3, <1>4, <1>5 DEF CInv

LEMMA ClientKeeps ==
    ASSUME IInv, ClientNext
    PROVE  CInv'
  <1>1. got \in Nat /\ Len(sent) \in Nat /\ got \in 0..Len(sent)
    BY LenProperties DEF IInv, CInv, ClientTypes, SInv, ServerTypes
  <1>2. CASE RecvMeta
    BY <1>2, MetaKeeps
  <1>3. CASE RecvChunk
    BY <1>3, ChunkKeeps
  <1>4. CASE RecvEnd
    BY <1>4, EndReceived
  <1>5. CASE RecvDone
    BY <1>5, DoneReceived
  <1>6. CASE RecvError
    <2>1. /\ Receive("ERROR") /\ GiveUp
          /\ UNCHANGED <<sent, list, blocks, files_done, pulls>>
      BY <1>6 DEF RecvError, serverVars
    <2>2. PICK k \in 0..Len(sent) : k = got + 1
      BY <2>1, ReceiptFacts
    <2>3. got' = k /\ got <= k /\ client = "pull" /\ \A i \in got + 1..k : sent[i].type = "ERROR"
      BY <2>1, <2>2, ReceiptFacts
    <2> QED BY <2>1, <2>2, <2>3, GiveUpKeeps
  <1>7. CASE RecvFails
    <2>1. /\ GiveUp /\ client = "pull" /\ got' = got
          /\ UNCHANGED <<sent, list, blocks, files_done, pulls>>
      BY <1>7 DEF RecvFails, serverVars
    <2>2. PICK k \in 0..Len(sent) : k = got
      BY <1>1
    <2>3. got <= k /\ k <= got + 1 /\ \A i \in got + 1..k : sent[i].type = "ERROR"
      BY <1>1, <2>2
    <2> QED BY <2>1, <2>2, <2>3, GiveUpKeeps
  <1> QED BY <1>2, <1>3, <1>4, <1>5, <1>6, <1>7 DEF ClientNext

LEMMA InterruptKeeps ==
    ASSUME IInv, Interrupt
    PROVE  CInv'
  <1>1. ClientTypes' /\ OpenPart' /\ Directory' /\ Counted'
    BY DEF Interrupt, IInv, CInv, ClientTypes, OpenPart, Directory, Alive, Counted
  <1> QED BY <1>1 DEF CInv

-----------------------------------------------------------------------------
(* The invariant holds in every state.                                     *)

LEMMA InitIInv == Init => IInv
  <1> SUFFICES ASSUME Init PROVE IInv
    OBVIOUS
  <1> USE DEF Init
  <1>1. Len(sent) = 0 /\ sent \in Seq(PacketType) /\ Len(list) = 0
    BY EmptySeq
  <1>2. dist \in [File -> Content]
    <2>1. ASSUME NEW n \in 0..MaxBlocks PROVE [i \in 1..n |-> 0] \in Content
      <3>1. 0 \in Block
        BY PullAssumption DEF Block
      <3>2. [i \in 1..n |-> 0] \in [1..n -> Block]
        BY <3>1
      <3> QED BY <3>2 DEF Content
    <2> QED BY <2>1
  <1>3. 1 \in 1..Cardinality(File) /\ Cardinality(EndPos(sent, 0)) = 0
    <2>1. Cardinality(File) \in Nat /\ Cardinality(File) # 0
      BY PullAssumption, FS_CardinalityType, FS_EmptySet
    <2> QED BY <2>1, EndPosFacts
  <1>4. ServerTypes
    BY <1>1, <1>2, <1>3, EmptyContent, PullAssumption DEF ServerTypes
  <1>5. ServerPlace /\ FilesInTurn /\ FilesListed
    BY <1>1 DEF ServerPlace, FilesInTurn, FilesListed
  <1>6. FilesWhole
    BY <1>1, <1>3 DEF FilesWhole
  <1>7. ClientTypes
    BY <1>1, EmptyContent, PullAssumption DEF ClientTypes
  <1>8. OpenPart /\ Directory /\ Counted
    BY <1>3 DEF OpenPart, Directory, Counted
  <1> QED BY <1>4, <1>5, <1>6, <1>7, <1>8 DEF IInv, SInv, CInv

LEMMA NextIInv == IInv /\ [Next]_vars => IInv'
  <1> SUFFICES ASSUME IInv, [Next]_vars PROVE IInv'
    OBVIOUS
  <1>1. SInv /\ CInv /\ conn \in {"none", "up", "lost"}
    BY DEF IInv, CInv, ClientTypes
  <1>2. ASSUME NEW f \in File, Truncate(f) \/ WriteBlock(f) PROVE IInv'
    <2>1. SInv'
      BY <1>1, <1>2, EditKeeps
    <2>2. UNCHANGED <<sent, got, clientVars, conn>>
      BY <1>2 DEF Truncate, WriteBlock
    <2> QED BY <1>1, <2>1, <2>2, EditLeavesClient DEF IInv
  <1>3. CASE LoseConnection
    <2>1. SInv'
      BY <1>1, <1>3, ServerFrame DEF LoseConnection, distVars
    <2>2. CInv'
      BY <1>3, EditLeavesClient DEF LoseConnection
    <2> QED BY <2>1, <2>2 DEF IInv
  <1>4. CASE StartPull
    BY <1>1, <1>4, StartKeepsServer, StartKeepsClient DEF IInv
  <1>5. CASE ServerNext
    BY <1>1, <1>5, ServerKeeps, ServerLeavesClient DEF IInv
  <1>6. CASE ClientNext
    <2>1. UNCHANGED <<dist, edits, serverVars, sent>>
      BY <1>6 DEF ClientNext, RecvMeta, RecvChunk, RecvEnd, RecvDone, RecvError, RecvFails,
                  distVars
    <2> QED BY <1>1, <1>6, <2>1, ServerFrame, ClientKeeps DEF IInv
  <1>7. CASE Interrupt
    <2>1. UNCHANGED <<dist, edits, serverVars, sent>>
      BY <1>7 DEF Interrupt, distVars
    <2> QED BY <1>1, <1>7, <2>1, ServerFrame, InterruptKeeps DEF IInv
  <1>8. CASE UNCHANGED vars
    <2>1. UNCHANGED <<dist, edits, serverVars, sent>> /\ UNCHANGED <<sent, got, clientVars, conn>>
      BY <1>8 DEF vars, distVars
    <2> QED BY <1>1, <2>1, ServerFrame, EditLeavesClient DEF IInv
  <1> QED BY <1>2, <1>3, <1>4, <1>5, <1>6, <1>7, <1>8 DEF Next

\* In every behaviour the packets sent are whole files of the list in turn and the
\* student's directory is what has been received of them.
THEOREM InvAlways == Spec => []IInv
  <1> QED BY InitIInv, NextIInv, PTL DEF Spec

(* Every variable keeps its type, and a pull of do_pull_mode never counts  *)
(* more files than handle_file_pull listed for it.                         *)
THEOREM TypeCorrect == Spec => []TypeOK
  <1>1. IInv => TypeOK
    <2> SUFFICES ASSUME IInv PROVE TypeOK
      OBVIOUS
    <2> USE DEF IInv, SInv, CInv, ServerTypes, ClientTypes
    <2>1. got \in Nat /\ Len(sent) \in Nat /\ got <= Len(sent)
      BY LenProperties
    <2>2. EndPos(sent, got) \subseteq EndPos(sent, Len(sent))
      BY <2>1 DEF EndPos
    <2>3. IsFiniteSet(EndPos(sent, Len(sent)))
      <3>1. IsFiniteSet(1..Len(sent))
        BY <2>1, FS_Interval
      <3> QED BY <3>1, FS_Subset DEF EndPos
    <2>4. Cardinality(EndPos(sent, got)) <= Cardinality(EndPos(sent, Len(sent)))
      BY <2>2, <2>3, FS_Subset
    <2>5. /\ Cardinality(EndPos(sent, got)) \in Nat
          /\ Cardinality(EndPos(sent, Len(sent))) \in Nat
      BY <2>1, EndPosFacts
    <2>6. Len(list) \in Nat
      <3>1. list \in Listings => Len(list) \in Nat
        BY ListingFacts
      <3> QED BY <3>1
    <2>7. files_done \in 0..Len(list)
      BY <2>4, <2>5, <2>6 DEF Counted, FilesWhole
    <2> QED BY <2>7 DEF TypeOK
  <1> QED BY <1>1, InvAlways, PTL

(* When do_pull_mode reports success, the student has every file that      *)
(* handle_file_pull listed as it was sent, whatever was rewritten in the   *)
(* folder meanwhile and whatever pull came before.                         *)
THEOREM CompleteOnSuccess == Spec => []SuccessIsComplete
  <1>1. IInv => SuccessIsComplete
    <2> SUFFICES ASSUME IInv, client = "ok" PROVE SuccessIsComplete
      BY DEF SuccessIsComplete
    <2>1. got \in 1..Len(sent) /\ sent[got].type = "DONE"
      BY DEF IInv, CInv, Counted
    <2>2. /\ got = Len(sent) /\ \A i \in 1..Len(list) : Whole(i)
          /\ Cardinality(EndPos(sent, Len(sent))) = Len(list)
      BY <2>1 DEF IInv, SInv, FilesWhole
    <2>3. ASSUME NEW i \in 1..Len(list)
          PROVE  \E m \in MetaPackets : sent[m].file = list[i] /\ Received(m)
      <3>1. PICK m \in 1..got, e \in 1..got :
               sent[m].type = "META" /\ sent[m].file = list[i] /\ Ends(m, e)
        BY <2>2, <2>3 DEF Whole
      <3>2. local[sent[m].file] = sent[e].sum
        BY <3>1 DEF IInv, CInv, Directory, Alive
      <3> QED BY <3>1, <3>2 DEF MetaPackets, Received
    <2> QED BY <2>2, <2>3 DEF SuccessIsComplete, IInv, CInv, Counted
  <1> QED BY <1>1, InvAlways, PTL

(* However do_pull_mode comes to its end, by success or at any error, it   *)
(* leaves no file of the pull behind that it has received in part.         *)
THEOREM NoHalfFiles == Spec => []NothingHalfLeft
  <1>1. IInv => NothingHalfLeft
    BY DEF NothingHalfLeft, MetaPackets, Received, IInv, CInv, Directory, Alive
  <1> QED BY <1>1, InvAlways, PTL

-----------------------------------------------------------------------------
(* No wait in vain, and no packet out of place.                            *)

(* The worker waits in _send_all: the connection is full. *)
ServerWaits ==
    /\ server \in {"open", "read", "done", "error"}
    /\ conn = "up" /\ Len(sent) - got >= Window

(* The client waits in recv: nothing has come and more may. *)
ClientWaits == client = "pull" /\ ~Arrived /\ ~EndOfStream

(* Worker and client of a pull never wait for each other, and neither      *)
(* waits for one that has gone: who waits in _send_all has a client with   *)
(* packets to take, who waits in recv a worker that can go on.             *)
WaitsAreForTheOther ==
    /\ ServerWaits => client = "pull" /\ Arrived
    /\ ClientWaits => conn = "up" /\ server \notin {"idle", "closed"} /\ ~ServerWaits

(* Of this server's packets the client takes none for a protocol error: a  *)
(* block or an END comes for the file that is open, a META or the DONE     *)
(* when none is.  What is left to fail is the connection and the disk.     *)
PacketsInPlace ==
    client = "pull" /\ Arrived =>
        /\ Packet.type \in {"CHUNK", "END"} => out # NoFile
        /\ Packet.type \in {"META", "DONE"} => out = NoFile

\* Behind the first k packets a file has begun and not ended.
InFile(k) == k > 0 /\ sent[k].type \in {"META", "CHUNK"}

\* The order of the packets, and what the worker may send next.
Grammar ==
    /\ \A k \in 1..Len(sent) :
         /\ sent[k].type \in {"CHUNK", "END"} => InFile(k - 1)
         /\ sent[k].type \in {"META", "DONE"} => ~InFile(k - 1)
    /\ server \in {"request", "open", "done"} => ~InFile(Len(sent))
    /\ server = "read" => InFile(Len(sent))

\* Who is there at the two ends of the connection.
BothEnds ==
    /\ client = "pull" => conn # "none" /\ server # "idle"
    /\ client # "pull" => conn # "up"
    /\ conn = "none" => server = "idle"

WaitInv ==
    /\ Grammar
    /\ client = "pull" => (out # NoFile <=> InFile(got))
    /\ BothEnds

LEMMA GrammarKept ==
    ASSUME Grammar, sent \in Seq(PacketType), NEW p \in PacketType, Send(p),
           p.type \in {"CHUNK", "END"} => InFile(Len(sent)),
           p.type \in {"META", "DONE"} => ~InFile(Len(sent)),
           server' \in {"request", "open", "done"} => p.type \notin {"META", "CHUNK"},
           server' = "read" => p.type \in {"META", "CHUNK"}
    PROVE  Grammar' /\ \A k \in 0..Len(sent) : InFile(k)' <=> InFile(k)
  <1>1. /\ Len(sent) \in Nat /\ Len(sent') = Len(sent) + 1
        /\ \A k \in 1..Len(sent) : sent'[k] = sent[k]
        /\ sent'[Len(sent) + 1] = p
    BY SendFacts
  <1>2. \A k \in 0..Len(sent) : InFile(k)' <=> InFile(k)
    BY <1>1 DEF InFile
  <1>3. ASSUME NEW k \in 1..Len(sent')
        PROVE  /\ sent'[k].type \in {"CHUNK", "END"} => InFile(k - 1)'
               /\ sent'[k].type \in {"META", "DONE"} => ~InFile(k - 1)'
    <2>1. k \in 1..Len(sent) \/ k = Len(sent) + 1
      BY <1>1
    <2>2. k - 1 \in 0..Len(sent)
      BY <1>1
    <2>3. CASE k \in 1..Len(sent)
      BY <1>1, <1>2, <2>2, <2>3 DEF Grammar
    <2>4. CASE k = Len(sent) + 1
      <3>1. k - 1 = Len(sent)
        BY <1>1, <2>4
      <3> QED BY <1>1, <1>2, <2>2, <2>4, <3>1
    <2> QED BY <2>1, <2>3, <2>4
  <1>4. InFile(Len(sent))' <=> p.type \in {"META", "CHUNK"}
    BY <1>1 DEF InFile
  <1> QED BY <1>2, <1>3, <1>4 DEF Grammar

\* A step of the worker that sends nothing.
LEMMA QuietKeeps ==
    ASSUME WaitInv, UNCHANGED <<sent, got, conn, client, out>>,
           server # "idle", server' # "idle",
           server' \in {"error", "closed"} \/ (server = "request" /\ server' = "open")
    PROVE  WaitInv'
  BY DEF WaitInv, Grammar, InFile, BothEnds

LEMMA ServerKeepsWait ==
    ASSUME IInv, WaitInv, ServerNext
    PROVE  WaitInv'
  <1>1. sent \in Seq(PacketType) /\ got \in 0..Len(sent) /\ Len(sent) \in Nat
    BY LenProperties DEF IInv, SInv, ServerTypes, CInv, ClientTypes
  <1>2. ASSUME NEW p \in PacketType, Send(p), UNCHANGED <<got, conn, client, out>>,
               server \notin {"idle", "request"}, server' # "idle",
               p.type \in {"CHUNK", "END"} => InFile(Len(sent)),
               p.type \in {"META", "DONE"} => ~InFile(Len(sent)),
               server' \in {"request", "open", "done"} => p.type \notin {"META", "CHUNK"},
               server' = "read" => p.type \in {"META", "CHUNK"}
        PROVE  WaitInv'
    <2>1. Grammar' /\ \A k \in 0..Len(sent) : InFile(k)' <=> InFile(k)
      BY <1>1, <1>2, GrammarKept DEF WaitInv
    <2> QED BY <1>1, <1>2, <2>1 DEF WaitInv, BothEnds
  <1>3. CASE DropRequest \/ ListFiles \/ NothingToList \/ OpenFails \/ NoBuffer \/ SendFails
    BY <1>3, QuietKeeps
       DEF DropRequest, ListFiles, NothingToList, OpenFails, NoBuffer, SendFails, clientVars
  <1>4. CASE OpenFile
    <2> DEFINE p == Meta(list[index], Len(dist[list[index]]))
    <2>1. p \in PacketType /\ p.type = "META"
      <3>1. list \in Listings /\ index \in 1..Len(list)
        BY <1>4 DEF OpenFile, IInv, SInv, ServerPlace
      <3>2. list[index] \in File
        BY <3>1, ListingFacts
      <3>3. Len(dist[list[index]]) \in Nat
        BY <3>2, ContentSeq, LenProperties DEF IInv, SInv, ServerTypes
      <3> QED BY <3>2, <3>3 DEF Meta, PacketType, MetaPacket
    <2>2. Send(p) /\ server = "open" /\ server' = "read" /\ UNCHANGED <<got, conn, client, out>>
      BY <1>4 DEF OpenFile, clientVars
    <2>3. ~InFile(Len(sent))
      BY <2>2 DEF WaitInv, Grammar
    <2> HIDE DEF p
    <2> QED BY <1>2, <2>1, <2>2, <2>3
  <1>5. CASE ReadChunk
    <2>1. PICK b : /\ b = dist[list[index]][Len(read) + 1] /\ Send(Chunk(b))
                   /\ server = "read" /\ server' = "read" /\ Len(read) < Len(dist[list[index]])
                   /\ UNCHANGED <<got, conn, client, out>>
      BY <1>5 DEF ReadChunk, clientVars
    <2>2. b \in Block
      <3>1. list \in Listings /\ index \in 1..Len(list)
        BY <2>1 DEF IInv, SInv, ServerPlace
      <3>2. list[index] \in File
        BY <3>1, ListingFacts
      <3>3. dist[list[index]] \in Seq(Block) /\ Len(read) \in Nat
        BY <3>2, ContentSeq, LenProperties DEF IInv, SInv, ServerTypes
      <3> QED BY <2>1, <3>3, ElementOfSeq, LenProperties
    <2>3. Chunk(b) \in PacketType /\ Chunk(b).type = "CHUNK"
      BY <2>2 DEF Chunk, PacketType, ChunkPacket
    <2>4. InFile(Len(sent))
      BY <2>1 DEF WaitInv, Grammar
    <2> QED BY <1>2, <2>1, <2>3, <2>4
  <1>6. CASE EndFile
    <2>1. End(read) \in PacketType /\ End(read).type = "END"
      BY DEF End, PacketType, EndPacket, IInv, SInv, ServerTypes
    <2>2. /\ Send(End(read)) /\ server = "read" /\ server' \in {"done", "open"}
          /\ UNCHANGED <<got, conn, client, out>>
      BY <1>6 DEF EndFile, clientVars
    <2>3. InFile(Len(sent))
      BY <2>2 DEF WaitInv, Grammar
    <2> QED BY <1>2, <2>1, <2>2, <2>3
  <1>7. CASE SendDone
    <2>1. Done(Len(list)) \in PacketType /\ Done(Len(list)).type = "DONE"
      <3>1. list \in Listings
        BY <1>7 DEF SendDone, IInv, SInv, ServerPlace
      <3>2. Len(list) \in Nat
        BY <3>1, ListingFacts
      <3> QED BY <3>2 DEF Done, PacketType, LastPacket
    <2>2. /\ Send(Done(Len(list))) /\ server = "done" /\ server' = "closed"
          /\ UNCHANGED <<got, conn, client, out>>
      BY <1>7 DEF SendDone, clientVars
    <2>3. ~InFile(Len(sent))
      BY <2>2 DEF WaitInv, Grammar
    <2> QED BY <1>2, <2>1, <2>2, <2>3
  <1>8. CASE SendError
    <2>1. Error \in PacketType /\ Error.type = "ERROR"
      BY DEF Error, PacketType, LastPacket
    <2>2. /\ Send(Error) /\ server = "error" /\ server' = "closed"
          /\ UNCHANGED <<got, conn, client, out>>
      BY <1>8 DEF SendError, clientVars
    <2> QED BY <1>2, <2>1, <2>2
  <1> QED BY <1>3, <1>4, <1>5, <1>6, <1>7, <1>8 DEF ServerNext

LEMMA ClientKeepsWait ==
    ASSUME IInv, WaitInv, ClientNext
    PROVE  WaitInv'
  <1>1. UNCHANGED <<sent, server>>
    BY DEF ClientNext, RecvMeta, RecvChunk, RecvEnd, RecvDone, RecvError, RecvFails, serverVars
  <1>2. Grammar' /\ \A k : InFile(k)' <=> InFile(k)
    BY <1>1 DEF WaitInv, Grammar, InFile
  <1>3. client = "pull" /\ server # "idle" /\ conn # "none"
    BY DEF ClientNext, RecvMeta, RecvChunk, RecvEnd, RecvDone, RecvError, RecvFails, Receive,
           WaitInv, BothEnds
  <1>4. CASE RecvMeta
    <2>1. /\ got \in Nat /\ got' = got + 1 /\ sent[got + 1].type = "META"
          /\ sent[got + 1] \in PacketType /\ out' = sent[got + 1].file
          /\ client' = client /\ conn' = conn
      BY <1>4, ReceiptFacts DEF RecvMeta, Packet
    <2>2. out' # NoFile
      BY <2>1, PullAssumption
         DEF PacketType, MetaPacket, ChunkPacket, EndPacket, LastPacket
    <2>3. InFile(got + 1)
      BY <2>1 DEF InFile
    <2> QED BY <1>1, <1>2, <1>3, <2>1, <2>2, <2>3 DEF WaitInv, BothEnds
  <1>5. CASE RecvChunk
    <2>1. /\ got \in Nat /\ got' = got + 1 /\ sent[got + 1].type = "CHUNK"
          /\ out # NoFile /\ out' = out /\ client' = client /\ conn' = conn
      BY <1>5, ReceiptFacts DEF RecvChunk
    <2>2. InFile(got + 1)
      BY <2>1 DEF InFile
    <2> QED BY <1>1, <1>2, <1>3, <2>1, <2>2 DEF WaitInv, BothEnds
  <1>6. CASE RecvEnd
    <2>1. /\ got \in Nat /\ got' = got + 1 /\ sent[got + 1].type = "END"
          /\ out' = NoFile /\ client' = client /\ conn' = conn
      BY <1>6, ReceiptFacts DEF RecvEnd
    <2>2. ~InFile(got + 1)
      BY <2>1 DEF InFile
    <2> QED BY <1>1, <1>2, <1>3, <2>1, <2>2 DEF WaitInv, BothEnds
  <1>7. CASE RecvDone \/ RecvError \/ RecvFails
    <2>1. client' \in {"ok", "failed"} /\ conn' = "lost"
      BY <1>7 DEF RecvDone, RecvError, RecvFails, GiveUp
    <2> QED BY <1>1, <1>2, <1>3, <2>1 DEF WaitInv, BothEnds
  <1> QED BY <1>4, <1>5, <1>6, <1>7 DEF ClientNext

LEMMA NextWaitInv == IInv /\ WaitInv /\ [Next]_vars => WaitInv'
  <1> SUFFICES ASSUME IInv, WaitInv, [Next]_vars PROVE WaitInv'
    OBVIOUS
  <1>1. ASSUME NEW f \in File, Truncate(f) \/ WriteBlock(f) PROVE WaitInv'
    BY <1>1 DEF Truncate, WriteBlock, WaitInv, Grammar, InFile, BothEnds, serverVars, clientVars
  <1>2. CASE LoseConnection
    BY <1>2 DEF LoseConnection, WaitInv, Grammar, InFile, BothEnds, serverVars, clientVars
  <1>3. CASE StartPull
    <2>1. Len(sent') = 0
      BY <1>3 DEF StartPull
    <2>2. ~InFile(0)'
      BY DEF InFile
    <2> QED BY <1>3, <2>1, <2>2 DEF StartPull, WaitInv, Grammar, BothEnds
  <1>4. CASE ServerNext
    BY <1>4, ServerKeepsWait
  <1>5. CASE ClientNext
    BY <1>5, ClientKeepsWait
  <1>6. CASE Interrupt
    BY <1>6 DEF Interrupt, WaitInv, Grammar, InFile, BothEnds, serverVars
  <1>7. CASE UNCHANGED vars
    BY <1>7 DEF vars, WaitInv, Grammar, InFile, BothEnds, serverVars, clientVars
  <1> QED BY <1>1, <1>2, <1>3, <1>4, <1>5, <1>6, <1>7 DEF Next

(* The order of the packets and the two ends of the connection, in every   *)
(* reachable state of handle_file_pull and do_pull_mode.                   *)
THEOREM WaitInvAlways == Spec => []WaitInv
  <1>1. Init => WaitInv
    BY DEF Init, WaitInv, Grammar, InFile, BothEnds
  <1> QED BY <1>1, NextWaitInv, InvAlways, PTL DEF Spec

(* A pull cannot hang but by a peer that keeps the connection and does not *)
(* use it: the worker in _send_all waits only for a client that has        *)
(* packets to take, and the client in recv only for a worker that can go   *)
(* on.                                                                     *)
THEOREM NoMutualWait == Spec => []WaitsAreForTheOther
  <1>1. IInv /\ WaitInv => WaitsAreForTheOther
    <2> SUFFICES ASSUME IInv, WaitInv PROVE WaitsAreForTheOther
      OBVIOUS
    <2>1. got \in Nat /\ Len(sent) \in Nat /\ Window \in Nat \ {0}
      BY LenProperties, PullAssumption DEF IInv, SInv, ServerTypes, CInv, ClientTypes
    <2>2. ServerWaits => client = "pull" /\ Arrived
      BY <2>1 DEF ServerWaits, Arrived, WaitInv, BothEnds
    <2>3. ClientWaits => conn = "up" /\ server \notin {"idle", "closed"}
      BY DEF ClientWaits, EndOfStream, WaitInv, BothEnds, IInv, CInv, ClientTypes
    <2>4. ClientWaits => ~ServerWaits
      BY <2>2 DEF ClientWaits
    <2> QED BY <2>2, <2>3, <2>4 DEF WaitsAreForTheOther
  <1> QED BY <1>1, InvAlways, WaitInvAlways, PTL

(* do_pull_mode takes no packet of handle_file_pull for a protocol error,  *)
(* whatever is rewritten in the folder meanwhile.                          *)
THEOREM NoPacketOutOfPlace == Spec => []PacketsInPlace
  <1>1. IInv /\ WaitInv => PacketsInPlace
    <2> SUFFICES ASSUME IInv, WaitInv, client = "pull", Arrived PROVE PacketsInPlace
      BY DEF PacketsInPlace
    <2>1. got \in Nat /\ Len(sent) \in Nat /\ got + 1 \in 1..Len(sent) /\ (got + 1) - 1 = got
      BY LenProperties DEF IInv, SInv, ServerTypes, CInv, ClientTypes, Arrived
    <2> QED BY <2>1 DEF PacketsInPlace, Packet, WaitInv, Grammar
  <1> QED BY <1>1, InvAlways, WaitInvAlways, PTL
=============================================================================
