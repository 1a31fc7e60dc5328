-------------------------- MODULE ScpTransferProofs --------------------------
(* The copies of the SCP helpers, for files, chunks and windows of any size. *)
EXTENDS ScpTransfer, FileParts

LEMMA SizeIsNat == Size \in Nat
BY Instance

USE SizeIsNat

\* The source, and what f.read takes from it.
LEMMA WholeFile == Part(File, 0, Size) /\ Len(File) = Size
<1>1. File \in Seq(1 .. Size) /\ Len(File) = Size
  BY DEF File
<1>2. QED
  BY <1>1 DEF File, Part

LEMMA PartOfFile ==
  ASSUME NEW from \in Nat, NEW n \in Nat, from + n <= Size
  PROVE  Part(Cut(File, from, n), from, Size) /\ Len(Cut(File, from, n)) = n
<1>1. Part(Cut(File, from, n), 0 + from, Size) /\ Len(Cut(File, from, n)) = n
  BY WholeFile, PartOfPart
<1>2. QED
  BY <1>1

LEMMA ChunkIs ==
  ASSUME NEW from \in 0 .. Size
  PROVE  /\ Part(Chunk(from, WriteLen), from, Size) /\ Len(Chunk(from, WriteLen)) \in Nat
         /\ Len(Chunk(from, WriteLen)) <= WriteLen /\ from + Len(Chunk(from, WriteLen)) <= Size
         /\ Len(Chunk(from, WriteLen)) < WriteLen => from + Len(Chunk(from, WriteLen)) = Size
<1> DEFINE n == Least(from + WriteLen, Size) - from
<1>1. /\ n \in Nat /\ n <= WriteLen /\ from + n <= Size /\ (n < WriteLen => from + n = Size)
      /\ from + n = Least(from + WriteLen, Size) /\ from \in Nat
  BY Instance DEF Least
<1>2. Chunk(from, WriteLen) = Cut(File, from, n)
  BY <1>1 DEF Chunk, Cut
<1> HIDE DEF n
<1>3. Part(Cut(File, from, n), from, Size) /\ Len(Cut(File, from, n)) = n
  BY <1>1, PartOfFile
<1>4. QED
  BY <1>1, <1>2, <1>3

\* What the abstract specification calls a beginning of its source.
LEMMA PartIsCopied ==
  ASSUME NEW s, Part(s, 0, Size)
  PROVE  Len(s) \in 0 .. Size /\ s = SubSeq(Copies!Source, 1, Len(s))
<1>1. Len(s) \in 0 .. Size
  BY PartIsShort
<1>2. Copies!Source = File
  BY DEF Copies!Source, File
<1>3. Part(SubSeq(File, 1, Len(s)), 0, Size) /\ Len(SubSeq(File, 1, Len(s))) = Len(s)
  BY <1>1, WholeFile, BeginningOfPart
<1>4. QED
  BY <1>1, <1>2, <1>3, PartUnique

-----------------------------------------------------------------------------
(* The invariant *)

Moments == {"now", "atime", "mtime"}

Scalars ==
  /\ dir \in {"send", "recv"} /\ peer \in {"open", "eof", "closed"} /\ chan \in {"none", "open", "closed"}
  /\ file \in {"none", "open", "closed", "unclosed"}
  /\ limit \in Windows /\ window \in 0 .. limit
  /\ times \in [atime : Moments, mtime : Moments]

Course ==
  /\ dir = "send" => pc \in {"start", "write", "eof", "closing", "done", "raised"}
  /\ dir = "recv" => pc \in {"start", "read", "done", "raised"} /\ buf = <<>>
  /\ pc = "start" => chan = "none" /\ file = "none" /\ out = <<>> /\ buf = <<>> /\ pos = 0
  /\ dir = "recv" /\ pc \in {"done", "raised"} =>
       /\ file # "open"
       /\ chan = "open" => pc = "raised" /\ file \in {"none", "unclosed"}

\* The chunk continues what was sent. A whole chunk is the last of what was read of the file; one
\* that lost a byte is shorter, so that no other is read after it.
Files ==
  /\ pos \in 0 .. Size /\ Part(out, 0, Size) /\ Part(buf, Len(out), Size)
  /\ Len(out) + Len(buf) <= pos
  /\ Len(buf) <= WriteLen
  /\ dir = "send" /\ pc = "write" /\ Len(buf) = WriteLen => Len(out) + Len(buf) = pos

\* What has arrived when the call is over; a sender needs a window that takes every chunk whole.
Whole ==
  /\ dir = "recv" /\ pc = "done" => Len(out) = Size
  /\ dir = "send" /\ limit >= Size /\ pc \in {"start", "write"} => window >= Size - Len(out)
  /\ dir = "send" /\ limit >= Size /\ pc = "write" =>
       Len(out) + Len(buf) = pos /\ (Len(buf) < WriteLen => pos = Size)
  /\ dir = "send" /\ limit >= Size /\ pc \in {"eof", "closing", "done"} => Len(out) = Size

Inv == Scalars /\ Course /\ Files /\ Whole

\* The lengths, as numbers.
LEMMA Lengths == Inv => /\ Len(out) \in Nat /\ Len(buf) \in Nat /\ window \in Nat /\ limit \in Nat
                        /\ Len(out) <= Size /\ pos \in Nat /\ pos <= Size /\ WriteLen \in Nat /\ WriteLen > 0
<1> SUFFICES ASSUME Inv PROVE /\ Len(out) \in Nat /\ Len(buf) \in Nat /\ window \in Nat /\ limit \in Nat
                              /\ Len(out) <= Size /\ pos \in Nat /\ pos <= Size /\ WriteLen \in Nat /\ WriteLen > 0
  OBVIOUS
<1>1. Len(out) \in Nat /\ Len(buf) \in Nat
  BY PartIsShort DEF Inv, Files
<1>2. QED
  BY <1>1, Instance DEF Inv, Files, Scalars

LEMMA InvInit == Init => Inv
<1> SUFFICES ASSUME Init PROVE Inv
  OBVIOUS
<1>1. Part(<<>>, 0, Size) /\ Len(<<>>) = 0
  BY NoPart
<1>2. Scalars
  <2>1. limit \in Nat /\ window \in 0 .. limit
    BY Instance DEF Init
  <2>2. times \in [atime : Moments, mtime : Moments]
    BY DEF Init, NoTimes, Moments
  <2>3. QED
    BY <2>1, <2>2 DEF Init, Scalars
<1>3. Course /\ Files
  BY <1>1, Instance DEF Init, Course, Files
<1>4. Whole
  BY <1>1, Instance DEF Init, Whole
<1>5. QED
  BY <1>2, <1>3, <1>4 DEF Inv

-----------------------------------------------------------------------------
(* Its steps *)

LEMMA SendOpenStep == Inv /\ SendOpen => Inv'
<1> SUFFICES ASSUME Inv, SendOpen PROVE Inv'
  OBVIOUS
<1>1. /\ dir = "send" /\ pc = "start" /\ pc' = "write" /\ chan' = "open"
      /\ times' = [atime |-> "atime", mtime |-> "mtime"]
      /\ buf' = Chunk(0, WriteLen) /\ pos' = Len(buf')
      /\ UNCHANGED <<dir, limit, window, peer, out, file>>
  BY DEF SendOpen
<1>2. out = <<>> /\ Len(out) = 0
  BY <1>1, NoPart DEF Inv, Course
<1>3. /\ Part(buf', 0, Size) /\ pos' \in Nat /\ pos' <= WriteLen /\ pos' <= Size
      /\ pos' < WriteLen => pos' = Size
  BY <1>1, ChunkIs
<1>4. Scalars' /\ Course'
  BY <1>1 DEF Inv, Scalars, Course, Moments
<1>5. Files'
  BY <1>1, <1>2, <1>3, Lengths DEF Inv, Files
<1>6. Whole'
  BY <1>1, <1>2, <1>3, Lengths DEF Inv, Whole
<1>7. QED
  BY <1>4, <1>5, <1>6 DEF Inv

\* The end of the chunk that was not accepted, without its last byte.
LEMMA RestIs ==
  ASSUME NEW k \in Nat, NEW w \in Nat, Part(buf, k, Size), w <= Len(buf), w > 0
  PROVE  /\ Part(Rest(w), k + w, Size) /\ Len(Rest(w)) \in Nat
         /\ w + Len(Rest(w)) <= Len(buf) /\ Len(Rest(w)) < Len(buf)
         /\ w = Len(buf) => Len(Rest(w)) = 0
<1>1. Len(buf) \in Nat
  BY PartIsShort
<1>2. CASE Len(buf) - 1 < w + 1
  <2> DEFINE first == w + 1  last == Len(buf) - 1
  <2>1. first \in Int /\ last \in Int /\ last < first
    BY <1>1, <1>2
  <2>2. Rest(w) = SubSeq(buf, first, last)
    BY DEF Rest
  <2> HIDE DEF first, last
  <2>3. Rest(w) = <<>>
    BY <2>1, <2>2, SubSeqEmpty
  <2>4. Part(Rest(w), k + w, Size) /\ Len(Rest(w)) = 0
    BY <2>3, NoPart
  <2>5. QED
    BY <1>1, <2>4
<1>3. CASE ~(Len(buf) - 1 < w + 1)
  <2> DEFINE n == (Len(buf) - 1) - w
  <2>1. n \in Nat /\ w + n = Len(buf) - 1 /\ w + n <= Len(buf) /\ n < Len(buf) /\ w # Len(buf)
    BY <1>1, <1>3
  <2>2. Rest(w) = Cut(buf, w, n)
    BY <2>1 DEF Cut, Rest
  <2> HIDE DEF n
  <2>3. Part(Cut(buf, w, n), k + w, Size) /\ Len(Cut(buf, w, n)) = n
    BY <2>1, PartOfPart
  <2>4. QED
    BY <2>1, <2>2, <2>3
<1>4. QED
  BY <1>2, <1>3

\* A write sends a beginning of the chunk.
LEMMA WriteSends ==
  ASSUME Inv, SendWrite
  PROVE  /\ Written \in Nat /\ Written > 0 /\ Written <= window /\ Written <= Len(buf)
         /\ Written = window \/ Written = Len(buf)
         /\ Part(out', 0, Size) /\ Len(out') = Len(out) + Written
<1>1. Part(out, 0, Size) /\ Part(buf, Len(out), Size) /\ 0 + Len(out) = Len(out)
  BY Lengths DEF Inv, Files
<1>2. /\ Written \in Nat /\ Written > 0 /\ Written <= window /\ Written <= Len(buf)
      /\ Written = window \/ Written = Len(buf)
  BY Lengths DEF SendWrite, Written, Least
<1> DEFINE r == SubSeq(buf, 1, Written)
<1>3. Part(r, Len(out), Size) /\ Len(r) = Written
  BY <1>1, <1>2, Lengths, BeginningOfPart
<1>4. out' = Join(out, r)
  BY DEF SendWrite, Join
<1> HIDE DEF r
<1>5. Part(Join(out, r), 0, Size) /\ Len(Join(out, r)) = Len(out) + Len(r)
  BY <1>1, <1>3, PartAppend
<1>6. QED
  BY <1>2, <1>3, <1>4, <1>5

LEMMA SendWriteStep == Inv /\ SendWrite => Inv'
<1> SUFFICES ASSUME Inv, SendWrite PROVE Inv'
  OBVIOUS
<1>1. pc = "write" /\ window' = window - Written /\ UNCHANGED <<dir, pc, limit, peer, chan, file, times>>
  BY DEF SendWrite
<1>2. /\ Written \in Nat /\ Written > 0 /\ Written <= window /\ Written <= Len(buf)
      /\ Written = window \/ Written = Len(buf)
      /\ Part(out', 0, Size) /\ Len(out') = Len(out) + Written
  BY WriteSends
<1>3. dir = "send" /\ Course'
  BY <1>1 DEF Inv, Scalars, Course
<1>4. Scalars'
  <2>1. window' \in 0 .. limit'
    BY <1>1, <1>2, Lengths DEF Inv, Scalars
  <2>2. QED
    BY <1>1, <2>1 DEF Inv, Scalars
<1>5. /\ Len(out) + Len(buf) <= pos /\ Len(buf) <= WriteLen
      /\ Len(buf) = WriteLen => Len(out) + Len(buf) = pos
  BY <1>1, <1>3 DEF Inv, Files
<1>6. limit >= Size =>
        /\ window >= Size - Len(out) /\ Len(out) + Len(buf) = pos /\ (Len(buf) < WriteLen => pos = Size)
        /\ Written = Len(buf)
  BY <1>1, <1>2, <1>3, <1>5, Lengths DEF Inv, Whole
<1>7. CASE Written = WriteLen
  <2>1. buf' = Chunk(pos, WriteLen) /\ pos' = pos + Len(buf')
    BY <1>7 DEF SendWrite
  <2>2. Len(buf) = WriteLen /\ Len(out') = pos
    BY <1>2, <1>5, <1>7, Lengths
  <2>3. pos \in 0 .. Size
    BY Lengths
  <2>4. /\ Part(buf', Len(out'), Size) /\ Len(buf') \in Nat /\ Len(buf') <= WriteLen
        /\ pos' <= Size /\ (Len(buf') < WriteLen => pos' = Size)
    BY <2>1, <2>2, <2>3, ChunkIs
  <2>5. pos' \in 0 .. Size /\ Len(out') + Len(buf') = pos'
    BY <2>1, <2>2, <2>4, Lengths
  <2>6. Files'
    BY <1>2, <2>4, <2>5, Instance DEF Files
  <2>7. limit >= Size => window' >= Size - Len(out')
    BY <1>1, <1>2, <1>6, Lengths
  <2>8. Whole'
    BY <1>1, <1>3, <2>4, <2>5, <2>7 DEF Whole
  <2>9. QED
    BY <1>3, <1>4, <2>6, <2>8 DEF Inv
<1>8. CASE Written # WriteLen
  <2>1. buf' = Rest(Written) /\ pos' = pos
    BY <1>8 DEF SendWrite
  <2>2. /\ Part(buf', Len(out) + Written, Size) /\ Len(buf') \in Nat
        /\ Written + Len(buf') <= Len(buf) /\ Len(buf') < Len(buf)
        /\ Written = Len(buf) => Len(buf') = 0
    BY <1>2, <2>1, Lengths, RestIs DEF Inv, Files
  <2>3. Len(out') + Len(buf') <= pos' /\ Len(buf') < WriteLen /\ Part(buf', Len(out'), Size)
    BY <1>2, <1>5, <2>1, <2>2, Lengths
  <2>4. Files'
    BY <1>2, <2>1, <2>2, <2>3, Instance DEF Inv, Files
  <2>5. limit >= Size =>
          window' >= Size - Len(out') /\ Len(out') + Len(buf') = pos' /\ pos' = Size
    BY <1>1, <1>2, <1>5, <1>6, <1>8, <2>1, <2>2, Lengths
  <2>6. Whole'
    BY <1>1, <1>3, <2>3, <2>5 DEF Whole
  <2>7. QED
    BY <1>3, <1>4, <2>4, <2>6 DEF Inv
<1>9. QED
  BY <1>7, <1>8

\* Steps that take no byte from the source and give none to the destination.
LEMMA OtherStep ==
  ASSUME Inv,
         \/ SendRaises \/ SendEof \/ SendWaitEof \/ SendClose \/ SendCloseFails
         \/ RecvOpen \/ RecvRaises \/ RecvEnd \/ RecvEndFails
         \/ PeerConsume \/ PeerEof \/ PeerClose \/ PeerSend \/ PeerEnd
  PROVE  Inv'
<1> USE DEF SendRaises, SendEof, SendWaitEof, SendClose, SendCloseFails, RecvOpen, RecvRaises, RecvEnd, RecvEndFails,
            PeerConsume, PeerEof, PeerClose, PeerSend, PeerEnd
<1>1. UNCHANGED <<dir, limit, buf, out>>
  OBVIOUS
<1>2. window' \in {window, limit} /\ chan' \in {"none", "open", "closed"}
      /\ peer' \in {"open", "eof", "closed"} /\ file' \in {"none", "open", "closed", "unclosed"}
      /\ times' \in [atime : Moments, mtime : Moments]
  <2>1. window' \in {window, limit} /\ chan' \in {chan, "open", "closed"} /\ peer' \in {peer, "eof", "closed"}
        /\ file' \in {file, "open", "closed", "unclosed"}
    OBVIOUS
  <2>2. times' \in {times, [atime |-> "mtime", mtime |-> "atime"]}
    BY DEF SetTimes
  <2>3. [atime |-> "mtime", mtime |-> "atime"] \in [atime : Moments, mtime : Moments]
    BY DEF Moments
  <2>4. QED
    BY <2>1, <2>2, <2>3 DEF Inv, Scalars
<1>3. Scalars'
  BY <1>1, <1>2, Lengths DEF Inv, Scalars
<1>4. Course'
  BY DEF Inv, Course, Scalars
<1>5. Files'
  <2>1. pos' \in 0 .. Size /\ pos <= pos' /\ (dir = "send" => pos' = pos /\ (pc' = "write" => pc = "write"))
    BY Lengths DEF Inv, Course
  <2>2. Len(out) + Len(buf) <= pos'
    BY <2>1, Lengths DEF Inv, Files
  <2>3. QED
    BY <1>1, <2>1, <2>2 DEF Inv, Files
<1>6. Whole'
  <2>1. ASSUME dir = "recv", pc' = "done" PROVE Len(out) = Size
    BY <2>1, Lengths DEF Inv, Course, Whole
  <2>2. ASSUME dir = "send", limit >= Size, pc' \in {"start", "write"}
        PROVE  window' >= Size - Len(out) /\ pc' = pc /\ pos' = pos
    BY <2>2, Lengths DEF Inv, Course, Whole
  <2>3. ASSUME dir = "send", limit >= Size, pc' \in {"eof", "closing", "done"} PROVE Len(out) = Size
    <3>1. CASE SendEof
      <4>1. Len(buf) = 0 /\ pc = "write"
        BY <3>1, NoPart DEF SendEof
      <4>2. QED
        BY <2>3, <4>1, Lengths DEF Inv, Whole
    <3>2. CASE ~SendEof
      BY <2>3, <3>2 DEF Inv, Course, Whole
    <3>3. QED
      BY <3>1, <3>2
  <2>4. QED
    BY <1>1, <2>1, <2>2, <2>3 DEF Inv, Whole
<1>7. QED
  BY <1>3, <1>4, <1>5, <1>6 DEF Inv

LEMMA RecvReadStep == Inv /\ RecvRead => Inv' /\ Len(out) <= Len(out')
<1> SUFFICES ASSUME Inv, RecvRead PROVE Inv' /\ Len(out) <= Len(out')
  OBVIOUS
<1>1. PICK n \in 1 .. Least(Wanted, pos - Len(out)) :
        out' = out \o SubSeq(File, Len(out) + 1, Len(out) + n)
  BY DEF RecvRead
<1>2. pc = "read" /\ UNCHANGED <<dir, pc, limit, window, buf, pos, peer, chan, file, times>>
  BY DEF RecvRead
<1>3. n \in Nat /\ Len(out) + n <= pos /\ Len(out) + n <= Size
  BY Lengths, Instance DEF Least, Wanted
<1>4. out' = Join(out, Cut(File, Len(out), n))
  BY <1>1 DEF Join, Cut
<1>5. Part(Cut(File, Len(out), n), Len(out), Size) /\ Len(Cut(File, Len(out), n)) = n
  BY <1>3, Lengths, PartOfFile
<1>6. Part(out', 0, Size) /\ Len(out') = Len(out) + n
  <2>1. Part(out, 0, Size) /\ 0 + Len(out) = Len(out)
    BY Lengths DEF Inv, Files
  <2>2. Part(Join(out, Cut(File, Len(out), n)), 0, Size)
        /\ Len(Join(out, Cut(File, Len(out), n))) = Len(out) + Len(Cut(File, Len(out), n))
    BY <1>5, <2>1, PartAppend
  <2>3. QED
    BY <1>4, <1>5, <2>2
<1>7. dir = "recv" /\ Course' /\ Scalars'
  BY <1>2 DEF Inv, Scalars, Course
<1>8. Files'
  <2>1. buf = <<>> /\ Len(buf) = 0 /\ Len(out') \in Nat
    BY <1>3, <1>6, <1>7, Lengths, NoPart DEF Inv, Course
  <2>2. Part(buf', Len(out'), Size) /\ Len(out') + Len(buf') <= pos'
    BY <1>2, <1>3, <1>6, <2>1, NoPart
  <2>3. QED
    BY <1>2, <1>6, <1>7, <2>2 DEF Inv, Files
<1>9. Whole'
  BY <1>2, <1>7 DEF Whole
<1>10. QED
  BY <1>3, <1>6, <1>7, <1>8, <1>9, Lengths DEF Inv

LEMMA InvStep == Inv /\ [Next]_vars => Inv'
<1> SUFFICES ASSUME Inv, [Next]_vars PROVE Inv'
  OBVIOUS
<1>1. CASE UNCHANGED vars
  BY <1>1 DEF vars, Inv, Scalars, Course, Files, Whole
<1>2. CASE Next
  BY <1>2, SendOpenStep, SendWriteStep, RecvReadStep, OtherStep DEF Next, Program, Failure, Peer
<1>3. QED
  BY <1>1, <1>2

LEMMA InvAlways == Spec => []Inv
BY InvInit, InvStep, PTL DEF Spec

-----------------------------------------------------------------------------
(* What follows of every transfer *)

\* Positions and windows stay in their range, whatever the peer grants, sends or ends.
THEOREM TypeCorrect == Spec => []TypeOK
<1>1. Inv => TypeOK
  BY DEF Inv, Scalars, Course, Files, Part, Moments, TypeOK
<1>2. QED
  BY <1>1, InvAlways, PTL

\* scp_recv_file returns with the whole file; scp_send_file does when its window takes every chunk.
THEOREM DoneCompleteCorrect == Spec => []DoneComplete
<1>1. Inv => DoneComplete
  <2> SUFFICES ASSUME Inv, pc = "done", dir = "recv" \/ limit >= Size PROVE out = File
    BY DEF DoneComplete
  <2>1. Len(out) = Size /\ Part(out, 0, Size)
    BY DEF Inv, Scalars, Files, Whole
  <2>2. QED
    BY <2>1, WholeFile, PartUnique
<1>2. QED
  BY <1>1, InvAlways, PTL

\* scp_recv_file ends with the local file closed and the channel closed, but for the two ways out that
\* the code has before its channel_close: the open() outside of the try, and an f.close() that raises.
THEOREM RecvClosesCorrect == Spec => []RecvCloses
<1>1. Inv => RecvCloses
  BY DEF Inv, Course, RecvCloses
<1>2. QED
  BY <1>1, InvAlways, PTL

-----------------------------------------------------------------------------
(* The refinement *)

Over == {"done", "raised"}

\* The destination only grows, and only before the call is over.
LEMMA OutGrows == Inv /\ Next => pc \notin Over /\ Len(out) <= Len(out')
<1> SUFFICES ASSUME Inv, Next PROVE pc \notin Over /\ Len(out) <= Len(out')
  OBVIOUS
<1> USE DEF Next, Program, Failure, Peer, SendOpen, SendEof, SendWaitEof, SendClose, SendCloseFails, SendRaises,
            RecvOpen, RecvRaises, RecvEnd, RecvEndFails, PeerConsume, PeerEof, PeerClose, PeerSend, PeerEnd
<1>1. pc \notin Over
  BY DEF Over, SendWrite, RecvRead
<1>2. CASE SendWrite
  BY <1>1, <1>2, WriteSends, Lengths
<1>3. CASE RecvRead
  BY <1>1, <1>3, RecvReadStep
<1>4. CASE ~SendWrite /\ ~RecvRead
  <2>1. out' = out
    BY <1>4
  <2>2. QED
    BY <1>1, <2>1, Lengths
<1>5. QED
  BY <1>2, <1>3, <1>4

\* scp_send_file and scp_recv_file are copies: what arrives are the bytes of the file in their order,
\* though a byte of a chunk is lost after a partial write, and none after the call.
THEOREM CopyRefinement == Spec => IsCopy
<1> DEFINE state == CASE pc = "done" -> "returned" [] pc = "raised" -> pc [] OTHER -> "working"
<1>1. Init => Copies!Init
  BY DEF Init, Copies!Init
<1>2. ASSUME Inv, Inv', [Next]_vars PROVE [Copies!Next]_<<out, state>>
  <2>1. CASE UNCHANGED vars
    BY <2>1 DEF vars
  <2>2. CASE Next
    <3>1. state = "working" /\ Len(out) <= Len(out')
      BY <1>2, <2>2, OutGrows DEF Over
    <3>2. /\ Len(out) \in Nat /\ Len(out') \in 0 .. Size
          /\ out' = SubSeq(Copies!Source, 1, Len(out'))
      BY <1>2, PartIsShort, PartIsCopied DEF Inv, Files
    <3>3. CASE pc' \in Over
      <4>1. Len(out') \in Len(out) .. Size
        BY <3>1, <3>2
      <4>2. state' \in {"returned", "raised"}
        BY <3>3 DEF Over
      <4>3. Copies!End
        BY <3>1, <3>2, <4>1, <4>2, Zenon DEF Copies!End
      <4>4. QED
        BY <4>3 DEF Copies!Next
    <3>4. CASE pc' \notin Over /\ Len(out') = Len(out)
      <4>1. out' = out
        BY <1>2, <3>4, PartUnique DEF Inv, Files
      <4>2. QED
        BY <3>1, <3>4, <4>1 DEF Over
    <3>5. CASE pc' \notin Over /\ Len(out') # Len(out)
      <4>1. Len(out') \in Len(out) + 1 .. Size /\ state' = state
        BY <3>1, <3>2, <3>5 DEF Over
      <4>2. Copies!Extend
        BY <3>1, <3>2, <4>1, Zenon DEF Copies!Extend
      <4>3. QED
        BY <4>2 DEF Copies!Next
    <3>6. QED
      BY <3>3, <3>4, <3>5
  <2>3. QED
    BY <1>2, <2>1, <2>2
<1>3. QED
  BY <1>1, <1>2, InvAlways, PTL DEF Spec, IsCopy, Copies!Spec
=============================================================================
