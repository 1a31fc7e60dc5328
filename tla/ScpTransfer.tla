----------------------------- MODULE ScpTransfer -----------------------------
(***************************************************************************)
(* Session.scp_send_file and Session.scp_recv_file, the helpers that copy a *)
(* file through an SCP channel, with the peer at the other end of the       *)
(* channel. A file is the sequence of its bytes, numbered; chunk sizes and  *)
(* the window of the channel are small constants.                           *)
(***************************************************************************)
EXTENDS Naturals, Sequences

CONSTANTS
  Size,       \* length of the file
  WriteLen,   \* write_len of scp_send_file
  ReadLen,    \* read_len of scp_recv_file
  Windows,    \* windows a peer may grant the channel
  PeerDies    \* the peer may end the channel before it sent the whole file

ASSUME Instance == /\ Size \in Nat /\ WriteLen \in Nat \ {0} /\ ReadLen \in Nat \ {0}
                   /\ Windows \subseteq Nat \ {0} /\ PeerDies \in BOOLEAN

VARIABLES
  dir,     \* the helper that runs: "send" or "recv"
  pc,      \* "start"; in its loop: "write", "read"; in wait_eof: "eof", in wait_closed: "closing";
           \* "done", "raised"
  limit,   \* the window of the channel when the peer has consumed everything
  window,  \* bytes the peer accepts now
  buf,     \* the chunk being sent
  pos,     \* bytes taken from the source: by the program that sends, or by the peer
  peer,    \* what the peer has said of the channel: "open", "eof", "closed"
  out,     \* the bytes written to the destination
  chan,    \* the channel: "none", "open", "closed"
  file,    \* the local file scp_recv_file writes: "none", "open", "closed", "unclosed" when close() raised
  times    \* what the destination got as its access and modification time

vars == <<dir, pc, limit, window, buf, pos, peer, out, chan, file, times>>

File == [i \in 1 .. Size |-> i]
Least(a, b) == IF a < b THEN a ELSE b
Chunk(from, len) == SubSeq(File, from + 1, Least(from + len, Size))
NoTimes == [atime |-> "now", mtime |-> "now"]

Init ==
  /\ dir \in {"send", "recv"} /\ pc = "start"
  /\ limit \in Windows /\ window = limit
  /\ buf = <<>> /\ pos = 0 /\ peer = "open" /\ out = <<>>
  /\ chan = "none" /\ file = "none" /\ times = NoTimes

\* Any native call may fail: the exception leaves scp_send_file, and the channel stays open.
SendRaises ==
  /\ dir = "send" /\ pc \in {"start", "write", "eof"} /\ pc' = "raised"
  /\ UNCHANGED <<dir, limit, window, buf, pos, peer, out, chan, file, times>>

\* scp_send tells the peer the size and the times; then the first f.read(write_len).
SendOpen ==
  /\ dir = "send" /\ pc = "start" /\ pc' = "write"
  /\ chan' = "open"
  /\ times' = [atime |-> "atime", mtime |-> "mtime"]
  /\ buf' = Chunk(0, WriteLen) /\ pos' = Len(buf')
  /\ UNCHANGED <<dir, limit, window, peer, out, file>>

Written == Least(window, Len(buf))    \* libssh2_channel_write sends what fits in the window

\* Variant: the bytes sent are not taken off.
RestUncut(written) == SubSeq(buf, 1, Len(buf) - 1)
\* buf[written:-1]
Rest(written) == SubSeq(buf, written + 1, Len(buf) - 1)

\* Variant: a chunk is sent again until it is accepted as a whole.
SendWhole ==
  /\ pc = "write" /\ buf # <<>> /\ Written = WriteLen
  /\ out' = out \o buf
  /\ window' = window - Written
  /\ buf' = Chunk(pos, WriteLen) /\ pos' = pos + Len(buf')
  /\ UNCHANGED <<dir, pc, limit, peer, chan, file, times>>

SendWrite ==
  /\ pc = "write" /\ buf # <<>> /\ Written > 0    \* written == 0: the same call again
  /\ out' = out \o SubSeq(buf, 1, Written)
  /\ window' = window - Written
  /\ IF Written = WriteLen
       THEN buf' = Chunk(pos, WriteLen) /\ pos' = pos + Len(buf')
       ELSE buf' = Rest(Written) /\ UNCHANGED pos
  /\ UNCHANGED <<dir, pc, limit, peer, chan, file, times>>

\* flush and send_eof
SendEof ==
  /\ pc = "write" /\ buf = <<>> /\ pc' = "eof"
  /\ UNCHANGED <<dir, limit, window, buf, pos, peer, out, chan, file, times>>

\* wait_eof
SendWaitEof ==
  /\ pc = "eof" /\ peer # "open" /\ pc' = "closing"
  /\ UNCHANGED <<dir, limit, window, buf, pos, peer, out, chan, file, times>>

\* wait_closed and channel_close
SendClose ==
  /\ pc = "closing" /\ peer = "closed" /\ pc' = "done"
  /\ chan' = "closed"
  /\ UNCHANGED <<dir, limit, window, buf, pos, peer, out, file, times>>

\* An exception of wait_closed is printed, and skips the close.
SendCloseFails ==
  /\ pc = "closing" /\ pc' = "done"
  /\ UNCHANGED <<dir, limit, window, buf, pos, peer, out, chan, file, times>>

\* The peer ends its side when it has the end of the other, or when it gives up.
PeerEof ==
  /\ peer = "open" /\ (pc = "eof" \/ (pc = "write" /\ PeerDies)) /\ peer' = "eof"
  /\ UNCHANGED <<dir, pc, limit, window, buf, pos, out, chan, file, times>>

PeerClose ==
  /\ peer = "eof" /\ pc \in {"eof", "closing"} /\ peer' = "closed"
  /\ UNCHANGED <<dir, pc, limit, window, buf, pos, out, chan, file, times>>

PeerConsume ==
  /\ pc = "write" /\ window < limit /\ window' = limit
  /\ UNCHANGED <<dir, pc, limit, buf, pos, peer, out, chan, file, times>>

-----------------------------------------------------------------------------
\* scp_recv, then open(out_file_path, "wb"), which is outside of the try: when it fails, the channel stays.
RecvOpen ==
  /\ dir = "recv" /\ pc = "start"
  /\ \/ pc' = "read" /\ chan' = "open" /\ file' = "open"
     \/ pc' = "raised" /\ UNCHANGED <<chan, file>>
     \/ pc' = "raised" /\ chan' = "open" /\ UNCHANGED file
  /\ UNCHANGED <<dir, limit, window, buf, pos, peer, out, times>>

PeerSend ==
  /\ pc = "read" /\ peer = "open" /\ pos < Size /\ pos' = pos + 1
  /\ UNCHANGED <<dir, pc, limit, window, buf, peer, out, chan, file, times>>

PeerEnd ==
  /\ pc = "read" /\ peer = "open" /\ (pos = Size \/ PeerDies) /\ peer' = "eof"
  /\ UNCHANGED <<dir, pc, limit, window, buf, pos, out, chan, file, times>>

Wanted == Least(ReadLen, Size - Len(out))

\* channel.read(min(read_len, file_size - got)): it waits for a first byte, and returns "" at the
\* end of the channel, upon which the loop goes round unchanged.
RecvRead ==
  /\ pc = "read" /\ Len(out) < Size
  /\ \E n \in 1 .. Least(Wanted, pos - Len(out)) : out' = out \o SubSeq(File, Len(out) + 1, Len(out) + n)
  /\ UNCHANGED <<dir, pc, limit, window, buf, pos, peer, chan, file, times>>

\* Variant: the except branch leaves the channel to the session.
RecvRaisesOpen ==
  /\ pc = "read" /\ Len(out) < Size /\ pc' = "raised"
  /\ file' = "closed"
  /\ UNCHANGED <<dir, limit, window, buf, pos, peer, out, chan, times>>

\* The except branch: the file and the channel are closed and the exception goes on; another one, of
\* f.close(), takes its place before the channel is closed.
RecvRaises ==
  /\ pc = "read" /\ Len(out) < Size /\ pc' = "raised"
  /\ \/ file' = "closed" /\ chan' = "closed"
     \/ file' = "unclosed" /\ UNCHANGED chan
  /\ UNCHANGED <<dir, limit, window, buf, pos, peer, out, times>>

\* Variant: one byte short.
RecvEndEarly ==
  /\ pc = "read" /\ Len(out) + 1 >= Size /\ pc' = "done"
  /\ chan' = "closed" /\ file' = "closed" /\ times' = NoTimes
  /\ UNCHANGED <<dir, limit, window, buf, pos, peer, out>>

\* Variant: the time of the last change of the remote inode.
ChangeTime(first, second) == times' = [atime |-> first, mtime |-> "ctime"]

\* os.utime takes the access time first.
SetTimes(first, second) == times' = [atime |-> first, mtime |-> second]

RecvEnd ==
  /\ pc = "read" /\ Len(out) >= Size /\ pc' = "done"
  /\ chan' = "closed" /\ file' = "closed"
  /\ SetTimes("mtime", "atime")
  /\ UNCHANGED <<dir, limit, window, buf, pos, peer, out>>

\* f.close(), os.chmod or os.utime raises, with the channel closed.
RecvEndFails ==
  /\ pc = "read" /\ Len(out) >= Size /\ pc' = "raised"
  /\ chan' = "closed" /\ file' \in {"closed", "unclosed"}
  /\ UNCHANGED <<dir, limit, window, buf, pos, peer, out, times>>

-----------------------------------------------------------------------------
Program == SendOpen \/ SendWrite \/ SendEof \/ SendWaitEof \/ SendClose \/ RecvOpen \/ RecvRead \/ RecvEnd
Failure == SendRaises \/ SendCloseFails \/ RecvRaises \/ RecvEndFails
Peer    == PeerConsume \/ PeerEof \/ PeerClose \/ PeerSend \/ PeerEnd
Next    == Program \/ Failure \/ Peer
Spec    == Init /\ [][Next]_vars
\* The program runs, and the peer reads what it is sent, answers the end of the channel with its own and
\* with a close, and sends what it announced.
FairSpec ==
  /\ Spec /\ WF_vars(Program)
  /\ WF_vars(PeerConsume) /\ WF_vars(PeerEof) /\ WF_vars(PeerClose) /\ WF_vars(PeerSend)

-----------------------------------------------------------------------------
(* Correctness *)

TypeOK ==
  /\ dir \in {"send", "recv"} /\ pc \in {"start", "write", "eof", "read", "closing", "done", "raised"}
  /\ limit \in Windows /\ window \in 0 .. limit
  /\ buf \in Seq(1 .. Size) /\ out \in Seq(1 .. Size) /\ pos \in 0 .. Size
  /\ peer \in {"open", "eof", "closed"} /\ chan \in {"none", "open", "closed"}
  /\ file \in {"none", "open", "closed", "unclosed"}
  /\ times \in [atime : {"now", "atime", "mtime"}, mtime : {"now", "atime", "mtime"}]

\* Both helpers are copies: what has arrived is always a beginning of the file, without a byte
\* skipped, repeated or reordered, though scp_send_file loses a byte of the chunk after a write that
\* was only partly accepted; it only grows, and is left alone when the call is over.
Copies == INSTANCE FileCopy WITH state <- CASE pc = "done" -> "returned" [] pc = "raised" -> pc
                                            [] OTHER -> "working"
IsCopy == Copies!Spec

\* A received file that is reported complete is complete; so is a sent one when the window takes
\* every chunk whole.
DoneComplete == (pc = "done" /\ (dir = "recv" \/ limit >= Size)) => out = File

\* However scp_recv_file ends, the local file is not left open, and the channel only when the local file
\* could not be opened, which is not in the try, or not be closed in the except branch, before the channel.
RecvCloses ==
  (dir = "recv" /\ pc \in {"done", "raised"}) =>
    /\ file # "open"
    /\ chan = "open" => pc = "raised" /\ file \in {"none", "unclosed"}

\* A copy ends if the peer keeps reading and ends the channel after the program, or sends all it announced.
CopyEnds == (pc \in {"write", "eof", "closing", "read"}) ~> (pc \in {"done", "raised"})

\* scp_send_file sends the whole file.
ContentSent == (dir = "send" /\ pc = "done") => out = File
=============================================================================
