------------------------------ MODULE SftpFiles ------------------------------
(***************************************************************************)
(* The helpers of libssh2/sftp.py and sftpfile.py that copy a file: get,    *)
(* put, copy_file and read(-1), down to the flags of the open request and   *)
(* the results of the native reads and writes; and open_file by itself,     *)
(* with every mode. A file is the sequence of its bytes, numbered; the      *)
(* sizes of the buffers are small constants.                                *)
(***************************************************************************)
EXTENDS Naturals, Sequences

CONSTANTS
  Size,     \* bound: length of the source
  Buffer,   \* BUFFER_SIZE of get and put (4096)
  Piece,    \* what read(-1) asks for at a time (1024)
  Packet    \* a write no longer than this is taken as a whole by libssh2 (30000)

ASSUME Instance == /\ Size \in Nat /\ Buffer \in Nat \ {0} /\ Piece \in Nat \ {0}
                   /\ Packet \in Nat /\ Buffer <= Packet

VARIABLES
  op,      \* "get", "put", "copy", "read", "open"
  mode,    \* the characters of the mode the destination is opened with
  same,    \* copy_file: both paths are the same file
  pc,      \* "start", "opened"; "read", "write" in the loop; "closing", "returned", "raised"
  file,    \* what is in the source when the call begins
  src,     \* what is in the source file
  off,     \* offset in the source
  buf,     \* bytes read and not yet written
  out,     \* bytes the destination took, or the result of read(-1) so far
  former,  \* the destination was there before the call, and what was in it still is
  held,    \* the remote files the call has open
  failed   \* history: an error of a read was taken for the end of the file

vars == <<op, mode, same, pc, file, src, off, buf, out, former, held, failed>>

Chars == {"a", "w", "r", "+", "x"}
Least(a, b) == IF a < b THEN a ELSE b

Init ==
  /\ op \in {"get", "put", "copy", "read", "open"}
  /\ mode \in IF op = "open" THEN SUBSET Chars ELSE {{"w"}}
  /\ same \in IF op = "copy" THEN BOOLEAN ELSE {FALSE}
  /\ former \in IF same THEN {TRUE} ELSE IF op = "read" THEN {FALSE} ELSE BOOLEAN
  /\ pc = CASE op = "read" -> "read" [] op = "open" -> "opened" [] OTHER -> "start"
  /\ \E n \in 0 .. Size : file = [i \in 1 .. n |-> i]
  /\ src = file /\ off = 0 /\ buf = <<>> /\ out = <<>>
  /\ held = {} /\ failed = FALSE

-----------------------------------------------------------------------------
(* Opening *)

\* Variant: "w" does not truncate.
FlagsKeep(chars) ==
  (IF "a" \in chars THEN {"APPEND"} ELSE {})
    \cup (IF "w" \in chars THEN {"WRITE", "CREAT"} ELSE {})
    \cup (IF "r" \in chars THEN {"READ"} ELSE {})
    \cup (IF "+" \in chars THEN {"READ", "WRITE"} ELSE {})
    \cup (IF "x" \in chars THEN {"WRITE", "TRUNC", "EXCL", "CREAT"} ELSE {})

\* get_flags: the flags of every character that is in the mode.
Flags(chars) ==
  (IF "a" \in chars THEN {"APPEND"} ELSE {})
    \cup (IF "w" \in chars THEN {"WRITE", "TRUNC", "CREAT"} ELSE {})
    \cup (IF "r" \in chars THEN {"READ"} ELSE {})
    \cup (IF "+" \in chars THEN {"READ", "WRITE"} ELSE {})
    \cup (IF "x" \in chars THEN {"WRITE", "TRUNC", "EXCL", "CREAT"} ELSE {})

OpenSource ==
  /\ pc = "start"
  /\ \/ pc' = "opened" /\ held' = IF op \in {"get", "copy"} THEN {"src"} ELSE {}
     \/ pc' = "raised" /\ UNCHANGED held
  /\ UNCHANGED <<op, mode, same, file, src, off, buf, out, former, failed>>

\* The server makes a file that is not there only when asked to, and may refuse anything. The
\* destination of get is a local file, opened by Python with the same meaning of "w".
OpenDestination ==
  /\ pc = "opened"
  /\ \/ /\ pc' = IF op = "open" THEN "returned" ELSE "read"
        /\ IF former THEN "EXCL" \notin Flags(mode) ELSE "CREAT" \in Flags(mode)
        /\ held' = held \cup (IF op = "get" THEN {} ELSE {"dst"})
        /\ former' = (former /\ "TRUNC" \notin Flags(mode))
        /\ src' = IF same /\ "TRUNC" \in Flags(mode) THEN <<>> ELSE src
     \/ pc' = "raised" /\ UNCHANGED <<held, former, src>>
  /\ UNCHANGED <<op, mode, same, file, off, buf, out, failed>>

-----------------------------------------------------------------------------
(* Reading *)

Left     == Len(src) - off
Take(n)  == SubSeq(src, off + 1, off + n)

\* Variant: read(-1) waits for more.
ReadOn == IF op = "copy" THEN "write" ELSE IF op = "read" THEN "read" ELSE "closing"

\* What follows the end of the file.
ReadOver == IF op = "read" THEN "returned" ELSE IF op = "copy" THEN "write" ELSE "closing"

\* Variant: the offset moves by what was asked for.
ReadAsked ==
  /\ pc = "read" /\ Left > 0
  /\ \E n \in 1 .. Least(Left, Piece) :
       /\ off' = off + Piece
       /\ IF op = "read" THEN out' = out \o Take(n) /\ UNCHANGED buf
                         ELSE buf' = buf \o Take(n) /\ UNCHANGED out
  /\ pc' = IF op \in {"get", "put"} THEN "write" ELSE "read"
  /\ UNCHANGED <<op, mode, same, file, src, former, held, failed>>

\* Variant: a piece shorter than asked for is the last.
ReadUntilShort ==
  /\ pc = "read" /\ Left > 0
  /\ \E n \in 1 .. Least(Left, Piece) :
       /\ off' = off + n
       /\ IF op = "read" THEN out' = out \o Take(n) /\ UNCHANGED buf
                         ELSE buf' = buf \o Take(n) /\ UNCHANGED out
       /\ pc' = IF op \in {"get", "put"} THEN "write" ELSE IF n < Piece THEN ReadOver ELSE "read"
  /\ UNCHANGED <<op, mode, same, file, src, former, held, failed>>

\* libssh2_sftp_read returns at least a byte of what is left; file.read(BUFFER_SIZE) as much as it can.
\* get and put write what they read; read(-1) goes on reading.
ReadSome ==
  /\ pc = "read" /\ Left > 0
  /\ \E n \in 1 .. Least(Left, IF op \in {"get", "put"} THEN Buffer ELSE Piece) :
       /\ op = "put" => n = Least(Left, Buffer)
       /\ off' = off + n
       /\ IF op = "read" THEN out' = out \o Take(n) /\ UNCHANGED buf
                         ELSE buf' = buf \o Take(n) /\ UNCHANGED out
  /\ pc' = IF op \in {"get", "put"} THEN "write" ELSE "read"
  /\ UNCHANGED <<op, mode, same, file, src, former, held, failed>>

ReadEnd ==
  /\ pc = "read" /\ Left = 0 /\ pc' = ReadOver
  /\ UNCHANGED <<op, mode, same, file, src, off, buf, out, former, held, failed>>

\* Sftpfile.read returns None for an error, which ends the loop as "" does; the local file of put raises.
ReadFails ==
  /\ pc = "read"
  /\ IF op = "put" THEN pc' = "raised" /\ UNCHANGED failed ELSE pc' = ReadOver /\ failed' = TRUE
  /\ UNCHANGED <<op, mode, same, file, src, off, buf, out, former, held>>

-----------------------------------------------------------------------------
(* Writing *)

\* Variant: the chunk is kept and written again.
WriteAgain(n) == out' = out \o SubSeq(buf, 1, n) /\ UNCHANGED buf

Write(n) == out' = out \o SubSeq(buf, 1, n) /\ buf' = <<>>

\* The result of a remote write, how many bytes were taken, is not looked at.
WriteDone ==
  /\ pc = "write"
  /\ \E n \in 0 .. Len(buf) : Write(n) /\ n >= IF op = "get" THEN Len(buf) ELSE Least(Len(buf), Packet)
  /\ pc' = IF op = "copy" THEN "closing" ELSE "read"
  /\ UNCHANGED <<op, mode, same, file, src, off, former, held, failed>>

\* An exception, after none or some of the bytes: nothing is closed.
WriteFails ==
  /\ pc = "write" /\ pc' = "raised"
  /\ \E n \in 0 .. Len(buf) : Write(n)
  /\ UNCHANGED <<op, mode, same, file, src, off, former, held, failed>>

-----------------------------------------------------------------------------
(* Closing *)

\* Variant: get forgets its remote file.
CloseLocal ==
  /\ pc = "closing" /\ pc' = "returned"
  /\ held' = IF op = "get" THEN held ELSE {}
  /\ UNCHANGED <<op, mode, same, file, src, off, buf, out, former, failed>>

Close ==
  /\ pc = "closing" /\ pc' = "returned"
  /\ held' = {}
  /\ UNCHANGED <<op, mode, same, file, src, off, buf, out, former, failed>>

\* get closes its local file first, which may fail to write the last bytes it took.
CloseFails ==
  /\ pc = "closing" /\ op = "get" /\ pc' = "raised"
  /\ UNCHANGED <<op, mode, same, file, src, off, buf, out, former, held, failed>>

-----------------------------------------------------------------------------
Program == OpenSource \/ OpenDestination \/ ReadSome \/ ReadEnd \/ ReadFails
             \/ WriteDone \/ WriteFails \/ Close \/ CloseFails
Next == Program
Spec == Init /\ [][Next]_vars
\* Every read, write and close comes to an end.
FairSpec == Spec /\ WF_vars(Program)

-----------------------------------------------------------------------------
(* Correctness *)

TypeOK ==
  /\ op \in {"get", "put", "copy", "read", "open"} /\ mode \subseteq Chars /\ same \in BOOLEAN
  /\ pc \in {"start", "opened", "read", "write", "closing", "returned", "raised"}
  /\ file \in Seq(1 .. Size) /\ src \in {file, <<>>} /\ off \in 0 .. Size
  /\ buf \in Seq(1 .. Size) /\ out \in Seq(1 .. Size)
  /\ former \in BOOLEAN /\ held \subseteq {"src", "dst"} /\ failed \in BOOLEAN

\* Every one of the four is a copy: no byte is skipped, repeated or reordered, and nothing is
\* written after the call.
Copies == INSTANCE FileCopy WITH state <- IF pc \in {"returned", "raised"} THEN pc ELSE "working"
IsCopy == Copies!Spec

\* A copy that returned is complete, unless a read failed on the way, which none of them reports,
\* or copy_file wrote more than one packet at once or copied a file onto itself.
WholeUnlessFailed ==
  (pc = "returned" /\ op # "open" /\ ~failed /\ ~same /\ (op = "copy" => Len(file) <= Packet)) => out = file

\* A copy that returned left nothing of the former destination behind its own bytes, and no remote
\* file open; copy_file of a file onto itself empties it, all others leave their source alone.
LeavesNothing ==
  /\ pc = "returned" /\ op # "open" => ~former /\ held = {}
  /\ ~same => src = file

\* get, put, copy_file and read(-1) end, also when the session is lost.
CopyEnds == <>(pc \in {"returned", "raised"})

\* open_file with "r", "w", "r+" and "w+" does what open() of Python does: only the "w" modes make
\* a file and empty one that was there, and the file can be read and written as the mode says.
OpensAsPython ==
  (op = "open" /\ mode \in {{"r"}, {"w"}, {"r", "+"}, {"w", "+"}}) =>
    /\ "READ" \in Flags(mode) <=> mode # {"w"}
    /\ "WRITE" \in Flags(mode) <=> mode # {"r"}
    /\ pc = "returned" => (former <=> "w" \notin mode)
=============================================================================
