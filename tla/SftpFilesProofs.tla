--------------------------- MODULE SftpFilesProofs ---------------------------
(* The copies of the SFTP helpers, for files, buffers and packets of any size. *)
EXTENDS SftpFiles, FileParts

LEMMA SizeIsNat == Size \in Nat
BY Instance

USE SizeIsNat

\* What the abstract specification calls a beginning of its source.
LEMMA PartIsCopied ==
  ASSUME NEW s, Part(s, 0, Size)
  PROVE  Len(s) \in 0 .. Size /\ s = SubSeq(Copies!Source, 1, Len(s))
<1>1. Len(s) \in 0 .. Size
  BY PartIsShort, Instance
<1>2. Copies!Source \in Seq(1 .. Size) /\ Len(Copies!Source) = Size
  BY Instance DEF Copies!Source
<1>3. Part(Copies!Source, 0, Size)
  BY <1>2, Instance DEF Part, Copies!Source
<1>4. Part(SubSeq(Copies!Source, 1, Len(s)), 0, Size) /\ Len(SubSeq(Copies!Source, 1, Len(s))) = Len(s)
  BY <1>1, <1>2, <1>3, BeginningOfPart
<1>5. QED
  BY <1>1, <1>4, PartUnique

-----------------------------------------------------------------------------
(* The invariant *)

Ops    == {"get", "put", "copy", "read", "open"}
Places == {"start", "opened", "read", "write", "closing", "returned", "raised"}

Scalars ==
  /\ op \in Ops /\ mode \subseteq Chars /\ same \in BOOLEAN /\ pc \in Places
  /\ former \in BOOLEAN /\ held \subseteq {"src", "dst"} /\ failed \in BOOLEAN

\* Which call gets where, and what it has done to the destination and to a source that is the same file.
Course ==
  /\ op # "open" => mode = {"w"}
  /\ same => op = "copy"
  /\ op = "open" => pc \in {"opened", "returned", "raised"}
  /\ op = "read" => pc \in {"read", "returned", "raised"} /\ held = {} /\ ~former
  /\ pc = "write" => op # "read"
  /\ pc = "returned" /\ op # "open" => held = {}
  /\ pc \in {"read", "write", "closing", "returned"} /\ op # "open" => ~former
  /\ pc = "returned" /\ op = "open" =>
       /\ "TRUNC" \in Flags(mode) => ~former
       /\ ~former => {"TRUNC", "CREAT"} \cap Flags(mode) # {}

\* Files, and how far a call is in its source.
Files ==
  /\ Part(file, 0, Size) /\ src \in {file, <<>>} /\ (~same => src = file)
  /\ off \in Nat /\ off <= Len(src)
  /\ Part(out, 0, Size) /\ Part(buf, Len(out), Size)
  /\ pc \in {"start", "opened"} => off = 0 /\ buf = <<>> /\ out = <<>>
  /\ pc \in {"read", "write"} => Len(out) + Len(buf) = off
  /\ pc \in {"closing", "returned", "raised"} \/ (pc = "read" /\ op # "copy") => buf = <<>>
  /\ op \in {"get", "put"} => Len(buf) <= Buffer
  /\ op = "copy" /\ pc \in {"read", "write"} => out = <<>>

\* When a call has the whole of its source.
Whole ==
  /\ op = "copy" /\ pc = "write" /\ ~failed => off = Len(src)
  /\ (pc \in {"closing", "returned"} /\ op # "open" /\ ~failed /\ ~same /\ (op = "copy" => Len(file) <= Packet))
       => Len(out) = Len(file)

Inv == Scalars /\ Course /\ Files /\ Whole

LEMMA InvInit == Init => Inv
<1> SUFFICES ASSUME Init PROVE Inv
  OBVIOUS
<1>1. PICK n \in 0 .. Size : file = [i \in 1 .. n |-> i]
  BY DEF Init
<1>2. Part(file, 0, Size) /\ Len(file) = n
  <2>1. file \in Seq(1 .. Size) /\ Len(file) = n
    BY <1>1
  <2>2. \A i \in 1 .. n : file[i] = 0 + i
    BY <1>1
  <2>3. QED
    BY <2>1, <2>2 DEF Part
<1>3. Part(<<>>, 0, Size) /\ Len(<<>>) = 0
  BY NoPart
<1>4. Scalars
  BY DEF Init, Scalars, Ops, Places, Chars
<1>5. Course
  BY DEF Init, Course
<1>6. Files
  BY <1>2, <1>3, Instance DEF Init, Files
<1>7. Whole
  BY DEF Init, Whole
<1>8. QED
  BY <1>4, <1>5, <1>6, <1>7 DEF Inv


-----------------------------------------------------------------------------
(* Its steps *)

LEMMA WriteFlags == {"TRUNC", "CREAT", "WRITE"} \subseteq Flags({"w"}) /\ "EXCL" \notin Flags({"w"})
BY DEF Flags

LEMMA OpenSourceStep == Inv /\ OpenSource => Inv'
<1> SUFFICES ASSUME Inv, OpenSource PROVE Inv'
  OBVIOUS
<1>1. Scalars'
  BY DEF Inv, Scalars, OpenSource, Places
<1>2. Course'
  BY DEF Inv, Course, OpenSource
<1>3. Files'
  BY DEF Inv, Files, OpenSource
<1>4. Whole'
  BY DEF Inv, Whole, OpenSource
<1>5. QED
  BY <1>1, <1>2, <1>3, <1>4 DEF Inv

\* Emptying the destination empties a source that is the same file, of which nothing has been read.
LEMMA OpenDestinationStep == Inv /\ OpenDestination => Inv'
<1> SUFFICES ASSUME Inv, OpenDestination PROVE Inv'
  OBVIOUS
<1>1. CASE pc' = "raised" /\ UNCHANGED <<op, mode, same, file, src, off, buf, out, held, former, failed>>
  <2>1. Scalars' /\ Course' /\ Files' /\ Whole'
    BY <1>1 DEF Inv, Scalars, Course, Files, Whole, Places, OpenDestination
  <2>2. QED
    BY <2>1 DEF Inv
<1>2. CASE /\ pc' = IF op = "open" THEN "returned" ELSE "read"
           /\ IF former THEN "EXCL" \notin Flags(mode) ELSE "CREAT" \in Flags(mode)
           /\ held' = held \cup (IF op = "get" THEN {} ELSE {"dst"})
           /\ former' = (former /\ "TRUNC" \notin Flags(mode))
           /\ src' = IF same /\ "TRUNC" \in Flags(mode) THEN <<>> ELSE src
           /\ UNCHANGED <<op, mode, same, file, off, buf, out, failed>>
  <2>1. pc = "opened"
    BY DEF OpenDestination
  <2>2. Scalars'
    BY <1>2 DEF Inv, Scalars, Places
  <2>3. op # "read" /\ (op # "open" => "TRUNC" \in Flags(mode))
    BY <2>1, WriteFlags DEF Inv, Course
  <2>4. Course'
    <3>1. pc' \in {"returned", "read"} /\ (pc' = "returned" <=> op = "open")
      BY <1>2
    <3>2. op # "open" => ~former'
      BY <1>2, <2>3
    <3>3. /\ op' # "open" => mode' = {"w"}
          /\ same' => op' = "copy"
          /\ op' = "open" => pc' \in {"opened", "returned", "raised"}
          /\ op' # "read" /\ pc' # "write"
      BY <1>2, <2>3, <3>1 DEF Inv, Course
    <3>4. /\ "TRUNC" \in Flags(mode)' => ~former'
          /\ ~former' => {"TRUNC", "CREAT"} \cap Flags(mode)' # {}
      <4>1. Flags(mode)' = Flags(mode)
        BY <1>2 DEF Flags
      <4>2. QED
        BY <1>2, <4>1
    <3>5. QED
      BY <1>2, <3>1, <3>2, <3>3, <3>4 DEF Course
  <2>5. Files'
    <3>1. off = 0 /\ buf = <<>> /\ out = <<>> /\ Part(<<>>, 0, Size) /\ Len(<<>>) = 0
      BY <2>1, NoPart DEF Inv, Files
    <3>2. same' = same /\ src' \in {file', <<>>} /\ (~same' => src' = file')
      BY <1>2 DEF Inv, Files
    <3>3. off' \in Nat /\ off' <= Len(src')
      BY <1>2, <3>1 DEF Inv, Files
    <3>4. QED
      BY <1>2, <3>1, <3>2, <3>3, Instance DEF Inv, Files
  <2>6. Whole'
    BY <1>2 DEF Whole
  <2>7. QED
    BY <2>2, <2>4, <2>5, <2>6 DEF Inv
<1>3. QED
  BY <1>1, <1>2 DEF OpenDestination

\* What is read continues what was read before.
LEMMA ReadSomeStep == Inv /\ ReadSome => Inv'
<1> SUFFICES ASSUME Inv, ReadSome PROVE Inv'
  OBVIOUS
<1>1. PICK n \in 1 .. Least(Left, IF op \in {"get", "put"} THEN Buffer ELSE Piece) :
        /\ off' = off + n
        /\ IF op = "read" THEN out' = out \o Take(n) /\ UNCHANGED buf
                          ELSE buf' = buf \o Take(n) /\ UNCHANGED out
  BY DEF ReadSome
<1>2. /\ pc = "read" /\ Left > 0 /\ pc' = (IF op \in {"get", "put"} THEN "write" ELSE "read")
      /\ UNCHANGED <<op, mode, same, file, src, former, held, failed>>
  BY DEF ReadSome
<1>3. Scalars'
  BY <1>2 DEF Inv, Scalars, Places
<1>4. op # "open" /\ Course'
  BY <1>2 DEF Inv, Course
<1>5. off \in Nat /\ off <= Len(src) /\ Part(out, 0, Size) /\ Part(buf, Len(out), Size) /\ Len(out) + Len(buf) = off
      /\ Len(out) \in Nat /\ Len(buf) \in Nat
  BY <1>2, PartIsShort DEF Inv, Files
<1>6. src = file /\ Part(src, 0, Size) /\ Len(src) \in Nat
  BY <1>2, <1>5, NoPart, PartIsShort DEF Inv, Files, Left
<1>7. n \in Nat /\ n > 0 /\ off + n <= Len(src) /\ (op \in {"get", "put"} => n <= Buffer)
  BY <1>2, <1>5, <1>6, Instance DEF Least, Left
<1>8. Part(Take(n), off, Size) /\ Len(Take(n)) = n
  <2>1. Take(n) = Cut(src, off, n) /\ 0 + off = off
    BY <1>5 DEF Take, Cut
  <2>2. Part(Cut(src, off, n), 0 + off, Size) /\ Len(Cut(src, off, n)) = n
    BY <1>5, <1>6, <1>7, PartOfPart
  <2>3. QED
    BY <2>1, <2>2
<1>9. CASE op = "read"
  <2>1. buf = <<>> /\ Len(buf) = 0 /\ Len(out) = off
    BY <1>2, <1>5, <1>9, NoPart DEF Inv, Files
  <2>2. 0 + Len(out) = off
    BY <2>1, <1>5
  <2>3. Part(out', 0, Size) /\ Len(out') = off'
    <3>1. out' = Join(out, Take(n)) /\ off' = off + n
      BY <1>1, <1>9 DEF Join
    <3>2. Part(Join(out, Take(n)), 0, Size) /\ Len(Join(out, Take(n))) = Len(out) + Len(Take(n))
      BY <1>5, <1>8, <2>2, PartAppend
    <3>3. QED
      BY <1>8, <2>1, <3>1, <3>2
  <2>4. Part(buf', Len(out'), Size)
    BY <1>1, <1>5, <1>7, <1>9, <2>1, <2>3, NoPart
  <2>5. Files'
    BY <1>1, <1>2, <1>5, <1>6, <1>7, <1>9, <2>1, <2>3, <2>4 DEF Inv, Files
  <2>6. Whole'
    BY <1>2, <1>9 DEF Whole
  <2>7. QED
    BY <1>3, <1>4, <2>5, <2>6 DEF Inv
<1>10. CASE op # "read"
  <2>1. Part(buf', Len(out), Size) /\ Len(buf') = Len(buf) + n /\ out' = out
    <3>1. buf' = Join(buf, Take(n)) /\ out' = out
      BY <1>1, <1>10 DEF Join
    <3>2. Part(Join(buf, Take(n)), Len(out), Size) /\ Len(Join(buf, Take(n))) = Len(buf) + Len(Take(n))
      BY <1>5, <1>8, PartAppend
    <3>3. QED
      BY <1>8, <3>1, <3>2
  <2>2. op \in {"get", "put"} => Len(buf) = 0
    BY <1>2, NoPart DEF Inv, Files
  <2>3. Files'
    <3>1. op \in {"get", "put"} \/ op = "copy"
      BY <1>4, <1>10 DEF Inv, Scalars, Ops
    <3>2. op \in {"get", "put"} => Len(buf') = n
      BY <1>7, <2>1, <2>2
    <3>3. Len(out') + Len(buf') = off' /\ off' \in Nat /\ off' <= Len(src')
      <4>1. off' = off + n /\ Len(out') = Len(out) /\ Len(buf') = Len(buf) + n /\ Len(src') = Len(src)
        BY <1>1, <1>2, <2>1, Zenon
      <4>2. QED
        BY ONLY <1>5, <1>7, <4>1
    <3>4. pc' \notin {"start", "opened", "closing", "returned", "raised"} /\ (pc' = "read" => op' = "copy")
      BY <1>2, <3>1
    <3>5. op' = "copy" => out' = <<>>
      BY <1>2, <2>1 DEF Inv, Files
    <3>6. op' \in {"get", "put"} => Len(buf') <= Buffer
      BY <1>2, <1>7, <3>2
    <3>7. /\ Part(file', 0, Size) /\ src' \in {file', <<>>} /\ (~same' => src' = file')
          /\ Part(out', 0, Size) /\ Part(buf', Len(out'), Size)
      BY <1>2, <1>5, <1>6, <2>1
    <3>8. QED
      BY <3>3, <3>4, <3>5, <3>6, <3>7 DEF Files
  <2>4. Whole'
    BY <1>2 DEF Whole
  <2>5. QED
    BY <1>3, <1>4, <2>3, <2>4 DEF Inv
<1>11. QED
  BY <1>9, <1>10

LEMMA ReadEndStep == Inv /\ ReadEnd => Inv'
<1> SUFFICES ASSUME Inv, ReadEnd PROVE Inv'
  OBVIOUS
<1>1. /\ pc = "read" /\ Left = 0 /\ pc' = ReadOver
      /\ UNCHANGED <<op, mode, same, file, src, off, buf, out, former, held, failed>>
  BY DEF ReadEnd
<1>2. op # "open" /\ pc' = IF op = "read" THEN "returned" ELSE IF op = "copy" THEN "write" ELSE "closing"
  BY <1>1 DEF ReadOver, Inv, Course
<1>3. Scalars' /\ Course'
  BY <1>1, <1>2 DEF Inv, Scalars, Places, Course
<1>4. Files'
  BY <1>1, <1>2 DEF Inv, Files
<1>5. off = Len(src)
  <2>1. off \in Nat /\ Len(src) \in Nat
    BY PartIsShort, NoPart DEF Inv, Files
  <2>2. QED
    BY <1>1, <2>1 DEF Left
<1>6. op # "copy" /\ ~same => Len(out) = Len(file)
  <2>1. op # "copy" => Len(out) + Len(buf) = off /\ Len(buf) = 0 /\ Len(out) \in Nat
    BY <1>1, PartIsShort, NoPart DEF Inv, Files
  <2>2. QED
    BY <1>5, <2>1 DEF Inv, Files
<1>7. Whole'
  BY <1>1, <1>2, <1>5, <1>6 DEF Whole
<1>8. QED
  BY <1>3, <1>4, <1>7 DEF Inv

LEMMA ReadFailsStep == Inv /\ ReadFails => Inv'
<1> SUFFICES ASSUME Inv, ReadFails PROVE Inv'
  OBVIOUS
<1>1. /\ pc = "read" /\ UNCHANGED <<op, mode, same, file, src, off, buf, out, former, held>>
      /\ IF op = "put" THEN pc' = "raised" /\ UNCHANGED failed ELSE pc' = ReadOver /\ failed' = TRUE
  BY DEF ReadFails
<1>2. /\ op # "open"
      /\ pc' = IF op = "put" THEN "raised" ELSE IF op = "read" THEN "returned"
               ELSE IF op = "copy" THEN "write" ELSE "closing"
      /\ op # "put" => failed'
  BY <1>1 DEF ReadOver, Inv, Course
<1>3. Scalars' /\ Course'
  BY <1>1, <1>2 DEF Inv, Scalars, Places, Course
<1>4. Files'
  BY <1>1, <1>2 DEF Inv, Files
<1>5. Whole'
  BY <1>1, <1>2 DEF Whole
<1>6. QED
  BY <1>3, <1>4, <1>5 DEF Inv

\* What a write takes is a beginning of the buffer.
LEMMA WriteTakes ==
  ASSUME Inv, pc = "write", NEW n \in 0 .. Len(buf), Write(n)
  PROVE  Part(out', 0, Size) /\ Len(out') = Len(out) + n /\ buf' = <<>>
         /\ Len(out) \in Nat /\ Len(buf) \in Nat
<1>1. Part(out, 0, Size) /\ Part(buf, Len(out), Size) /\ Len(out) \in Nat /\ Len(buf) \in Nat
  BY PartIsShort DEF Inv, Files
<1>2. n \in Nat /\ n <= Len(buf) /\ 0 + Len(out) = Len(out)
  BY <1>1
<1>3. out' = Join(out, SubSeq(buf, 1, n)) /\ buf' = <<>>
  BY DEF Write, Join
<1>4. Part(SubSeq(buf, 1, n), Len(out), Size) /\ Len(SubSeq(buf, 1, n)) = n
  BY <1>1, <1>2, BeginningOfPart
<1> DEFINE r == SubSeq(buf, 1, n)
<1> HIDE DEF r
<1>5. Part(r, Len(out), Size) /\ Len(r) = n /\ out' = Join(out, r)
  BY <1>3, <1>4 DEF r
<1>6. Part(Join(out, r), 0, Size) /\ Len(Join(out, r)) = Len(out) + Len(r)
  BY <1>1, <1>2, <1>5, PartAppend
<1>7. QED
  BY <1>1, <1>3, <1>5, <1>6

\* get and put write chunks that no packet is too small for; copy_file may write more at once.
LEMMA WriteDoneStep == Inv /\ WriteDone => Inv'
<1> SUFFICES ASSUME Inv, WriteDone PROVE Inv'
  OBVIOUS
<1>1. PICK n \in 0 .. Len(buf) :
        Write(n) /\ n >= (IF op = "get" THEN Len(buf) ELSE Least(Len(buf), Packet))
  BY DEF WriteDone
<1>2. /\ pc = "write" /\ pc' = (IF op = "copy" THEN "closing" ELSE "read")
      /\ UNCHANGED <<op, mode, same, file, src, off, former, held, failed>>
  BY DEF WriteDone
<1>3. /\ Part(out', 0, Size) /\ Len(out') = Len(out) + n /\ buf' = <<>>
      /\ Len(out) \in Nat /\ Len(buf) \in Nat
  BY <1>1, <1>2, WriteTakes
<1>4. op \in {"get", "put", "copy"}
  BY <1>2 DEF Inv, Scalars, Ops, Course
<1>5. Scalars' /\ Course'
  BY <1>2, <1>4 DEF Inv, Scalars, Places, Course
<1>6. Len(out) + Len(buf) = off
  BY <1>2 DEF Inv, Files
<1>7. op \in {"get", "put"} => Len(out') = off
  <2>1. op \in {"get", "put"} => Len(buf) <= Packet
    BY <1>3, Instance DEF Inv, Files
  <2>2. op \in {"get", "put"} => n = Len(buf)
    BY <1>1, <1>3, <2>1, Instance DEF Least
  <2>3. QED
    BY <1>3, <1>6, <2>2
<1>8. Files'
  <2>1. Part(buf', Len(out'), Size) /\ Len(buf') = 0 /\ Len(out') \in Nat
    BY <1>3, NoPart
  <2>2. pc' \in {"closing", "read"} /\ (pc' = "read" <=> op # "copy") /\ (pc' = "read" => Len(out') = off)
    BY <1>2, <1>4, <1>7
  <2>3. QED
    BY <1>2, <1>3, <2>1, <2>2, Instance DEF Inv, Files
<1>9. Whole'
  <2>1. CASE op = "copy" /\ ~failed /\ ~same /\ Len(file) <= Packet
    <3>1. out = <<>> /\ off = Len(src) /\ src = file
      BY <1>2, <2>1 DEF Inv, Files, Whole
    <3>2. Len(out) = 0 /\ Len(buf) = Len(file)
      BY <1>3, <1>6, <3>1, NoPart
    <3>3. n = Len(buf)
      BY <1>1, <1>3, <2>1, <3>2, Instance DEF Least
    <3>4. Len(out') = Len(file')
      BY <1>2, <1>3, <3>2, <3>3
    <3>5. QED
      BY <1>2, <2>1, <3>4 DEF Whole
  <2>2. CASE ~(op = "copy" /\ ~failed /\ ~same /\ Len(file) <= Packet)
    BY <1>2, <1>4, <2>2 DEF Whole
  <2>3. QED
    BY <2>1, <2>2
<1>10. QED
  BY <1>5, <1>8, <1>9 DEF Inv

LEMMA WriteFailsStep == Inv /\ WriteFails => Inv'
<1> SUFFICES ASSUME Inv, WriteFails PROVE Inv'
  OBVIOUS
<1>1. PICK n \in 0 .. Len(buf) : Write(n)
  BY DEF WriteFails
<1>2. pc = "write" /\ pc' = "raised" /\ UNCHANGED <<op, mode, same, file, src, off, former, held, failed>>
  BY DEF WriteFails
<1>3. /\ Part(out', 0, Size) /\ Len(out') = Len(out) + n /\ buf' = <<>>
      /\ Len(out) \in Nat /\ Len(buf) \in Nat
  BY <1>1, <1>2, WriteTakes
<1>4. Scalars' /\ Course'
  BY <1>2 DEF Inv, Scalars, Places, Course
<1>5. Part(buf', Len(out'), Size) /\ Len(buf') = 0
  BY <1>3, NoPart
<1>6. Files'
  BY <1>2, <1>3, <1>5, Instance DEF Inv, Files
<1>7. Whole'
  BY <1>2 DEF Whole
<1>8. QED
  BY <1>4, <1>6, <1>7 DEF Inv

LEMMA CloseStep == Inv /\ (Close \/ CloseFails) => Inv'
<1> SUFFICES ASSUME Inv, Close \/ CloseFails PROVE Inv'
  OBVIOUS
<1>1. /\ pc = "closing" /\ pc' \in {"returned", "raised"} /\ held' \in {held, {}}
      /\ UNCHANGED <<op, mode, same, file, src, off, buf, out, former, failed>>
      /\ pc' = "returned" => held' = {}
  BY DEF Close, CloseFails
<1>2. op \notin {"read", "open"}
  BY <1>1 DEF Inv, Course
<1>3. Scalars' /\ Course'
  BY <1>1, <1>2 DEF Inv, Scalars, Places, Course
<1>4. Files'
  BY <1>1 DEF Inv, Files
<1>5. Whole'
  BY <1>1 DEF Inv, Whole
<1>6. QED
  BY <1>3, <1>4, <1>5 DEF Inv

LEMMA InvStep == Inv /\ [Next]_vars => Inv'
<1> SUFFICES ASSUME Inv, [Next]_vars PROVE Inv'
  OBVIOUS
<1>1. CASE UNCHANGED vars
  BY <1>1 DEF vars, Inv, Scalars, Course, Files, Whole, Flags
<1>2. CASE Next
  BY <1>2, OpenSourceStep, OpenDestinationStep, ReadSomeStep, ReadEndStep, ReadFailsStep,
     WriteDoneStep, WriteFailsStep, CloseStep DEF Next, Program
<1>3. QED
  BY <1>1, <1>2

LEMMA InvAlways == Spec => []Inv
BY InvInit, InvStep, PTL DEF Spec

-----------------------------------------------------------------------------
(* What follows of every call *)

\* Offsets and buffers stay within the file, whatever the reads and writes return.
THEOREM TypeCorrect == Spec => []TypeOK
<1>1. Inv => TypeOK
  <2> SUFFICES ASSUME Inv PROVE TypeOK
    OBVIOUS
  <2>1. file \in Seq(1 .. Size) /\ buf \in Seq(1 .. Size) /\ out \in Seq(1 .. Size)
    BY DEF Inv, Files, Part
  <2>2. off \in 0 .. Size
    <3>1. Len(file) \in 0 .. Size /\ Len(<<>>) = 0
      BY PartIsCopied, NoPart DEF Inv, Files
    <3>2. QED
      BY <3>1, Instance DEF Inv, Files
  <2>3. src \in {file, <<>>}
    BY DEF Inv, Files
  <2>4. QED
    BY <2>1, <2>2, <2>3 DEF Inv, Scalars, Ops, Places, TypeOK
<1>2. QED
  BY <1>1, InvAlways, PTL

\* get, put, copy_file and read(-1) return with the whole file when no read failed; copy_file when
\* the file fits a packet and is not copied onto itself.
THEOREM WholeUnlessFailedCorrect == Spec => []WholeUnlessFailed
<1>1. Inv => WholeUnlessFailed
  <2> SUFFICES ASSUME Inv, pc = "returned", op # "open", ~failed, ~same,
                      op = "copy" => Len(file) <= Packet
               PROVE  out = file
    BY DEF WholeUnlessFailed
  <2>1. Len(out) = Len(file)
    BY DEF Inv, Whole
  <2>2. QED
    BY <2>1, PartUnique DEF Inv, Files
<1>2. QED
  BY <1>1, InvAlways, PTL

\* The four return with their remote files closed, the old destination emptied and the source as it was.
THEOREM LeavesNothingCorrect == Spec => []LeavesNothing
<1>1. Inv => LeavesNothing
  BY DEF Inv, Course, Files, LeavesNothing
<1>2. QED
  BY <1>1, InvAlways, PTL

\* get_flags gives "r", "w", "r+" and "w+" the meaning they have in Python.
THEOREM OpensAsPythonCorrect == Spec => []OpensAsPython
<1>1. Inv => OpensAsPython
  <2> SUFFICES ASSUME Inv, op = "open", mode \in {{"r"}, {"w"}, {"r", "+"}, {"w", "+"}}
               PROVE  /\ "READ" \in Flags(mode) <=> mode # {"w"}
                      /\ "WRITE" \in Flags(mode) <=> mode # {"r"}
                      /\ pc = "returned" => (former <=> "w" \notin mode)
    BY DEF OpensAsPython
  <2>1. /\ "w" \in mode <=> "TRUNC" \in Flags(mode)
        /\ "w" \in mode <=> "CREAT" \in Flags(mode)
    BY DEF Flags
  <2>2. "READ" \in Flags(mode) <=> mode # {"w"}
    BY DEF Flags
  <2>3. "WRITE" \in Flags(mode) <=> mode # {"r"}
    BY DEF Flags
  <2>4. pc = "returned" => (former <=> "w" \notin mode)
    BY <2>1 DEF Inv, Scalars, Course
  <2>5. QED
    BY <2>2, <2>3, <2>4
<1>2. QED
  BY <1>1, InvAlways, PTL

-----------------------------------------------------------------------------
(* The refinement *)

Over == {"returned", "raised"}

\* The destination only grows, and only before the call is over.
LEMMA OutGrows == Inv /\ Next => pc \notin Over /\ Len(out) <= Len(out')
<1> SUFFICES ASSUME Inv, Next PROVE pc \notin Over /\ Len(out) <= Len(out')
  OBVIOUS
<1>1. Len(out) \in Nat
  BY PartIsShort DEF Inv, Files
<1>2. CASE out' = out /\ pc \notin Over
  BY <1>1, <1>2
<1>3. CASE ReadSome
  <2>1. pc = "read" /\ Inv'
    BY <1>3, ReadSomeStep DEF ReadSome
  <2>2. CASE op = "read"
    <3>1. pc' = "read" /\ op' = "read" /\ off <= off' /\ off \in Nat /\ off' \in Nat
      BY <1>3, <2>1, <2>2, Instance DEF ReadSome, Inv, Files
    <3>2. Len(out) + Len(buf) = off /\ buf = <<>> /\ Len(out') + Len(buf') = off' /\ buf' = <<>>
      BY <2>1, <2>2, <3>1 DEF Inv, Files
    <3>3. Len(out') \in Nat /\ Len(<<>>) = 0
      BY <2>1, PartIsShort, NoPart DEF Inv, Files
    <3>4. QED
      BY <1>1, <2>1, <3>1, <3>2, <3>3 DEF Over
  <2>3. CASE op # "read"
    BY <1>1, <1>3, <2>1, <2>3 DEF ReadSome, Over
  <2>4. QED
    BY <2>2, <2>3
<1>4. CASE WriteDone \/ WriteFails
  <2>1. pc = "write" /\ \E n \in 0 .. Len(buf) : Write(n)
    BY <1>4 DEF WriteDone, WriteFails
  <2>2. PICK n \in 0 .. Len(buf) : Write(n)
    BY <2>1
  <2>3. Len(out') = Len(out) + n /\ Len(buf) \in Nat
    BY <2>1, <2>2, WriteTakes
  <2>4. QED
    BY <1>1, <2>1, <2>3 DEF Over
<1>5. QED
  BY <1>2, <1>3, <1>4 DEF Next, Program, OpenSource, OpenDestination, ReadEnd, ReadFails, Close, CloseFails, Over

\* get, put, copy_file and read(-1) are copies: they write bytes of the source in their order,
\* and none after they returned or raised.
THEOREM CopyRefinement == Spec => IsCopy
<1> DEFINE state == IF pc \in {"returned", "raised"} THEN pc ELSE "working"
<1>1. Init => Copies!Init
  BY DEF Init, Copies!Init
<1>2. ASSUME Inv, Inv', [Next]_vars PROVE [Copies!Next]_<<out, state>>
  <2>1. CASE UNCHANGED vars
    BY <2>1 DEF vars
  <2>2. CASE Next
    <3>1. state = "working" /\ Len(out) <= Len(out')
      BY <1>2, <2>2, OutGrows DEF Over
    <3>2. /\ Len(out) \in Nat /\ Len(out') \in 0 .. Size
          /\ out' = SubSeq(Copies!Source, 1, Len(out'))
      BY <1>2, PartIsShort, PartIsCopied DEF Inv, Files
    <3>3. CASE pc' \in Over
      <4>1. Len(out') \in Len(out) .. Size
        BY <3>1, <3>2, Instance
      <4>2. state' \in {"returned", "raised"}
        BY <3>3 DEF Over
      <4>3. Copies!End
        BY <3>1, <3>2, <4>1, <4>2, Zenon DEF Copies!End
      <4>4. QED
        BY <4>3 DEF Copies!Next
    <3>4. CASE pc' \notin Over /\ Len(out') = Len(out)
      <4>1. out' = out
        BY <1>2, <3>4, PartUnique DEF Inv, Files
      <4>2. QED
        BY <3>1, <3>4, <4>1 DEF Over
    <3>5. CASE pc' \notin Over /\ Len(out') # Len(out)
      <4>1. Len(out') \in Len(out) + 1 .. Size /\ state' = state
        BY <3>1, <3>2, <3>5, Instance DEF Over
      <4>2. Copies!Extend
        BY <3>1, <3>2, <4>1, Zenon DEF Copies!Extend
      <4>3. QED
        BY <4>2 DEF Copies!Next
    <3>6. QED
      BY <3>3, <3>4, <3>5
  <2>3. QED
    BY <1>2, <2>1, <2>2
<1>3. QED
  BY <1>1, <1>2, InvAlways, PTL DEF Spec, IsCopy, Copies!Spec
=============================================================================
