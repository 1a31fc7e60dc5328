---------------------------- MODULE SftpNamesProofs ----------------------------
(* What the result of rename says, that it loses no file and leaves one at its  *)
(* destination, for every number of programs, every set of paths and every      *)
(* status the server may answer.                                                *)
EXTENDS SftpNames, TLAPS

Pcs == {"start", "first", "unlink", "second", "setstat"} \cup Ends
Operations == [pc : Pcs, name : {"none", "rename", "unlink", "set_stat"}, src : Paths \cup {Absent},
               dst : Paths \cup {Absent}, file : Files \cup {Absent}, keys : SUBSET Keys]

\* The paths an operation has, by how far it is.
Shape(c) ==
  /\ op[c].pc = "start" <=> op[c].name = "none"
  /\ op[c].pc # "start" => op[c].dst \in Paths
  /\ op[c].name = "rename" => op[c].src \in Paths
  /\ op[c].pc \in {"first", "second"} => op[c].name = "rename"
  /\ op[c].pc = "setstat" => op[c].name = "set_stat"
  /\ op[c].pc = "unlink" => op[c].name \in {"rename", "unlink"}

TypeInv == TypeOK /\ \A c \in Clients : Shape(c)

\* A request of rename is sent only while the server has not done one of this call.
Verdict(c) ==
  /\ moved[c] \in {0, 1}
  /\ op[c].name # "rename" => moved[c] = 0
  /\ op[c].pc \in {"first", "unlink", "second"} => moved[c] = 0
  /\ op[c].name = "rename" =>
       (op[c].pc = "returned" => moved[c] = 1) /\ (op[c].pc = "ioerror" => moved[c] = 0)

VerdictInv == TypeInv /\ \A c \in Clients : Verdict(c)

\* Before any rename, each path has its own file or none.
Unmoved == (\A d \in Clients : moved[d] = 0) => \A p \in Paths : fs[p] \in {p, Absent}

\* A rename without a rename of another program before has removed at most what was at its
\* destination, and nothing else until the server has done it.
Alone(c) == \A d \in Clients \ {c} : moved[d] = 0
Kept(c) ==
  (op[c].name = "rename" /\ Alone(c)) =>
    /\ op[c].file \in {op[c].src, Absent}
    /\ removed[c] \subseteq {op[c].dst}
Clean(c) == op[c].pc = "start" => removed[c] = {}

KeptInv == VerdictInv /\ Unmoved /\ \A c \in Clients : Kept(c) /\ Clean(c)

-----------------------------------------------------------------------------
(* Where a step leads *)

LEMMA OpType ==
  ASSUME TypeInv, NEW c \in Clients
  PROVE  op[c] \in Operations
BY DEF TypeInv, TypeOK, Operations, Pcs

\* A new operation replaces the one of c, and no other.
LEMMA OpStart ==
  ASSUME TypeInv, NEW c \in Clients, NEW r \in Operations, op' = [op EXCEPT ![c] = r]
  PROVE  /\ op'[c] = r /\ \A d \in Clients \ {c} : op'[d] = op[d]
         /\ op' \in [Clients -> Operations]
BY DEF TypeInv, TypeOK, Operations, Pcs

LEMMA OpGoTo ==
  ASSUME TypeInv, NEW c \in Clients, NEW pc \in Pcs, GoTo(c, pc)
  PROVE  /\ op'[c] = [op[c] EXCEPT !.pc = pc] /\ \A d \in Clients \ {c} : op'[d] = op[d]
         /\ op' \in [Clients -> Operations]
         /\ op'[c].pc = pc /\ op'[c].name = op[c].name /\ op'[c].src = op[c].src
         /\ op'[c].dst = op[c].dst /\ op'[c].file = op[c].file /\ op'[c].keys = op[c].keys
<1>1. op \in [Clients -> Operations]
  BY DEF TypeInv, TypeOK, Operations, Pcs
<1>2. op' = [op EXCEPT ![c] = [op[c] EXCEPT !.pc = pc]]
  BY <1>1 DEF GoTo
<1>3. op[c] \in Operations
  BY <1>1
<1>4. [op[c] EXCEPT !.pc = pc] \in Operations
  BY <1>3 DEF Operations
<1>5. QED
  BY <1>1, <1>2, <1>3, <1>4 DEF Operations

LEMMA RestType == Rest \in Operations
BY DEF Rest, Operations, Pcs

\* What is left to show of a step of c: the other programs stay where they are.
LEMMA TypeKeep ==
  ASSUME TypeInv, NEW c \in Clients, op' \in [Clients -> Operations],
         \A d \in Clients \ {c} : op'[d] = op[d], Shape(c)',
         fs' \in [Paths -> Files \cup {Absent}], attrs' \in [Files -> [Fields -> Values]],
         moved' \in [Clients -> Nat], removed' \in [Clients -> SUBSET Files]
  PROVE  TypeInv'
<1>1. TypeOK'
  BY DEF TypeOK, Operations, Pcs
<1>2. \A d \in Clients : Shape(d)'
  BY DEF TypeInv, Shape
<1>3. QED
  BY <1>1, <1>2 DEF TypeInv

LEMMA TypeInit == Init => TypeInv
<1> SUFFICES ASSUME Init PROVE TypeInv
  OBVIOUS
<1>1. \A c \in Clients : op[c] = Rest
  BY DEF Init
<1>2. op \in [Clients -> Operations]
  BY RestType DEF Init
<1>3. TypeOK
  BY <1>2 DEF Init, TypeOK, Operations, Pcs, Values, Files
<1>4. \A c \in Clients : Shape(c)
  <2>1. Rest.pc = "start" /\ Rest.name = "none"
    BY DEF Rest
  <2>2. QED
    BY <1>1, <2>1 DEF Shape
<1>5. QED
  BY <1>3, <1>4 DEF TypeInv

LEMMA TypeStep == TypeInv /\ [Next]_vars => TypeInv'
<1> SUFFICES ASSUME TypeInv, [Next]_vars PROVE TypeInv'
  OBVIOUS
<1> USE Instance
<1>0. /\ fs \in [Paths -> Files \cup {Absent}] /\ attrs \in [Files -> [Fields -> Values]]
      /\ moved \in [Clients -> Nat] /\ removed \in [Clients -> SUBSET Files]
  BY DEF TypeInv, TypeOK
<1>1. ASSUME NEW c \in Clients, NEW src \in Paths, NEW dst \in Paths, Rename(c, src, dst) PROVE TypeInv'
  <2> DEFINE r == [Rest EXCEPT !.pc = "first", !.name = "rename", !.src = src, !.dst = dst, !.file = fs[src]]
  <2>1. r \in Operations /\ r.pc = "first" /\ r.name = "rename" /\ r.src = src /\ r.dst = dst
    BY <1>0 DEF Rest, Operations, Pcs, Files
  <2>2. op' = [op EXCEPT ![c] = r]
    BY <1>1 DEF Rename
  <2> HIDE DEF r
  <2>3. op'[c] = r /\ (\A d \in Clients \ {c} : op'[d] = op[d]) /\ op' \in [Clients -> Operations]
    BY <2>1, <2>2, OpStart
  <2>4. Shape(c)'
    BY <2>1, <2>3 DEF Shape
  <2>5. QED
    BY <1>0, <1>1, <2>3, <2>4, TypeKeep DEF Rename
<1>2. ASSUME NEW c \in Clients, NEW path \in Paths, Unlink(c, path) PROVE TypeInv'
  <2> DEFINE r == [Rest EXCEPT !.pc = "unlink", !.name = "unlink", !.dst = path]
  <2>1. r \in Operations /\ r.pc = "unlink" /\ r.name = "unlink" /\ r.dst = path
    BY DEF Rest, Operations, Pcs
  <2>2. op' = [op EXCEPT ![c] = r]
    BY <1>2 DEF Unlink
  <2> HIDE DEF r
  <2>3. op'[c] = r /\ (\A d \in Clients \ {c} : op'[d] = op[d]) /\ op' \in [Clients -> Operations]
    BY <2>1, <2>2, OpStart
  <2>4. Shape(c)'
    BY <2>1, <2>3 DEF Shape
  <2>5. QED
    BY <1>0, <1>2, <2>3, <2>4, TypeKeep DEF Unlink
<1>3. ASSUME NEW c \in Clients, NEW path \in Paths, NEW keys \in Changes, SetStat(c, path, keys) PROVE TypeInv'
  <2> DEFINE r == [Rest EXCEPT !.pc = "setstat", !.name = "set_stat", !.dst = path, !.keys = keys]
  <2>1. r \in Operations /\ r.pc = "setstat" /\ r.name = "set_stat" /\ r.dst = path
    BY DEF Rest, Operations, Pcs
  <2>2. op' = [op EXCEPT ![c] = r]
    BY <1>3 DEF SetStat
  <2> HIDE DEF r
  <2>3. op'[c] = r /\ (\A d \in Clients \ {c} : op'[d] = op[d]) /\ op' \in [Clients -> Operations]
    BY <2>1, <2>2, OpStart
  <2>4. Shape(c)'
    BY <2>1, <2>3 DEF Shape
  <2>5. QED
    BY <1>0, <1>3, <2>3, <2>4, TypeKeep DEF SetStat
\* A request ends the operation, or leads to the next request of rename.
<1>4. ASSUME NEW c \in Clients, NEW pc \in Ends \cup {"unlink", "second"}, GoTo(c, pc), op[c].pc # "start",
             pc \in {"unlink", "second"} => op[c].name = "rename",
             fs' \in [Paths -> Files \cup {Absent}], attrs' \in [Files -> [Fields -> Values]],
             moved' \in [Clients -> Nat], removed' \in [Clients -> SUBSET Files]
      PROVE  TypeInv'
  <2>1. pc \in Pcs /\ pc \notin {"start", "first", "setstat"}
    BY DEF Pcs, Ends
  <2>2. Shape(c)
    BY DEF TypeInv
  <2>3. /\ op'[c].pc = pc /\ op'[c].name = op[c].name /\ op'[c].src = op[c].src /\ op'[c].dst = op[c].dst
        /\ \A d \in Clients \ {c} : op'[d] = op[d]
        /\ op' \in [Clients -> Operations]
    BY <1>4, <2>1, OpGoTo
  <2>4. Shape(c)'
    BY <1>4, <2>1, <2>2, <2>3 DEF Shape
  <2>5. QED
    BY <1>4, <2>3, <2>4, TypeKeep
<1>5. ASSUME NEW c \in Clients, RenameDone(c) PROVE TypeInv'
  <2>1. op[c].src \in Paths /\ op[c].dst \in Paths /\ op[c].pc # "start"
    BY <1>5 DEF TypeInv, Shape, RenameDone
  <2>2. fs' \in [Paths -> Files \cup {Absent}] /\ moved' \in [Clients -> Nat]
    BY <1>0, <1>5, <2>1 DEF RenameDone, ServerRenames
  <2>3. removed' \in [Clients -> SUBSET Files] /\ attrs' = attrs
    BY <1>0, <1>5, <2>1 DEF RenameDone, ServerRenames
  <2>4. QED
    BY <1>0, <1>4, <1>5, <2>1, <2>2, <2>3 DEF RenameDone, Fails, Ends
<1>6. ASSUME NEW c \in Clients, RenameFails(c) PROVE TypeInv'
  BY <1>0, <1>4, <1>6 DEF RenameFails, Fails, Ends
<1>7. ASSUME NEW c \in Clients, FirstRefused(c) PROVE TypeInv'
  <2>1. op[c].name = "rename"
    BY <1>7 DEF TypeInv, Shape, FirstRefused
  <2>2. QED
    BY <1>0, <1>4, <1>7, <2>1 DEF FirstRefused, Raise, Ends
<1>8. ASSUME NEW c \in Clients, UnlinkDone(c) PROVE TypeInv'
  <2>1. op[c].dst \in Paths /\ op[c].pc # "start"
    BY <1>8 DEF TypeInv, Shape, UnlinkDone
  <2>2. fs' \in [Paths -> Files \cup {Absent}] /\ removed' \in [Clients -> SUBSET Files]
        /\ UNCHANGED <<attrs, moved>>
    BY <1>0, <1>8, <2>1 DEF UnlinkDone
  <2>3. QED
    BY <1>0, <1>4, <1>8, <2>1, <2>2 DEF UnlinkDone, Fails, Ends
<1>9. ASSUME NEW c \in Clients, LaterRefused(c) PROVE TypeInv'
  BY <1>0, <1>4, <1>9 DEF LaterRefused, Raise, Ends
<1>10. ASSUME NEW c \in Clients, SetStatDone(c) PROVE TypeInv'
  <2>1. op[c].dst \in Paths /\ op[c].pc # "start"
    BY <1>10 DEF TypeInv, Shape, SetStatDone
  <2>2. \A x \in Fields : Stored(op[c].keys, x) \in Values
    BY DEF Stored, Values, Keys, Fields
  <2>3. attrs' \in [Files -> [Fields -> Values]] /\ UNCHANGED <<fs, moved, removed>>
    BY <1>0, <1>10, <2>1, <2>2 DEF SetStatDone
  <2>4. QED
    BY <1>0, <1>4, <1>10, <2>1, <2>3 DEF SetStatDone, Fails, Ends
<1>11. ASSUME NEW c \in Clients, SetStatFails(c) PROVE TypeInv'
  BY <1>0, <1>4, <1>11 DEF SetStatFails, Fails, Raise, Ends
<1>12. CASE UNCHANGED vars
  BY <1>12 DEF vars, TypeInv, TypeOK, Shape
<1>13. QED
  BY <1>1, <1>2, <1>3, <1>5, <1>6, <1>7, <1>8, <1>9, <1>10, <1>11, <1>12 DEF Next, Call, Request

\* The files, the attributes and every operation are of their types.
THEOREM TypeCorrect == Spec => []TypeOK
<1>1. TypeInv => TypeOK
  BY DEF TypeInv
<1>2. QED
  BY <1>1, TypeInit, TypeStep, PTL DEF Spec

-----------------------------------------------------------------------------
(* The result of rename *)

LEMMA VerdictKeep ==
  ASSUME VerdictInv, TypeInv', NEW c \in Clients, Verdict(c)',
         \A d \in Clients \ {c} : op'[d] = op[d] /\ moved'[d] = moved[d]
  PROVE  VerdictInv'
<1>1. \A d \in Clients \ {c} : Verdict(d)'
  BY DEF VerdictInv, Verdict
<1>2. QED
  BY <1>1 DEF VerdictInv

LEMMA VerdictInit == Init => VerdictInv
<1> SUFFICES ASSUME Init PROVE VerdictInv
  OBVIOUS
<1>1. TypeInv
  BY TypeInit
<1>2. Rest.pc = "start" /\ Rest.name = "none"
  BY DEF Rest
<1>3. \A c \in Clients : Verdict(c)
  BY <1>2 DEF Init, Verdict
<1>4. QED
  BY <1>1, <1>3 DEF VerdictInv

\* A new operation has renamed nothing.
LEMMA VerdictStart ==
  ASSUME VerdictInv, TypeInv', NEW c \in Clients, NEW r \in Operations, op' = [op EXCEPT ![c] = r],
         op[c].pc = "start", r.pc \notin Ends, UNCHANGED moved
  PROVE  VerdictInv'
<1>1. op'[c] = r /\ \A d \in Clients \ {c} : op'[d] = op[d]
  BY OpStart DEF VerdictInv
<1>2. moved[c] = 0
  BY DEF VerdictInv, TypeInv, Shape, Verdict
<1>3. Verdict(c)'
  BY <1>1, <1>2 DEF Verdict, Ends
<1>4. QED
  BY <1>1, <1>3, VerdictKeep

\* A request that the server has not renamed for.
LEMMA VerdictNot ==
  ASSUME VerdictInv, TypeInv', NEW c \in Clients, NEW pc \in Pcs, GoTo(c, pc), UNCHANGED moved,
         op[c].pc \notin Ends, op[c].name = "rename" => pc # "returned"
  PROVE  VerdictInv'
<1>1. /\ op'[c].pc = pc /\ op'[c].name = op[c].name /\ \A d \in Clients \ {c} : op'[d] = op[d]
  BY OpGoTo DEF VerdictInv
<1>2. Verdict(c) /\ Shape(c)
  BY DEF VerdictInv, TypeInv
<1>3. op[c].pc \in Pcs
  BY OpType DEF VerdictInv, Operations
<1>4. op[c].name = "rename" => op[c].pc \in {"first", "unlink", "second", "setstat"}
  BY <1>2, <1>3 DEF Shape, Pcs
<1>5. CASE op[c].name # "rename" \/ op[c].pc # "setstat"
  <2>1. moved[c] = 0
    BY <1>2, <1>4, <1>5 DEF Verdict
  <2>2. Verdict(c)'
    BY <1>1, <2>1 DEF Verdict
  <2>3. QED
    BY <1>1, <2>2, VerdictKeep
<1>6. CASE op[c].name = "rename" /\ op[c].pc = "setstat"
  BY <1>2, <1>6 DEF Shape
<1>7. QED
  BY <1>5, <1>6

LEMMA VerdictStep == VerdictInv /\ [Next]_vars => VerdictInv'
<1> SUFFICES ASSUME VerdictInv, [Next]_vars PROVE VerdictInv'
  OBVIOUS
<1>0. TypeInv /\ TypeInv'
  BY TypeStep DEF VerdictInv
<1>1. ASSUME NEW c \in Clients, NEW src \in Paths, NEW dst \in Paths, Rename(c, src, dst) PROVE VerdictInv'
  <2> DEFINE r == [Rest EXCEPT !.pc = "first", !.name = "rename", !.src = src, !.dst = dst, !.file = fs[src]]
  <2>1. r \in Operations /\ r.pc \notin Ends
    BY <1>0 DEF TypeInv, TypeOK, Rest, Operations, Pcs, Files, Ends
  <2>2. op' = [op EXCEPT ![c] = r] /\ op[c].pc = "start" /\ UNCHANGED moved
    BY <1>1 DEF Rename
  <2> HIDE DEF r
  <2>3. QED
    BY <1>0, <2>1, <2>2, VerdictStart
<1>2. ASSUME NEW c \in Clients, NEW path \in Paths, Unlink(c, path) PROVE VerdictInv'
  <2> DEFINE r == [Rest EXCEPT !.pc = "unlink", !.name = "unlink", !.dst = path]
  <2>1. r \in Operations /\ r.pc \notin Ends
    BY DEF Rest, Operations, Pcs, Ends
  <2>2. op' = [op EXCEPT ![c] = r] /\ op[c].pc = "start" /\ UNCHANGED moved
    BY <1>2 DEF Unlink
  <2> HIDE DEF r
  <2>3. QED
    BY <1>0, <2>1, <2>2, VerdictStart
<1>3. ASSUME NEW c \in Clients, NEW path \in Paths, NEW keys \in Changes, SetStat(c, path, keys) PROVE VerdictInv'
  <2> DEFINE r == [Rest EXCEPT !.pc = "setstat", !.name = "set_stat", !.dst = path, !.keys = keys]
  <2>1. r \in Operations /\ r.pc \notin Ends
    BY Instance DEF Rest, Operations, Pcs, Ends
  <2>2. op' = [op EXCEPT ![c] = r] /\ op[c].pc = "start" /\ UNCHANGED moved
    BY <1>3 DEF SetStat
  <2> HIDE DEF r
  <2>3. QED
    BY <1>0, <2>1, <2>2, VerdictStart
\* The server renames: only in an attempt before which it has not, and the answer ends the call.
<1>4. ASSUME NEW c \in Clients, RenameDone(c) PROVE VerdictInv'
  <2>1. Verdict(c) /\ Shape(c) /\ moved[c] = 0 /\ op[c].name = "rename"
    BY <1>4 DEF VerdictInv, TypeInv, RenameDone, Verdict, Shape
  <2>2. moved' = [moved EXCEPT ![c] = @ + 1] /\ moved \in [Clients -> Nat]
    BY <1>0, <1>4 DEF RenameDone, ServerRenames, TypeInv, TypeOK
  <2>3. moved'[c] = 1 /\ \A d \in Clients \ {c} : moved'[d] = moved[d]
    BY <2>1, <2>2
  <2>4. PICK pc \in {"returned", "error"} : GoTo(c, pc)
    BY <1>4 DEF RenameDone, Fails
  <2>5. op'[c].pc = pc /\ op'[c].name = op[c].name /\ \A d \in Clients \ {c} : op'[d] = op[d]
    BY <1>0, <2>4, OpGoTo DEF Pcs, Ends
  <2>6. Verdict(c)'
    BY <2>1, <2>3, <2>5 DEF Verdict
  <2>7. QED
    BY <1>0, <2>3, <2>5, <2>6, VerdictKeep
<1>5. ASSUME NEW c \in Clients, RenameFails(c) PROVE VerdictInv'
  BY <1>0, <1>5, VerdictNot DEF RenameFails, Fails, Pcs, Ends
<1>6. ASSUME NEW c \in Clients, FirstRefused(c) PROVE VerdictInv'
  BY <1>0, <1>6, VerdictNot DEF FirstRefused, Raise, Pcs, Ends
<1>7. ASSUME NEW c \in Clients, UnlinkDone(c) PROVE VerdictInv'
  <2>1. PICK pc \in {"second", "returned", "error"} : GoTo(c, pc) /\ (op[c].name = "rename" => pc # "returned")
    BY <1>7 DEF UnlinkDone, Fails
  <2>2. QED
    BY <1>0, <1>7, <2>1, VerdictNot DEF UnlinkDone, Pcs, Ends
<1>8. ASSUME NEW c \in Clients, LaterRefused(c) PROVE VerdictInv'
  BY <1>0, <1>8, VerdictNot DEF LaterRefused, Raise, Pcs, Ends
<1>9. ASSUME NEW c \in Clients, SetStatDone(c) PROVE VerdictInv'
  <2>1. op[c].name # "rename"
    BY <1>0, <1>9 DEF TypeInv, Shape, SetStatDone
  <2>2. QED
    BY <1>0, <1>9, <2>1, VerdictNot DEF SetStatDone, Fails, Pcs, Ends
<1>10. ASSUME NEW c \in Clients, SetStatFails(c) PROVE VerdictInv'
  BY <1>0, <1>10, VerdictNot DEF SetStatFails, Fails, Raise, Pcs, Ends
<1>11. CASE UNCHANGED vars
  BY <1>0, <1>11 DEF vars, VerdictInv, Verdict
<1>12. QED
  BY <1>1, <1>2, <1>3, <1>4, <1>5, <1>6, <1>7, <1>8, <1>9, <1>10, <1>11 DEF Next, Call, Request

\* The fallback of rename never repeats a rename the server has done; returning means that it was
\* done, an IOError that it was not.
THEOREM RenameVerdictCorrect == Spec => []RenameVerdict
<1>1. VerdictInv => RenameVerdict
  BY DEF VerdictInv, Verdict, RenameVerdict, Renames
<1>2. QED
  BY <1>1, VerdictInit, VerdictStep, PTL DEF Spec

-----------------------------------------------------------------------------
(* The file that rename moves *)

LEMMA KeptKeep ==
  ASSUME KeptInv, VerdictInv', NEW c \in Clients, Unmoved', Kept(c)', Clean(c)',
         \A d \in Clients \ {c} : op'[d] = op[d] /\ removed'[d] = removed[d],
         \A d \in Clients : moved'[d] = 0 => moved[d] = 0
  PROVE  KeptInv'
<1>1. ASSUME NEW d \in Clients \ {c} PROVE Kept(d)' /\ Clean(d)'
  <2>1. Kept(d) /\ Clean(d) /\ (Alone(d)' => Alone(d))
    BY DEF KeptInv, Alone
  <2>2. QED
    BY <2>1 DEF Kept, Clean
<1>2. QED
  BY <1>1 DEF KeptInv

\* While neither c nor another program has renamed, a path has its own file or none.
LEMMA OwnFile ==
  ASSUME KeptInv, NEW c \in Clients, moved[c] = 0, Alone(c), NEW p \in Paths
  PROVE  fs[p] \in {p, Absent}
BY DEF KeptInv, Unmoved, Alone

LEMMA KeptInit == Init => KeptInv
<1> SUFFICES ASSUME Init PROVE KeptInv
  OBVIOUS
<1>1. VerdictInv /\ Unmoved
  BY VerdictInit DEF Init, Unmoved
<1>2. Rest.name = "none"
  BY DEF Rest
<1>3. \A c \in Clients : Kept(c) /\ Clean(c)
  BY <1>2 DEF Init, Kept, Clean
<1>4. QED
  BY <1>1, <1>3 DEF KeptInv

\* A request that neither renames nor removes.
LEMMA KeptQuiet ==
  ASSUME KeptInv, VerdictInv', NEW c \in Clients, NEW pc \in Pcs \ {"start"}, GoTo(c, pc),
         UNCHANGED <<fs, moved, removed>>
  PROVE  KeptInv'
<1>1. /\ op'[c].pc = pc /\ op'[c].name = op[c].name /\ op'[c].src = op[c].src
      /\ op'[c].dst = op[c].dst /\ op'[c].file = op[c].file
      /\ \A d \in Clients \ {c} : op'[d] = op[d]
  BY OpGoTo DEF KeptInv, VerdictInv
<1>2. Unmoved' /\ Kept(c)' /\ Clean(c)'
  BY <1>1 DEF KeptInv, Unmoved, Kept, Alone, Clean
<1>3. QED
  BY <1>1, <1>2, KeptKeep

LEMMA KeptStart ==
  ASSUME KeptInv, VerdictInv', NEW c \in Clients, NEW r \in Operations, op' = [op EXCEPT ![c] = r],
         op[c].pc = "start", r.pc # "start", UNCHANGED <<fs, moved, removed>>,
         r.name = "rename" => r.src \in Paths /\ r.file = fs[r.src]
  PROVE  KeptInv'
<1>1. op'[c] = r /\ \A d \in Clients \ {c} : op'[d] = op[d]
  BY OpStart DEF KeptInv, VerdictInv
<1>2. moved[c] = 0 /\ removed[c] = {}
  BY DEF KeptInv, VerdictInv, TypeInv, Shape, Verdict, Clean
<1>3. Kept(c)'
  BY <1>1, <1>2, OwnFile DEF Kept, Alone
<1>4. Unmoved' /\ Clean(c)'
  BY <1>1 DEF KeptInv, Unmoved, Clean
<1>5. QED
  BY <1>1, <1>3, <1>4, KeptKeep

LEMMA KeptStep == KeptInv /\ [Next]_vars => KeptInv'
<1> SUFFICES ASSUME KeptInv, [Next]_vars PROVE KeptInv'
  OBVIOUS
<1>0. VerdictInv /\ TypeInv /\ VerdictInv'
  BY VerdictStep DEF KeptInv, VerdictInv
<1>1. ASSUME NEW c \in Clients, NEW src \in Paths, NEW dst \in Paths, Rename(c, src, dst) PROVE KeptInv'
  <2> DEFINE r == [Rest EXCEPT !.pc = "first", !.name = "rename", !.src = src, !.dst = dst, !.file = fs[src]]
  <2>1. r \in Operations /\ r.pc # "start" /\ r.src \in Paths /\ r.file = fs[r.src]
    BY <1>0 DEF TypeInv, TypeOK, Rest, Operations, Pcs, Files
  <2>2. op' = [op EXCEPT ![c] = r] /\ op[c].pc = "start" /\ UNCHANGED <<fs, moved, removed>>
    BY <1>1 DEF Rename
  <2> HIDE DEF r
  <2>3. QED
    BY <1>0, <2>1, <2>2, KeptStart
<1>2. ASSUME NEW c \in Clients, NEW path \in Paths, Unlink(c, path) PROVE KeptInv'
  <2> DEFINE r == [Rest EXCEPT !.pc = "unlink", !.name = "unlink", !.dst = path]
  <2>1. r \in Operations /\ r.pc # "start" /\ r.name # "rename"
    BY DEF Rest, Operations, Pcs
  <2>2. op' = [op EXCEPT ![c] = r] /\ op[c].pc = "start" /\ UNCHANGED <<fs, moved, removed>>
    BY <1>2 DEF Unlink
  <2> HIDE DEF r
  <2>3. QED
    BY <1>0, <2>1, <2>2, KeptStart
<1>3. ASSUME NEW c \in Clients, NEW path \in Paths, NEW keys \in Changes, SetStat(c, path, keys) PROVE KeptInv'
  <2> DEFINE r == [Rest EXCEPT !.pc = "setstat", !.name = "set_stat", !.dst = path, !.keys = keys]
  <2>1. r \in Operations /\ r.pc # "start" /\ r.name # "rename"
    BY Instance DEF Rest, Operations, Pcs
  <2>2. op' = [op EXCEPT ![c] = r] /\ op[c].pc = "start" /\ UNCHANGED <<fs, moved, removed>>
    BY <1>3 DEF SetStat
  <2> HIDE DEF r
  <2>3. QED
    BY <1>0, <2>1, <2>2, KeptStart
\* The server renames: all it removes is what was at the destination.
<1>4. ASSUME NEW c \in Clients, RenameDone(c) PROVE KeptInv'
  <2>1. moved[c] = 0 /\ op[c].dst \in Paths /\ op[c].name = "rename"
    BY <1>0, <1>4 DEF VerdictInv, TypeInv, RenameDone, Verdict, Shape
  <2>2. moved' = [moved EXCEPT ![c] = @ + 1] /\ moved \in [Clients -> Nat]
    BY <1>0, <1>4 DEF RenameDone, ServerRenames, TypeInv, TypeOK
  <2>3. moved'[c] = 1 /\ \A d \in Clients \ {c} : moved'[d] = moved[d]
    BY <2>1, <2>2
  <2>4. PICK pc \in {"returned", "error"} : GoTo(c, pc)
    BY <1>4 DEF RenameDone, Fails
  <2>5. /\ op'[c].pc = pc /\ op'[c].name = op[c].name /\ op'[c].src = op[c].src
        /\ op'[c].dst = op[c].dst /\ op'[c].file = op[c].file
        /\ \A d \in Clients \ {c} : op'[d] = op[d]
    BY <1>0, <2>4, OpGoTo DEF Pcs, Ends
  <2>6. removed \in [Clients -> SUBSET Files]
    BY <1>0 DEF TypeInv, TypeOK
  <2>7. /\ removed'[c] \subseteq removed[c] \cup ({fs[op[c].dst]} \ {Absent})
        /\ \A d \in Clients \ {c} : removed'[d] = removed[d]
    BY <1>4, <2>6 DEF RenameDone, ServerRenames
  <2>8. Unmoved' /\ Clean(c)'
    BY <2>3, <2>4, <2>5 DEF Unmoved, Clean
  <2>9. ASSUME Alone(c)' PROVE op[c].file \in {op[c].src, Absent} /\ removed'[c] \subseteq {op[c].dst}
    <3>1. Alone(c)
      BY <2>3, <2>9 DEF Alone
    <3>2. fs[op[c].dst] \in {op[c].dst, Absent}
      BY <2>1, <3>1, OwnFile
    <3>3. op[c].file \in {op[c].src, Absent} /\ removed[c] \subseteq {op[c].dst}
      BY <2>1, <3>1 DEF KeptInv, Kept
    <3>4. QED
      BY <2>7, <3>2, <3>3
  <2>10. Kept(c)'
    BY <2>5, <2>9 DEF Kept
  <2>11. QED
    BY <1>0, <2>1, <2>3, <2>5, <2>7, <2>8, <2>10, KeptKeep
<1>5. ASSUME NEW c \in Clients, RenameFails(c) PROVE KeptInv'
  BY <1>0, <1>5, KeptQuiet DEF RenameFails, Fails, Pcs, Ends
<1>6. ASSUME NEW c \in Clients, FirstRefused(c) PROVE KeptInv'
  BY <1>0, <1>6, KeptQuiet DEF FirstRefused, Raise, Pcs, Ends
\* The unlink removes the file at the destination, which is not the source while nobody renamed.
<1>7. ASSUME NEW c \in Clients, UnlinkDone(c) PROVE KeptInv'
  <2>1. moved[c] = 0 /\ op[c].dst \in Paths
    BY <1>0, <1>7 DEF VerdictInv, TypeInv, UnlinkDone, Verdict, Shape
  <2>2. PICK pc \in {"second", "returned", "error"} : GoTo(c, pc)
    BY <1>7 DEF UnlinkDone, Fails
  <2>3. /\ op'[c].pc = pc /\ op'[c].name = op[c].name /\ op'[c].src = op[c].src
        /\ op'[c].dst = op[c].dst /\ op'[c].file = op[c].file
        /\ \A d \in Clients \ {c} : op'[d] = op[d]
    BY <1>0, <2>2, OpGoTo DEF Pcs, Ends
  <2>4. removed \in [Clients -> SUBSET Files] /\ fs \in [Paths -> Files \cup {Absent}]
    BY <1>0 DEF TypeInv, TypeOK
  <2>5. /\ removed'[c] = removed[c] \cup {fs[op[c].dst]} /\ fs[op[c].dst] # Absent
        /\ \A d \in Clients \ {c} : removed'[d] = removed[d]
        /\ \A p \in Paths : fs'[p] \in {fs[p], Absent}
        /\ UNCHANGED moved
    BY <1>7, <2>1, <2>4 DEF UnlinkDone
  <2>6. Unmoved' /\ Clean(c)'
    BY <2>2, <2>3, <2>5 DEF KeptInv, Unmoved, Clean
  <2>7. ASSUME Alone(c), op[c].name = "rename" PROVE op[c].file \in {op[c].src, Absent} /\ removed'[c] \subseteq {op[c].dst}
    <3>1. fs[op[c].dst] = op[c].dst
      BY <2>1, <2>5, <2>7, OwnFile
    <3>2. op[c].file \in {op[c].src, Absent} /\ removed[c] \subseteq {op[c].dst}
      BY <2>7 DEF KeptInv, Kept
    <3>3. QED
      BY <2>5, <3>1, <3>2
  <2>8. Kept(c)'
    BY <2>3, <2>5, <2>7 DEF Kept, Alone
  <2>9. QED
    BY <1>0, <2>3, <2>5, <2>6, <2>8, KeptKeep
<1>8. ASSUME NEW c \in Clients, LaterRefused(c) PROVE KeptInv'
  BY <1>0, <1>8, KeptQuiet DEF LaterRefused, Raise, Pcs, Ends
<1>9. ASSUME NEW c \in Clients, SetStatDone(c) PROVE KeptInv'
  BY <1>0, <1>9, KeptQuiet DEF SetStatDone, Fails, Pcs, Ends
<1>10. ASSUME NEW c \in Clients, SetStatFails(c) PROVE KeptInv'
  BY <1>0, <1>10, KeptQuiet DEF SetStatFails, Fails, Raise, Pcs, Ends
<1>11. CASE UNCHANGED vars
  BY <1>0, <1>11 DEF vars, KeptInv, Unmoved, Kept, Alone, Clean
<1>12. QED
  BY <1>1, <1>2, <1>3, <1>4, <1>5, <1>6, <1>7, <1>8, <1>9, <1>10, <1>11 DEF Next, Call, Request

\* rename of one path to another does not remove the file it is to move, unless another program
\* renamed meanwhile.
THEOREM SourceKeptCorrect == Spec => []SourceKept
<1>1. KeptInv => SourceKept
  <2> SUFFICES ASSUME KeptInv, NEW c \in Clients, op[c].name = "rename", op[c].src # op[c].dst,
                      op[c].file \in removed[c]
               PROVE  \E d \in Clients \ {c} : moved[d] > 0
    BY DEF SourceKept, Renames
  <2>1. CASE Alone(c)
    <3>1. op[c].file \in {op[c].src, Absent} /\ removed[c] \subseteq {op[c].dst}
      BY <2>1 DEF KeptInv, Kept
    <3>2. op[c].dst \in Paths
      BY DEF KeptInv, VerdictInv, TypeInv, Shape
    <3>3. QED
      BY <3>1, <3>2, Instance
  <2>2. CASE ~Alone(c)
    <3>1. PICK d \in Clients \ {c} : moved[d] # 0
      BY <2>2 DEF Alone
    <3>2. moved[d] \in {0, 1}
      BY DEF KeptInv, VerdictInv, Verdict
    <3>3. QED
      BY <3>1, <3>2
  <2>3. QED
    BY <2>1, <2>2
<1>2. QED
  BY <1>1, KeptInit, KeptStep, PTL DEF Spec

-----------------------------------------------------------------------------
(* The destination of rename *)

\* A program that renames to p; and nothing that would take the file away from there is called.
To(c, p) == Renames(c) /\ op[c].dst = p
Undisturbed(p) ==
  \A c \in Clients : (Renames(c) /\ op[c].src = p => op[c].dst = p) /\ (op[c].name = "unlink" => op[c].dst # p)

\* Inductive as it stands: who removes the file at p has not returned before it has put its own there.
Filled(p) ==
  (/\ \E c \in Clients : To(c, p)
   /\ \A c \in Clients : To(c, p) => op[c].pc = "returned"
   /\ Undisturbed(p))
    => fs[p] # Absent

\* A call that begins.
LEMMA FilledStart ==
  ASSUME TypeInv, NEW p \in Paths, Filled(p), NEW c \in Clients, NEW r \in Operations,
         op' = [op EXCEPT ![c] = r], op[c].pc = "start", r.pc # "returned", UNCHANGED fs
  PROVE  Filled(p)'
<1>1. op'[c] = r /\ \A d \in Clients \ {c} : op'[d] = op[d]
  BY OpStart
<1>2. op[c].name = "none"
  BY DEF TypeInv, Shape
<1>3. \A d \in Clients : To(d, p) => d # c /\ To(d, p)'
  BY <1>1, <1>2 DEF To, Renames
<1>4. \A d \in Clients : To(d, p)' => d = c \/ (To(d, p) /\ op'[d] = op[d])
  BY <1>1 DEF To, Renames
<1>5. Undisturbed(p)' => Undisturbed(p)
  BY <1>1, <1>2 DEF Undisturbed, Renames
<1>6. QED
  BY <1>1, <1>3, <1>4, <1>5 DEF Filled

\* A request of c: one of rename returns with a file at the destination, and only those of an unlink or
\* of a rename from p leave none.
LEMMA FilledGo ==
  ASSUME TypeInv, NEW p \in Paths, Filled(p), NEW c \in Clients, NEW pc \in Pcs, GoTo(c, pc),
         To(c, p) /\ pc = "returned" => fs'[p] # Absent,
         ~To(c, p) => \/ fs'[p] # Absent \/ fs[p] = Absent
                      \/ Renames(c) /\ op[c].src = p
                      \/ op[c].name = "unlink" /\ op[c].dst = p
  PROVE  Filled(p)'
<1>1. /\ op'[c].pc = pc /\ \A d \in Clients \ {c} : op'[d].pc = op[d].pc
      /\ \A d \in Clients : op'[d].name = op[d].name /\ op'[d].src = op[d].src /\ op'[d].dst = op[d].dst
  BY OpGoTo
<1>2. (\A d \in Clients : To(d, p)' <=> To(d, p)) /\ (Undisturbed(p)' <=> Undisturbed(p))
  BY <1>1 DEF To, Undisturbed, Renames
<1>3. CASE To(c, p)
  BY <1>1, <1>2, <1>3 DEF Filled
<1>4. CASE ~To(c, p)
  BY <1>1, <1>2, <1>4 DEF Filled, Undisturbed, To
<1>5. QED
  BY <1>3, <1>4

LEMMA FilledStep ==
  ASSUME TypeInv, NEW p \in Paths, Filled(p), [Next]_vars
  PROVE  Filled(p)'
<1> USE DEF Ends
<1>f. fs \in [Paths -> Files \cup {Absent}]
  BY DEF TypeInv, TypeOK
<1>1. ASSUME NEW c \in Clients, NEW src \in Paths, NEW dst \in Paths, Rename(c, src, dst) PROVE Filled(p)'
  <2> DEFINE r == [Rest EXCEPT !.pc = "first", !.name = "rename", !.src = src, !.dst = dst, !.file = fs[src]]
  <2>1. r \in Operations /\ r.pc # "returned"
    BY DEF TypeInv, TypeOK, Rest, Operations, Pcs, Files
  <2>2. op' = [op EXCEPT ![c] = r] /\ op[c].pc = "start" /\ UNCHANGED fs
    BY <1>1 DEF Rename
  <2> HIDE DEF r
  <2>3. QED
    BY <2>1, <2>2, FilledStart
<1>2. ASSUME NEW c \in Clients, NEW path \in Paths, Unlink(c, path) PROVE Filled(p)'
  <2> DEFINE r == [Rest EXCEPT !.pc = "unlink", !.name = "unlink", !.dst = path]
  <2>1. r \in Operations /\ r.pc # "returned"
    BY DEF Rest, Operations, Pcs
  <2>2. op' = [op EXCEPT ![c] = r] /\ op[c].pc = "start" /\ UNCHANGED fs
    BY <1>2 DEF Unlink
  <2> HIDE DEF r
  <2>3. QED
    BY <2>1, <2>2, FilledStart
<1>3. ASSUME NEW c \in Clients, NEW path \in Paths, NEW keys \in Changes, SetStat(c, path, keys) PROVE Filled(p)'
  <2> DEFINE r == [Rest EXCEPT !.pc = "setstat", !.name = "set_stat", !.dst = path, !.keys = keys]
  <2>1. r \in Operations /\ r.pc # "returned"
    BY Instance DEF Rest, Operations, Pcs
  <2>2. op' = [op EXCEPT ![c] = r] /\ op[c].pc = "start" /\ UNCHANGED fs
    BY <1>3 DEF SetStat
  <2> HIDE DEF r
  <2>3. QED
    BY <2>1, <2>2, FilledStart
\* The server renames: the file it moves is at the destination.
<1>4. ASSUME NEW c \in Clients, RenameDone(c) PROVE Filled(p)'
  <2>1. PICK pc \in {"returned", "error"} : GoTo(c, pc)
    BY <1>4 DEF RenameDone, Fails
  <2>2. Renames(c) /\ op[c].src \in Paths /\ op[c].dst \in Paths
    BY <1>4 DEF RenameDone, TypeInv, Shape, Renames
  <2>3. fs[op[c].src] # Absent
        /\ fs' = IF op[c].src = op[c].dst THEN fs ELSE [fs EXCEPT ![op[c].dst] = fs[op[c].src], ![op[c].src] = Absent]
    BY <1>4 DEF RenameDone, ServerRenames
  <2>4. To(c, p) => fs'[p] # Absent
    <3>1. op[c].src # p => [fs EXCEPT ![p] = fs[op[c].src], ![op[c].src] = Absent][p] = fs[op[c].src]
      BY <2>2, <1>f
    <3>2. QED
      BY <2>3, <3>1 DEF To
  <2>5. p # op[c].src /\ p # op[c].dst => fs'[p] = fs[p]
    BY <2>2, <2>3, <1>f
  <2>6. pc \in Pcs
    BY DEF Pcs
  <2>7. QED
    BY <2>1, <2>2, <2>4, <2>5, <2>6, FilledGo DEF To
<1>5. ASSUME NEW c \in Clients, UnlinkDone(c) PROVE Filled(p)'
  <2>1. PICK pc \in Pcs : GoTo(c, pc) /\ (Renames(c) => pc # "returned")
    BY <1>5 DEF UnlinkDone, Fails, Pcs, Renames
  <2>2. fs' = [fs EXCEPT ![op[c].dst] = Absent] /\ op[c].pc = "unlink"
    BY <1>5 DEF UnlinkDone
  <2>3. op[c].dst \in Paths /\ op[c].name \in {"rename", "unlink"}
    BY <2>2 DEF TypeInv, Shape
  <2>4. p # op[c].dst => fs'[p] = fs[p]
    BY <2>2, <2>3, <1>f
  <2>5. To(c, p) => pc # "returned"
    BY <2>1 DEF To
  <2>6. ~To(c, p) => fs'[p] = fs[p] \/ (op[c].name = "unlink" /\ op[c].dst = p)
    BY <2>3, <2>4 DEF To, Renames
  <2>7. ~To(c, p) => \/ fs'[p] # Absent \/ fs[p] = Absent
                     \/ Renames(c) /\ op[c].src = p
                     \/ op[c].name = "unlink" /\ op[c].dst = p
    BY <2>6
  <2>8. QED
    BY <2>1, <2>5, <2>7, FilledGo
\* A request that is refused or has no answer, or one of set_stat: rename does not return.
<1>6. ASSUME NEW c \in Clients, NEW pc \in Pcs, GoTo(c, pc), UNCHANGED fs, Renames(c) => pc # "returned"
      PROVE  Filled(p)'
  BY <1>6, FilledGo DEF To
<1>7. ASSUME NEW c \in Clients, RenameFails(c) \/ FirstRefused(c) \/ LaterRefused(c) \/ SetStatFails(c) PROVE Filled(p)'
  <2>1. PICK pc \in {"unlink", "error", "ioerror"} : GoTo(c, pc)
    BY <1>7 DEF RenameFails, FirstRefused, LaterRefused, SetStatFails, Fails, Raise
  <2>2. pc \in Pcs /\ pc # "returned" /\ UNCHANGED fs
    BY <1>7 DEF Pcs, RenameFails, FirstRefused, LaterRefused, SetStatFails
  <2>3. QED
    BY <2>1, <2>2, <1>6
<1>8. ASSUME NEW c \in Clients, SetStatDone(c) PROVE Filled(p)'
  <2>1. PICK pc \in {"returned", "error"} : GoTo(c, pc)
    BY <1>8 DEF SetStatDone, Fails
  <2>2. pc \in Pcs /\ UNCHANGED fs /\ ~Renames(c)
    BY <1>8 DEF Pcs, SetStatDone, TypeInv, Shape, Renames
  <2>3. QED
    BY <2>1, <2>2, <1>6
<1>9. CASE UNCHANGED vars
  BY <1>9 DEF vars, Filled, To, Undisturbed, Renames
<1>10. QED
  BY <1>1, <1>2, <1>3, <1>4, <1>5, <1>7, <1>8, <1>9 DEF Next, Call, Request

\* However many programs rename to a path at once, removing each other's files from it: when all have
\* returned, and none took the file away again, one is there.
THEOREM DestinationFilledCorrect == Spec => []DestinationFilled
<1> DEFINE Inv == TypeInv /\ \A p \in Paths : Filled(p)
<1>1. Init => Inv
  <2> Rest.name = "none"
    BY DEF Rest
  <2>1. Init => \A c \in Clients : ~Renames(c)
    <3> SUFFICES ASSUME Init, NEW c \in Clients PROVE op[c].name # "rename"
      BY DEF Renames
    <3>1. op[c] = Rest
      BY DEF Init
    <3>2. QED
      BY <3>1
  <2>2. Init => \A p \in Paths : Filled(p)
    BY <2>1 DEF Filled, To
  <2>3. QED
    BY <2>2, TypeInit
<1>2. Inv /\ [Next]_vars => Inv'
  BY TypeStep, FilledStep
<1>3. Inv => DestinationFilled
  BY DEF Filled, DestinationFilled, Undisturbed, To
<1>4. QED
  BY <1>1, <1>2, <1>3, PTL DEF Spec

-----------------------------------------------------------------------------
(* The attributes that set_stat changes *)

\* Only the server's part of a set_stat changes attributes.
LEMMA AttrsKeep ==
  ASSUME [Next]_vars, \A c \in Clients : ~SetStatDone(c)
  PROVE  attrs' = attrs
BY DEF Next, Call, Request, Rename, Unlink, SetStat, RenameDone, RenameFails, FirstRefused, UnlinkDone,
       LaterRefused, SetStatFails, vars

LEMMA AttrsChange ==
  ASSUME TypeInv, NEW c \in Clients, SetStatDone(c), NEW f \in Files, NEW x \in Fields,
         attrs'[f][x] # attrs[f][x]
  PROVE  /\ f = fs[op[c].dst] /\ x \in Announced(op[c].keys)
         /\ attrs'[f][x] = Stored(op[c].keys, x)
<1>1. attrs \in [Files -> [Fields -> Values]]
  BY DEF TypeInv, TypeOK
<1>2. f = fs[op[c].dst]
  BY <1>1 DEF SetStatDone
<1>3. attrs'[f][x] = IF x \in Announced(op[c].keys) THEN Stored(op[c].keys, x) ELSE attrs[f][x]
  BY <1>1, <1>2 DEF SetStatDone
<1>4. QED
  BY <1>2, <1>3

\* set_stat sets a mode exactly, and an owner or times only when both keys of the pair are given.
THEOREM StatExactCorrect == Spec => StatExact
<1> DEFINE Exact ==
      \A c \in Clients : op[c].pc = "setstat" /\ op'[c].pc # "setstat" =>
        \A f \in Files : \A x \in Fields : attrs'[f][x] # attrs[f][x] =>
          /\ f = fs[op[c].dst]
          /\ CASE x = "mode" -> "st_mode" \in op[c].keys /\ attrs'[f][x] = "st_mode"
               [] x \in {"uid", "gid"} -> {"st_uid", "st_gid"} \subseteq op[c].keys
               [] OTHER -> {"st_atime", "st_mtime"} \subseteq op[c].keys
<1>1. ASSUME TypeInv, [Next]_vars PROVE Exact
  <2> SUFFICES ASSUME NEW c \in Clients, op[c].pc = "setstat", op'[c].pc # "setstat",
                      NEW f \in Files, NEW x \in Fields, attrs'[f][x] # attrs[f][x]
               PROVE  /\ f = fs[op[c].dst]
                      /\ CASE x = "mode" -> "st_mode" \in op[c].keys /\ attrs'[f][x] = "st_mode"
                           [] x \in {"uid", "gid"} -> {"st_uid", "st_gid"} \subseteq op[c].keys
                           [] OTHER -> {"st_atime", "st_mtime"} \subseteq op[c].keys
    OBVIOUS
  <2>1. PICK d \in Clients : SetStatDone(d)
    BY <1>1, AttrsKeep
  <2>2. PICK pc \in {"returned", "error"} : GoTo(d, pc)
    BY <2>1 DEF SetStatDone, Fails
  <2>3. d = c
    BY <1>1, <2>2, OpGoTo DEF Pcs, Ends
  <2>4. f = fs[op[c].dst] /\ x \in Announced(op[c].keys) /\ attrs'[f][x] = Stored(op[c].keys, x)
    BY <1>1, <2>1, <2>3, AttrsChange
  <2>5. CASE x = "mode"
    BY <2>4, <2>5 DEF Announced, Stored
  <2>6. CASE x \in {"uid", "gid"}
    BY <2>4, <2>6 DEF Announced
  <2>7. CASE x \in {"atime", "mtime"}
    BY <2>4, <2>7 DEF Announced
  <2>8. QED
    BY <2>4, <2>5, <2>6, <2>7 DEF Fields
<1>2. TypeInv /\ [Next]_vars => [Exact]_vars
  BY <1>1
<1>3. TypeInv /\ [Next]_vars => TypeInv'
  BY TypeStep
<1>4. Spec => [][Exact]_vars
  BY <1>2, <1>3, TypeInit, PTL DEF Spec
<1>5. QED
  BY <1>4 DEF StatExact
=============================================================================
