------------------------------ MODULE SftpNames ------------------------------
(***************************************************************************)
(* Programs that rename, remove and change files of one SFTP server, each   *)
(* through an Sftp of its own (libssh2/sftp.py over src/sftp.c). A request   *)
(* is one step of the server; what makes the operations hard is that rename *)
(* is up to three requests, with those of other programs between them, and  *)
(* that the connection may fail before or after the server did its part.    *)
(* A file is named by the path it was at in the beginning.                  *)
(***************************************************************************)
EXTENDS Naturals

CONSTANTS
  Clients,
  Paths,
  Absent,      \* no file
  Statuses,    \* the SFTP statuses the server may refuse a request with
  Changes      \* the sets of attributes the programs give to set_stat

Keys == {"st_mode", "st_uid", "st_gid", "st_atime", "st_mtime"}

ASSUME Instance == Absent \notin Paths /\ Statuses \subseteq Nat \ {0} /\ Changes \subseteq SUBSET Keys

VARIABLES
  fs,       \* the file at each path
  attrs,    \* the attributes of each file: "old"; "new", as asked for; "other"
  op,       \* the operation of each program, and where it is, see Rest
  moved,    \* history: how often the server did the rename of each program
  removed   \* history: the files that requests of each program removed

vars == <<fs, attrs, op, moved, removed>>

Files  == Paths
Fields == {"mode", "uid", "gid", "atime", "mtime"}
Rest   == [pc |-> "start", name |-> "none", src |-> Absent, dst |-> Absent, file |-> Absent, keys |-> {}]

Init ==
  /\ fs \in {f \in [Paths -> Files \cup {Absent}] : \A p \in Paths : f[p] \in {p, Absent}}
  /\ attrs = [f \in Files |-> [x \in Fields |-> "old"]]
  /\ op = [c \in Clients |-> Rest]
  /\ moved = [c \in Clients |-> 0] /\ removed = [c \in Clients |-> {}]

\* libssh2_sftp_errno_to_exception: the errno of the IOError; "none": it is a PYLIBSSH2_Error.
Errno(status) ==
  CASE status \in {2, 10}       -> "ENOENT"
    [] status \in {3, 8}        -> "EPERM"
    [] status \in {4, 6, 9, 16} -> "EIO"
    [] status \in {5, 7} \cup (11 .. 15) \cup (17 .. 21) -> "another"
    [] OTHER                    -> "none"

GoTo(c, pc)  == op' = [op EXCEPT ![c].pc = pc]
Raise(c, errno) == GoTo(c, IF errno = "none" THEN "error" ELSE "ioerror")

\* Variant: whatever goes wrong with the first attempt, dst is removed and the attempt repeated.
FailsRetry(c) == GoTo(c, IF op[c].pc = "first" THEN "unlink" ELSE "error")

\* The native call fails without a status: no answer, or none that libssh2 understands.
Fails(c) == GoTo(c, "error")

-----------------------------------------------------------------------------
(* rename(src, dst), move *)

Rename(c, src, dst) ==
  /\ op[c].pc = "start"
  /\ op' = [op EXCEPT ![c] = [Rest EXCEPT !.pc = "first", !.name = "rename", !.src = src, !.dst = dst,
                                          !.file = fs[src]]]
  /\ UNCHANGED <<fs, attrs, moved, removed>>

\* The server renames, over a file at dst if that is its way; a path onto itself changes nothing.
ServerRenames(c) ==
  LET src == op[c].src  dst == op[c].dst IN
    /\ fs[src] # Absent
    /\ fs' = IF src = dst THEN fs ELSE [fs EXCEPT ![dst] = fs[src], ![src] = Absent]
    /\ moved' = [moved EXCEPT ![c] = @ + 1]
    /\ removed' = [removed EXCEPT ![c] = IF src = dst THEN @ ELSE @ \cup ({fs[dst]} \ {Absent})]

\* The native rename of either attempt is performed; the answer arrives or is lost.
RenameDone(c) ==
  /\ op[c].pc \in {"first", "second"} /\ ServerRenames(c)
  /\ GoTo(c, "returned") \/ Fails(c)
  /\ UNCHANGED attrs

RenameFails(c) ==
  /\ op[c].pc \in {"first", "second", "unlink"} /\ Fails(c)
  /\ UNCHANGED <<fs, attrs, moved, removed>>

\* if detail.errno == 5, the first attempt is followed by an unlink of dst; all else is raised.
FirstRefused(c) ==
  /\ op[c].pc = "first"
  /\ \E status \in Statuses :
       IF Errno(status) = "EIO" THEN GoTo(c, "unlink") ELSE Raise(c, Errno(status))
  /\ UNCHANGED <<fs, attrs, moved, removed>>

\* Variant: rename removes the source.
UnlinkSource(c) ==
  LET path == IF op[c].name = "rename" THEN op[c].src ELSE op[c].dst IN
    /\ op[c].pc = "unlink" /\ fs[path] # Absent
    /\ fs' = [fs EXCEPT ![path] = Absent]
    /\ removed' = [removed EXCEPT ![c] = @ \cup {fs[path]}]
    /\ GoTo(c, IF op[c].name = "rename" THEN "second" ELSE "returned") \/ Fails(c)
    /\ UNCHANGED <<attrs, moved>>

\* Variant: the second attempt is forgotten.
UnlinkOnly(c) ==
  /\ op[c].pc = "unlink" /\ fs[op[c].dst] # Absent
  /\ fs' = [fs EXCEPT ![op[c].dst] = Absent]
  /\ removed' = [removed EXCEPT ![c] = @ \cup {fs[op[c].dst]}]
  /\ GoTo(c, "returned") \/ Fails(c)
  /\ UNCHANGED <<attrs, moved>>

UnlinkDone(c) ==
  /\ op[c].pc = "unlink" /\ fs[op[c].dst] # Absent
  /\ fs' = [fs EXCEPT ![op[c].dst] = Absent]
  /\ removed' = [removed EXCEPT ![c] = @ \cup {fs[op[c].dst]}]
  /\ GoTo(c, IF op[c].name = "rename" THEN "second" ELSE "returned") \/ Fails(c)
  /\ UNCHANGED <<attrs, moved>>

\* The unlink is refused (there may be no file left), or the second attempt: the exception goes on.
LaterRefused(c) ==
  /\ op[c].pc \in {"unlink", "second"}
  /\ \E status \in Statuses : Raise(c, Errno(status))
  /\ UNCHANGED <<fs, attrs, moved, removed>>

-----------------------------------------------------------------------------
(* unlink(path), remove: one request *)

Unlink(c, path) ==
  /\ op[c].pc = "start"
  /\ op' = [op EXCEPT ![c] = [Rest EXCEPT !.pc = "unlink", !.name = "unlink", !.dst = path]]
  /\ UNCHANGED <<fs, attrs, moved, removed>>

-----------------------------------------------------------------------------
(* set_stat(path, attrs) *)

SetStat(c, path, keys) ==
  /\ op[c].pc = "start"
  /\ op' = [op EXCEPT ![c] = [Rest EXCEPT !.pc = "setstat", !.name = "set_stat", !.dst = path, !.keys = keys]]
  /\ UNCHANGED <<fs, attrs, moved, removed>>

\* Variant: one key of a pair is enough.
AnnouncedEither(keys) ==
  (IF "st_mode" \in keys THEN {"mode"} ELSE {})
    \cup (IF keys \cap {"st_uid", "st_gid"} # {} THEN {"uid", "gid"} ELSE {})
    \cup (IF keys \cap {"st_atime", "st_mtime"} # {} THEN {"atime", "mtime"} ELSE {})

\* attr.flags: the fields the request announces.
Announced(keys) ==
  (IF "st_mode" \in keys THEN {"mode"} ELSE {})
    \cup (IF {"st_uid", "st_gid"} \subseteq keys THEN {"uid", "gid"} ELSE {})
    \cup (IF {"st_atime", "st_mtime"} \subseteq keys THEN {"atime", "mtime"} ELSE {})

\* Variant: the size is taken for the owner.
StoredSize(keys, field) == CASE field = "mode" -> "st_mode" [] field = "uid" -> "st_size" [] OTHER -> "garbage"

\* st_uid, st_gid, st_atime and st_mtime are all stored in attr.uid, where the last one stays; gid,
\* atime and mtime are what the memory held before.
Stored(keys, field) ==
  CASE field = "mode" -> "st_mode"
    [] field = "uid"  -> IF "atime" \in Announced(keys) THEN "st_mtime" ELSE "st_gid"
    [] OTHER          -> "garbage"

SetStatDone(c) ==
  /\ op[c].pc = "setstat" /\ fs[op[c].dst] # Absent
  /\ LET keys == op[c].keys IN
       attrs' = [attrs EXCEPT ![fs[op[c].dst]] =
                   [x \in Fields |-> IF x \in Announced(keys) THEN Stored(keys, x) ELSE @[x]]]
  /\ GoTo(c, "returned") \/ Fails(c)
  /\ UNCHANGED <<fs, moved, removed>>

SetStatFails(c) ==
  /\ op[c].pc = "setstat"
  /\ Fails(c) \/ \E status \in Statuses : Raise(c, Errno(status))
  /\ UNCHANGED <<fs, attrs, moved, removed>>

-----------------------------------------------------------------------------
Call(c) == \/ \E src, dst \in Paths : Rename(c, src, dst)
           \/ \E path \in Paths : Unlink(c, path) \/ \E keys \in Changes : SetStat(c, path, keys)
Request(c) == \/ RenameDone(c) \/ RenameFails(c) \/ FirstRefused(c) \/ UnlinkDone(c) \/ LaterRefused(c)
              \/ SetStatDone(c) \/ SetStatFails(c)
Next == \E c \in Clients : Call(c) \/ Request(c)
Spec == Init /\ [][Next]_vars

-----------------------------------------------------------------------------
(* Correctness *)

Ends   == {"returned", "ioerror", "error"}
Values == Keys \cup {"old", "garbage"}

TypeOK ==
  /\ fs \in [Paths -> Files \cup {Absent}]
  /\ attrs \in [Files -> [Fields -> Values]]
  /\ op \in [Clients -> [pc : {"start", "first", "unlink", "second", "setstat"} \cup Ends,
                         name : {"none", "rename", "unlink", "set_stat"}, src : Paths \cup {Absent},
                         dst : Paths \cup {Absent}, file : Files \cup {Absent}, keys : SUBSET Keys]]
  /\ moved \in [Clients -> Nat] /\ removed \in [Clients -> SUBSET Files]

Renames(c) == op[c].name = "rename"

\* The second attempt of rename never repeats a rename the server has done: rename returns when it
\* was done, once; an IOError means that it was not done; after any other exception it may have been.
RenameVerdict ==
  \A c \in Clients : Renames(c) =>
    /\ moved[c] <= 1
    /\ op[c].pc = "returned" => moved[c] = 1
    /\ op[c].pc = "ioerror"  => moved[c] = 0

\* rename does not lose the file it is to move, whatever fails between its requests, but for a
\* rename of a path onto itself, and for a file that another program moved to the destination.
SourceKept ==
  \A c \in Clients :
    (Renames(c) /\ op[c].src # op[c].dst /\ op[c].file \in removed[c]) =>
      \E d \in Clients \ {c} : moved[d] > 0

\* When all the programs that rename to a path have returned, and none took the file away from
\* there, one is there: each of them put its file back in the place of what it removed.
DestinationFilled ==
  \A p \in Paths :
    LET to == {c \in Clients : Renames(c) /\ op[c].dst = p} IN
      (/\ to # {} /\ \A c \in to : op[c].pc = "returned"
       /\ \A c \in Clients : (Renames(c) /\ op[c].src = p => op[c].dst = p)
                            /\ (op[c].name = "unlink" => op[c].dst # p))
        => fs[p] # Absent

\* set_stat sets a mode exactly, and touches no field its dictionary does not speak of with both
\* keys of the pair (owner and group, access and modification time).
StatExact ==
  [][\A c \in Clients : op[c].pc = "setstat" /\ op'[c].pc # "setstat" =>
       \A f \in Files : \A x \in Fields : attrs'[f][x] # attrs[f][x] =>
         /\ f = fs[op[c].dst]
         /\ CASE x = "mode" -> "st_mode" \in op[c].keys /\ attrs'[f][x] = "st_mode"
              [] x \in {"uid", "gid"} -> {"st_uid", "st_gid"} \subseteq op[c].keys
              [] OTHER -> {"st_atime", "st_mtime"} \subseteq op[c].keys]_vars
=============================================================================
