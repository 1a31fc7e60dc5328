# pylibssh2 in TLA+

pylibssh2 is a Python 2 extension module: C types that wrap the objects of the libssh2 library
(`src/src/*.c`) and Python classes that delegate to them (`src/libssh2/*.py`). This directory holds
TLA+ models of the parts whose correctness depends on order, on threads and on who owns what, the
TLC configurations that check them on small instances, and proofs of what is checked, but for liveness, for
any number of threads, objects, programs and bytes.

## 1. Inventory

| Part | Source | State | Operations |
|---|---|---|---|
| Session | `src/src/session.c` | native session, `opened`, socket, sets `sftps`, `channels`, `listeners` | startup, authentication, open_session, scp_recv, scp_send, sftp_init, forward_listen, forward_cancel, channel_close, sftp_shutdown, direct_tcpip, callback_set, close, dealloc |
| Channel | `src/src/channel.c` | native channel | pty, shell, execute, read, write, eof, ..., `Channel_close`, dealloc, hash |
| Listener | `src/src/listener.c` | native listener | accept, `Listener_cancel`, dealloc |
| Sftp | `src/src/sftp.c` | native subsystem, sets `files`, `directories` | open_file, open_dir, close_file, close_dir, unlink, rename, stat..., `Sftp_shutdown`, dealloc |
| Sftpfile, Sftpdir | `src/src/sftpfile.c`, `src/src/sftpdir.c` | native handle | read, write, seek, tell, list_files, close, dealloc |
| Conversions | `src/src/util.c`, `src/src/pylibssh2.c`, `sftp.c` | none | get_flags, stat and attribute dictionaries, error texts |
| Python classes | `src/libssh2/*.py` | the wrapped object | one delegation each; `scp_send_file`, `scp_recv_file`, `Sftp.rename`, `copy_file`, `get`, `put`, `rmrf`, `mv` do more |
| Callbacks | `src/src/session.c` | the globals `interactive_response`, `interactive_response_len`, `py_callback_func` | `stub_kbd_callback_func`, `stub_x11_callback_func`, run inside native calls of any method |
| libssh2, the peer | not in the repository | native objects, last error of a session, SFTP status | |

**How they interact.** A child (channel, listener, subsystem, file, directory) keeps a raw native
pointer and no reference to its parent. The parent keeps its children in `PySet`s that own a
reference each; the hash of a channel, a listener or a subsystem is made of its native pointer (that
of a file or a directory of the pointers of its subsystem and session only: all files of a subsystem
share one hash, and are told apart by identity, as their types have no `tp_compare`). A method releases the GIL around its
blocking native call and nowhere else, so that every other statement of a method is atomic, and
whatever it tested before the call may have changed after it. Closing goes down the tree:
`Session_close` pops the subsystems (each `Sftp_shutdown` pops its directories and files), then the
channels, then the listeners, disconnects; the destructor of the session does the same and then calls
`libssh2_session_free`, which frees every native object still there. Errors come back through one last
error per session and one last status per SFTP subsystem, read after the native call.

**What is hard.** Two closes of one object in the window without the GIL; handles opened while
their subsystem is being shut down; the last reference given up inside a close loop; wrappers that
survive the native object they point to; sets whose members would change their hash; the last error
read when other threads have already failed too; loops that must drain a set or a file; exceptions on the way
out of a copy, before or after the close; globals that a
callback reads long after a method wrote them, without the GIL or for another session; a callback that
leaves the GIL held; operations of several requests, with other programs on the server and lost answers
between them; copies that take a failure for the end of a file. The hazards, each
with its line and the properties that watch it, are in `PROJECT.json`.

**What makes each part correct.**
- Session and its tree: a native object is freed once, never under a wrapper that still points to it
  and never while its owner may use it; closing releases everything; dropping everything leaks nothing
  (but what the code does leak, stated exactly); closing terminates.
- Error reports: an exception is raised exactly for a failure, and its code, text and status are those
  of the call that failed.
- File copies (SCP and SFTP): what arrives is the file from its beginning, in order; it is complete when the
  call returns, but in the cases that are named; channels and remote files are closed; the loop ends.
- Names and attributes on a server: the result of `rename` says what became of the names, its fallback loses
  no file, `set_stat` changes what it was asked to.
- Authentication: a session answers with its own password; `userauth_agent` tries every identity once and
  its result is what became of the authentication.
- Callbacks: every call comes back with the GIL where it was. A session should run its own callback; the global
  makes it run the last one set (see the limits in section 3).
- References: the count of an object is that of its owners, so that the last one, and no one earlier,
  deallocates it; the socket outlives libssh2's use of it.

## 2. Modules

| Module | Models | Lines of the code |
|---|---|---|
| `Lifetime` | the wrappers, their sets, references, destructors and native objects, for several threads | `session.c`, `channel.c`, `listener.c`, `sftp.c`, `sftpfile.c`, `sftpdir.c` |
| `OwnedHandles` | the abstract promise: a wrapper and its native object begin and end together | - |
| `MCLifetime` | symmetry of the threads and of the files, and the bound `MaxCreated`, for TLC | - |
| `LifetimeProofs`, `LifetimeSessionProofs` | the theorems about `Lifetime`: types, frees, references, owners and sets; the life of the session, what is left at its end, and one thread's order of closing | - |
| `References` | the reference counts of a session, its channels and listeners and the sockets of `startup`, as the INCREFs and DECREFs leave them | `session.c` |
| `NativeCalls` | how 49 methods turn the outcome of a native call into a result or an exception | all C files |
| `NativeCallsProofs` | the theorems about `NativeCalls` | - |
| `Callbacks` | the two callbacks with the GIL, the globals they read, and the calls they run in: callback_set, userauth_keyboardinteractive, userauth_agent | `session.c` |
| `CallbacksProofs` | the theorems about `Callbacks` | - |
| `FileCopy` | the abstract promise of every copy: the destination grows by bytes of the source, in order, until the call is over | - |
| `FileParts` | lemmas about the parts of a file: what appending, cutting and buffering leave of it | - |
| `ScpTransfer`, `ScpTransferProofs` | `scp_send_file`, `scp_recv_file` and the peer; the theorems | `libssh2/session.py` |
| `SftpFiles`, `SftpFilesProofs` | `get`, `put`, `copy_file`, `read(-1)` and `open_file` with its modes; the theorems | `libssh2/sftp.py`, `sftpfile.py`, `sftp.c`, `sftpfile.c`, `util.c` |
| `SftpNames`, `SftpNamesProofs` | `rename` with its fallback, `unlink`, `set_stat`, for several programs on one server; the theorems | `libssh2/sftp.py`, `sftp.c` |
| `MCSftpNames` | symmetry and the attribute sets for TLC | - |

`Lifetime`, `NativeCalls` and `Callbacks` are three views of the same methods: who owns what, what is reported,
and what runs inside; `References` is below `Lifetime`. They share no variable: an error report does not depend on the ownership of
wrappers, and the callbacks touch no wrapper. `ScpTransfer` and `SftpFiles` both implement `FileCopy`
(`INSTANCE FileCopy WITH state <- ...`), and `Lifetime` implements `OwnedHandles` (`Promise`, at its end, maps
`py` and `ptr` to the state of a wrapper).

### Lifetime

One session with its wrappers. The identifiers of wrappers are split by type into constants
(`Channels`, `Accepted`, `Listeners`, `Sftps`, `Files`, `Dirs`); each identifier stands for one wrapper
that is created at most once.

Per thread, `th[t]` is the C stack: `pc` (idle, holding the GIL between two native calls, or inside
one of the native calls that release it), the wrapper `obj` it works on, the `sftp` whose method or shutdown
is running, which `loop` of that shutdown, which session method or loop of `Session_close` is below it
(`sess`), and whether the pointer read before the release of the GIL was not NULL (`arg`). An action is
what happens between two points at which another thread may run: the code from a return of a native
call to the next release of the GIL, or one turn of a loop. `GilFree` says no thread is in a state
that holds the GIL; an action of a thread that does not hold it needs `GilFree`.

A reference count is not a number: it is the set of owners. `user` (variables of the program),
`reg` (the sets), the frames of threads (`Held`: CPython keeps `self` and the arguments of a call alive)
and `pinned` (the reference to its channel that `scp_recv` never gives back). `Owned(o, t)` is "the count stays above
zero after thread t gives up its reference", and the destructors run from `Last`. That the counting in the code comes
to that is not a property of this module but of `References`.

An object of `Failing` may survive its native close (`Ends`), whose result no caller looks at: its wrapper forgets
it, and only `libssh2_session_free` ends it. A native object is `live` or `dead`; `libssh2_sftp_shutdown` ends the handles of its subsystem and
`libssh2_session_free` everything. `stale` and `nulls` record the wrappers that passed libssh2 a dead
object or a NULL pointer, `freed` counts the frees of each channel and subsystem: they are history
variables the code does not have.

Correspondence: `StartupBegin/End` = startup; `OpenBegin/End` = open_session, scp_recv, forward_listen;
`OpenLocked` = scp_send, sftp_init (no release of the GIL); `UseBegin/End` = any method with one native call, `UseAgain` the next
round of `list_files`, which reads `self->handle` again;
`AcceptBegin/End` = Listener.accept; `OpenHandleBegin/End` = open_file, open_dir; `ChannelClose`,
`ForwardCancel`, `SftpShutdown`, `CloseHandle` = the closing methods; `EnterChannelClose` with
`ChannelCloseEnd` = `Channel_close`; `EnterDestroy` with `DestroyEnd` = `Listener_cancel`,
`PYLIBSSH2_Sftpfile_close`, `PYLIBSSH2_Sftpdir_close`; `EnterShutdown`, `ShutdownPop`, `ShutdownNextLoop`,
`ShutdownEnd` = `Sftp_shutdown`; `SessionClose`, `ClosePop*`, `CloseNextLoop`, `DisconnectEnd` =
`Session_close`; `Leave`, `SessionFree`, `FinalPop`, `FinalEnd` = the destructor of the session; `*Dealloc`
= the other destructors.

### References

The same methods as seen by the counts: `Refs` adds up the INCREFs and DECREFs of a step and deallocates what comes to
zero. `Counted` compares the count with the owners, which are counted apart: variables, the sets (`set` stands for
`channels` and `listeners`, which are used alike), `self->socket`, and the frames of calls. The point is in the places
where two threads take the reference of a set: `Pop` gives it to the caller, `CloseBegin` (`PySet_Discard`) drops it
only when the object is still there. `lost` is what the code forgets: the channel of `scp_recv` (session.c:814) and the
socket of an earlier `startup` (session.c:48). `handed` are the sockets whose descriptor libssh2 has.

The operators introduced by "Variant:" are not used by the specification. Each is a plausible wrong
version of the operator that follows it, and shows which property would notice that mistake.

### NativeCalls

One record per method (`Rule`): what its native call may return, which outcomes raise, where the
exception takes its code and text from, whether an SFTP status replaces them, and whether the GIL is released.
`Begin`, `Answer` (libssh2 ends the call and records the last error and status) and
`Finish` (the tests after the call, one step under the GIL) are the same for all methods. A text or a status is
modelled by the call it belongs to. The threads share the session's last error (`last`) and any Sftp's last status
(`status`); `since` is a history variable, the calls answered between the answer of a call and its report.
An outcome is also a NULL that leaves no error: `accepted` from `userauth_list`, `absent` from `hostkey_hash`.

### ScpTransfer

The two loops of `scp_send_file` and `scp_recv_file` on a file of numbered bytes, a channel with a
window that the peer refills, and exceptions at every native call and at every use of the local file. `wait_eof` and
`wait_closed` (`SendWaitEof`, `SendClose`) wait for the peer's end and close (`PeerEof`, `PeerClose`).

### Callbacks

Threads that each work on a session of their own, so that what they share is the GIL (`gil`) and the three
globals (`answer`, `func`). `th[t].pc` says where a thread is: in Python code, in a native call that does not read
packets on behalf of an authentication (`native`), at a prompt of the peer (`prompt`, and `length` between the
two reads of the globals), in the stub before and after `PyGILState_Ensure` (`ensure`, `callback`), or in
`userauth_agent` (`connect`, `loop`, `auth`, `disconnect`, `result`). `back` is the call a callback interrupts,
`nested` is what `PyGILState_Ensure` found, `kept` that the stub went away without `PyGILState_Release`.
`Resume` and `Switch` are the interpreter, which may hand the GIL over between any two bytecodes, also in a
callback. A password and a callback are named by the thread that gave them. `KbdText` copies a string that
may be gone with the call that gave it: it is then nobody's.

`userauth_agent` (session.c:558-617) is one action per native call: `AgentNext` is `libssh2_agent_get_identity`, which
returns 1 and leaves `store` where it was at the end of the list, upon which the code tries that identity
once more; `AgentAccepted`, `AgentRefused` are `libssh2_agent_userauth` with the tests behind it; `Finish` is
`PyErr_Occurred`, which raises whatever exception is pending.

### SftpNames

A request is one step of the server. `rename` is up to three: the rename, and on errno 5 an unlink of the
destination and the rename again. `*Done` is a request the server performs, after which the answer may be lost;
`*Refused` one it answers with a status; `*Fails` one without an answer. `Errno` is the map from statuses to
errno: the fallback is taken for EIO, to which several statuses are mapped. `moved` and `removed` are history
variables: how often the server did a call's rename, and which files its requests removed. `Announced` and
`Stored` are the flags and the fields of `set_stat`'s attributes, with the memory that is not written.

### SftpFiles

One call with its source and destination. A read returns at least one byte of what is left, or fails; a write is
taken as a whole up to the size of a packet, otherwise in part, or fails. `ReadOver` is where each of the
four goes when a read returned nothing, or failed, which they do not tell apart. `Flags` is `get_flags`, and
the open request applies it to a destination that is or is not there; `same` is a `copy_file` of a
file onto itself, whose source the open empties. The history variable `failed` records that an error was
taken for the end of the file.

## 3. Runs

| Run | Instance | Shows |
|---|---|---|
| `lifetime_serial` | 1 thread, a channel whose native close may fail, an accepted channel, a listener, a subsystem, a directory | `TypeOK`, `OnlyUnownedStale`, `OnlyUncheckedNulls`, `ClosedReleasesAll`, that the model implements `OwnedHandles` (`KeepsPromise`), and that closing ends (`CloseEnds`) |
| `lifetime_threads` | 2 threads; any three of a channel, a listener, a subsystem and two files | `FreedOnce`, `RegisteredOpen`, `FilesDrained`, `NothingKept`, `FreedAfterUse` |
| `references` | 2 threads, a channel, a listener, two sockets | `TypeOK`, `Counted`, `SocketsHeld`, `AllGivenBack` |
| `calls_reports` | 2 threads, 1 Sftp, all 49 methods, 2 calls, 4 error codes | `TypeOK`, `ReportsRecent`, `ReportsOwn`, `VerdictMatches` |
| `calls_text` | 2 threads, six methods | `TextIsOwn` is violated |
| `calls_docs` | 2 threads, six methods | `FailureReturned` is violated |
| `scp_copy` | 7 bytes, chunks of 3 and 2, windows 1, 2, 4, 7 | `TypeOK`, `DoneComplete`, `RecvCloses`, that both helpers implement `FileCopy` (`IsCopy`), `CopyEnds` |
| `scp_sent` | the same | `ContentSent` is violated |
| `callbacks` | 2 threads, 1 prompt, 1 message in a native call, agents with 0 or 1 identity | `TypeOK`, `AloneAnswersOwn`, `OnlyNegativeBlocks`, `AgentVerdict`, `CallsEnd` |
| `kbd_answers` | the same | `AnswersOwn` is violated |
| `sftp_names` | 3 programs, 3 paths, refusals for a missing file (2), for EIO (4) and with a status that has no errno (22), 4 sets of attributes | `TypeOK`, `RenameVerdict`, `SourceKept`, `DestinationFilled`, `StatExact` |
| `sftp_files` | files of 0 to 5 bytes, buffers of 2, packets of 3 | `TypeOK`, `WholeUnlessFailed`, `LeavesNothing`, `OpensAsPython`, that the four implement `FileCopy` (`IsCopy`), `CopyEnds` |

**Bounds.** In `Lifetime` the sets of identifiers bound how many objects of each kind a session ever
creates; there is no bound on the number of calls. One wrapper of a kind is enough for a close that
races a close, a use or a drop of the same wrapper, and for all orders of closing parent and child; two
files are used where a member that is added late must be told from the one being closed. Two threads
are enough for a race in one window, the theorems cover more. In `lifetime_threads` the
constraint `FewCreated` leaves out programs that create more than `MaxCreated` = 3 wrappers: a subsystem with both files, a
channel and a listener with a subsystem, and every other three are there, in every order. Two threads meet no directory
and no channel of `accept` in these runs; for those the theorems stand. `Failing` is the set of objects whose
native close may fail: a channel in `lifetime_serial`, none in `lifetime_threads`, any set in the theorems. In
`References` two sockets tell a second `startup` from the first, and `MaxLost` bounds how often one socket may be
forgotten. In `NativeCalls` two calls let the error of a call survive into the next, of the same thread or of
another, and one Sftp is shared by all threads; `MaxCalls` is the bound, and the theorems have any number of
threads, calls and Sftps. In
`ScpTransfer` and `SftpFiles` the windows, buffers and packets are smaller than, larger than and no
divisor of the file, and the last chunk is short; the theorems cover every size. In `Callbacks` `MaxPrompts`,
`MaxEvents` and `MaxIds` bound what a peer, a native call and an agent may ask for: one prompt is enough for a write
of the globals before, between and after its two reads, one message for a callback in every place; the
theorems cover more of each. In `SftpNames` each program runs one operation: three of them fill all the gaps
of one rename with a rename and a removal, on three paths, of which two may be one.

**Deadlock** is not checked in any run: a program that has dropped its session, made its calls, run its operation or
finished its copy has stopped, and a callback that returned a negative number may stop every thread.

**Fairness.** `lifetime_serial` assumes weak fairness of `Proceed(t)`: a native call in progress returns
(the calls of a blocking session do, or fail) and a thread that holds the GIL goes on. No fairness is
assumed of what the user's program calls. `scp_copy` assumes it of the program's loop and of a peer that
reads what it was sent, answers the end of the channel with its own and then closes it (`wait_eof` and
`wait_closed` wait for these two steps of the peer), and sends the size it announced; a peer that ends the channel early makes
`scp_recv_file` loop for ever, which is the code's behaviour (`channel.read` returns an empty string and
`got` stays behind `file_size`), and is why `PeerDies` is FALSE there. `sftp_files` assumes that native calls
return. `callbacks` assumes strong fairness of the steps of a call and of a callback that waits for the GIL: the lock
comes free again and again without staying free, and CPython's lock lets every waiter have it in the
end; and weak fairness of giving it up in Python code, which the interpreter does every so many bytecodes. Nothing is
assumed of the peer, of the user's program or of what a callback returns.

**What the violated runs show.** They are the four findings of `PROJECT.json`:

- `calls_text`: the text in an exception can be that of another thread's failure with the same code.
- `calls_docs`: 18 methods whose docs promise a negative number, zero or None on failure raise instead.
- `kbd_answers`: a keyboard-interactive authentication answers with the password of another session's.
- `scp_sent`: a partly accepted chunk loses its last byte.

Three more weaknesses are in the models as they are in the code, and no run states them, because each follows from a
single statement. `scp_recv_file` gives `os.utime` the two times in the wrong order (session.py:268; test_scp.py:88
expects them kept): `SetTimes`. `callback_set` keeps one callback for all sessions (session.c:1290), where
session.py:53 speaks of the session's: `CallbackSet`. `get` takes a failed read for the end of the file and returns as
if it had copied it (sftpfile.c:85, sftp.py:189): `ReadOver` with `failed`.

**What passing properties say of the code's limits.** Some are exact statements of a weakness, and hold because the
weakness is named in them:

- `OnlyUnownedStale`, `OnlyUncheckedNulls`: listeners, and channels of `accept`, may reach libssh2 after their native
  object is gone; listeners, files and directories may be closed with a NULL pointer.
- `Counted`, `AllGivenBack`: `scp_recv` and a second `startup` lose a reference each time (`lost`).
- `OnlyNegativeBlocks`: a callback that returns a negative number makes its thread wait for a lock it holds
  (session.c:1256).
- `RecvCloses`: the channel stays open when `open` of the local file fails, which is not in the `try`
  (session.py:244), and when `f.close()` raises before the close of the channel (session.py:257).
- `VerdictMatches`: `userauth_list` raises also when NULL means that the session is authenticated, `read_ex` for
  0 bytes, `exit_status` for status 0; `hostkey_hash`, `Sftpfile.read`, `Sftpdir.read` and `list_files` give None for
  a failure.
- `ReportsRecent`: what another thread's call left in the session or in a shared Sftp between the native call and the
  report is reported; and a call that itself leaves no error (one that would block, an accepted `none`) may repeat an
  old text. A status is bounded only for the methods that have the code of their own call: `open_file` and `open_dir`
  ask the session for the code, and when that is by then another call's SFTP_PROTOCOL on another Sftp, they read
  whatever older status their own Sftp has.
- `WholeUnlessFailed`: a failed read ends a copy that is then reported as complete; `copy_file` writes at most a packet.
- `LeavesNothing`: `copy_file` of a file onto itself empties it.
- `OpensAsPython`: leaves out `a`, which `get_flags` turns into APPEND without WRITE.
- `OfferedInOrder` (a theorem only: the instance of `callbacks` has at most one identity, which has no order to
  break): the last identity is tried twice, and an agent without identities has NULL tried.
- `SourceKept`: a rename of a path onto itself whose first attempt the server refuses removes the file.
- `RenameVerdict`: a rename whose fallback removed the destination and then failed raises; the destination is gone.
- `StatExact`: `uid` and the fields announced in the flags without a value are left open.

## 4. Proofs

`LifetimeProofs` and `LifetimeSessionProofs` prove, for every finite or infinite choice of the constants that keeps
the kinds of objects apart (`Kinds`, the only assumption of the module):

- `TypeCorrect`: `Spec => []TypeOK`. It is inductive as it stands because `TypeOK` contains `Shape`, which
  relates where a thread is to what its frame holds. The lemmas `...Good` show that each way to build a frame
  gives a well-shaped one.
- `FreedOnceCorrect`: `Spec => []FreedOnce`. `FreedOnce` is not inductive: a channel freed once could be freed
  again. The invariant `FreeInv` adds that a wrapper that was created and has been freed has a NULL pointer,
  and that one not created yet has not been freed; `PointerStep` says what any step may do to a pointer.
- `OwnedAlive`: `Spec => []AliveInv`: whatever owns a wrapper (a set, a variable, a leaked reference, a frame) finds
  it alive. It follows the definition of ownership and is a lemma for what comes next; that the code's counting is such
  an ownership is `Counted` in `References`. `AliveKeep` disposes of the steps that deallocate nothing, `AliveDrop` of
  the destructors.
- `EveryWrapperOwned`: `Spec => []OwnedInv`, the converse: a wrapper that is alive has an owner. It is what
  reference counting must do and is wrong as soon as one path takes a wrapper out of a set without running its
  destructor. The cases are the places where a reference is given up: either `Owned(o, t)` finds another owner, and
  a thread other than t holds it, or `Last` runs the destructor. `OwnedKeep` reduces each step to what t's old
  frame and the sets no longer own. The invariant also needs that the subsystem of a registered handle is alive:
  the destructor of a subsystem empties `files` and `directories` before the wrapper goes.
- `RegisteredOpenCorrect`: `Spec => []RegisteredOpen`. `RegInv` adds that what a frame is closing (a channel, a
  listener, the subsystem whose loops run) is in no set. It needs `AliveInv`: a new wrapper that is
  registered cannot be one that a frame is closing, because that one exists.
- `FilesDrainedCorrect`: `Spec => []FilesDrained`, from `FileInv`, which adds that a registered file has a
  subsystem. The two steps that matter are `OpenHandleEnd`, which reads the subsystem's pointer again after its
  native call, and `ShutdownEnd`, which finds the set of files empty without letting go of the GIL.
- `FreedAfterUseCorrect`: `Spec => []FreedAfterUse`. `SessInv` adds that `opened` means connected, and that from the
  moment the last reference goes there is no variable and only one thread in the session.
- `NothingKeptCorrect`: `Spec => []NothingKept`, for any number of threads, although they may close and drop the same
  things at once. `EndInv` says that a session without a variable is gone or has a thread in it, that a freed native
  session has no live object, also none whose own close failed, and that a session that is gone has empty sets. When all threads are idle, the first part says
  that the session is gone, the third that its sets are empty, and `OwnedInv` that every wrapper still alive is one
  nobody will ever give up: a pinned one, or one in a set of a subsystem that would have to be alive itself.

The other theorems about `Lifetime` assume `OneThread` (`Threads` has one element; `lifetime_serial` is such an
instance), and any number of objects. They say what the program can rely on when its calls do not overlap, and
all four fail for two threads: one may use a pointer that it read before another closed the object, or get an
answer to a request that was in flight when another closed the session.

- `ClosedReleasesAllCorrect`, from `SerialInv`. `ReachInv` says that the wrappers that are open are those that can be
  found: an open channel or subsystem is in a set of its session or is what the frame is closing, an open file
  or directory is in its subsystem's set or is what the frame is closing, and its subsystem is open; and it says which sets are
  empty at each place of the loops of `Session_close` (`Drained`). `MatchInv` says that a wrapper is open exactly
  while its native object is live, but for an object whose close failed, which stays live behind a closed wrapper. Each needs the other: only because a handle's subsystem is open and its sets are
  empty when `libssh2_sftp_shutdown` is called does that call end no other object.
- `OnlyUnownedStaleCorrect` and `OnlyUncheckedNullsCorrect`, from `SerialInv` as well (`StaleInv`): what is handed to libssh2 is
  a wrapper's pointer, and by `MatchInv` one that is not NULL is live.
- `KeepsPromiseCorrect`: `Spec => KeepsPromise`, the refinement of `OwnedHandles`. `OneChanges` and `AllSame` say of
  every step that it opens one wrapper with its object, closes one with its object, or does neither
  (`PromiseStep`); `PromiseNext` turns that into a step of `OwnedHandles` or a stutter.

`NativeCallsProofs`, for every finite set of threads, any set of error codes that are neither counts nor
pointers, any subset of the methods and any `MaxCalls` (`Instance`):

- `RulesFit` goes through the 49 methods once: every report fits the outcomes it is used for (`Sound`), a failed outcome
  raises or gives None, and only the methods named raise for a success or give None (`Fits`). `VerdictMatchesCorrect`
  and `TypeCorrect` follow from it, with `Knows`, which carries the method and its outcome from the native call to the
  report; `CallsBound` is why no thread makes more calls than `MaxCalls`.
- `ReportsRecentCorrect` and `ReportsOwnCorrect` from one invariant, `RecentInv`. `since[t]` are the calls answered
  after that of t and before its report; `Fresh` says that until t reports, the session's last error and the
  status of its Sftp are of its own call or of one in `since[t]`, and of its own when there is none. `RecentReport` goes
  through the four ways to report. `ReportsOwn` is the case `since[t] = {}`, `ReportsRecent` the others.

The lemmas that make the case analysis short say what each way of building a frame does to the field an
invariant speaks of (`GivingAway`, `AfterMethod`, ...), so that each action of `Next` is one short step.

`CallbacksProofs`, for any set of threads and any `MaxPrompts`, `MaxEvents`, `MaxIds` (`Instance`): `TypeCorrect`,
`AloneAnswersOwnCorrect`, `OnlyNegativeBlocksCorrect`, `AgentVerdictCorrect`, `OfferedInOrderCorrect`, all from one invariant `Inv` with a part for each:
- `GilInv` adds where a thread may have the GIL inside the stub, and that `nested` under a native call means
  that it was kept before: `Ensure` reads `gil`, `Return` trusts what it read.
- `KbdInv` says that the globals are those of a dialogue nobody came into, from its beginning; `length` needs
  the half that has been read already.
- `AgentInv` follows the loop: what `store` and `offers` are at its head and after `AgentNext`, that an
  exception of its own is set only on the way out without an authentication, and that no other place has one.

The frame lemmas (`GoToFrame`, `BackFrame`, ...) say where a step leaves the frame of its thread; `QuietStep`,
`AgentStep`, `DialogueStep` and `AnswerStep` say what is left to show of a step that changes that much.

`SftpNamesProofs`, for any programs, paths, statuses and attribute sets: `TypeCorrect`; `RenameVerdictCorrect`, from
`Verdict`: a request of `rename` is sent only while the server has done none of this call; `SourceKeptCorrect`,
from `Kept` and `Unmoved`: without a rename of another program, the file at a path is the one that began
there, so that what the fallback removes is not the source; `DestinationFilledCorrect`, from `Filled`, which is inductive with the
type invariant: a file at p goes away only by an unlink there, by a rename from there or by the fallback of a rename to
p, and that one has not returned before it has put its own file there; `StatExactCorrect`, an action property that
follows from the type invariant.

`SftpFilesProofs` and `ScpTransferProofs`, for files, buffers, chunks, packets and windows of any size, with a peer
that may end the channel early: `TypeCorrect`, `WholeUnlessFailedCorrect`, `LeavesNothingCorrect`,
`OpensAsPythonCorrect`; `DoneCompleteCorrect`, `RecvClosesCorrect` (the two ways out that leave the channel open are the ones
named in it, and no other); and in each the refinement
`CopyRefinement`: `Spec => IsCopy`. Both rest on the lemmas of `FileParts` about `Part(s, k, size)`, the bytes of a file
that follow its first k. In both invariants the destination is `Part(out, 0, Size)` and what is buffered
continues it, `Part(buf, Len(out), Size)`; the rest says how far the source has been read at each place. For
`scp_send_file` the point is why losing a byte leaves no gap: a chunk that lost one is shorter than
`write_len`, so that no chunk is read after it (`Files`). `Whole` says when nothing is lost. A step of the
detailed specification is then a step of `FileCopy` or leaves its state alone, because the destination does
not get shorter and changes only before the call is over (`OutGrows`).

Only model-checked: liveness under fairness (`CloseEnds`, `CopyEnds`, `CallsEnd`), which is outside what the prover
handles, and the module `References`. Every other property of a passing run is a theorem. That the violated runs are
violated is TLC's counterexample alone.

## 5. Assumptions about the outside

- CPython: references of `self` and arguments are held during a call; the GIL is released only at
  `Py_BEGIN_ALLOW_THREADS`.
- libssh2: `session_free` succeeds and frees the remaining channels and listeners, also those whose own close failed;
  a close that fails or would block leaves its object as it was; `sftp_shutdown` makes the
  subsystem's handles unusable; opening fails after a disconnect, though a request in flight may still
  be answered; a failing call records its code and text in the session, except one that would block; a
  success records nothing; `channel_write` sends what fits in the window.
- `libssh2_agent_get_identity` returns 1 after the last identity and leaves its result alone; `libssh2_sftp_read`
  returns at least a byte of what is left; `libssh2_sftp_write` takes a buffer of up to 30000 bytes whole or fails.
- An SFTP server performs a request at once, may refuse any, may rename over an existing file or refuse to, and the
  connection may be lost before or after it acts.
- libssh2 does not allow two threads in one session at a time. The models let native calls overlap, as
  the code does, and are about the wrappers' own state.

## 6. Not modelled

- `direct_tcpip`: returns the native pointer itself as a Python object; there is no defined behaviour to model.
- Several sessions in `Lifetime`, `set_trace`.
- Reference counts of Sftps, files and directories: the sets of an Sftp are used in the same way as those of a session,
  one level of which is in `References`.
- Methods called from inside a callback, on its own session or on another: `Callbacks` lets the callback run Python code
  for as long as it likes, but no method of this module.
- The arguments the stub gives a callback: it has the signature of the X11 callback, which the types
  `callback_set` accepts do not have. `callback_set` refuses `LIBSSH2_CALLBACK_X11` and takes the others
  (session.c:1285), although its message says that only X11 is supported and `examples/ssh_x11.py` sets it; the model
  takes the test as it is, and what the arguments then are is undefined.
- The references the stub gives up after `PyGILState_Release` (session.c:1264): their arguments are
  new for each call, but if the callback kept one, another thread may change its count at the same time.
- The requests with nothing but a verdict (mkdir, rmdir, symlink, realpath, readlink, get_stat, exists) are methods of
  `NativeCalls` or calls of one; their effects on the server's names are not followed. The stat dictionaries
  copy one struct each.
- The wording of error messages, logging, `session_methods`, constant tables and module initialisation.
- `rmrf` and `mv`: shell command lines whose effects are on the remote host.
- Examples, tests and packaging.

## 7. Plan

1. Done: `Lifetime` with `OwnedHandles`, `References`, `NativeCalls`, `ScpTransfer`; `Callbacks`, `SftpNames`,
   `SftpFiles` with `FileCopy`; the theorems of section 4.
2. `Lifetime` with two sessions that share a socket; `References` with a second level of sets, and proved.
3. `Callbacks` with a callback that calls methods, composed with `Lifetime`: a callback that closes the session it
   runs for.
4. Proofs: what the extensions of 2 and 3 need; a condition weaker than `OneThread` under which several threads
   implement `OwnedHandles` (no thread closes what another uses).
