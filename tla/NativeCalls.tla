----------------------------- MODULE NativeCalls -----------------------------
(***************************************************************************)
(* How a method of a wrapper turns the outcome of its native call into a   *)
(* result or an exception. libssh2 keeps the last error of a session in    *)
(* one place, and the last status of each SFTP subsystem in another; the   *)
(* method reads them after it has the GIL back, when other threads may     *)
(* have written them. The threads share one session and its Sftps.         *)
(*                                                                         *)
(* An outcome is "zero", "positive", "pointer", "null", an error code (a   *)
(* negative number), or a NULL that leaves no error in the session:        *)
(* "accepted" when there is nothing to list because the authentication     *)
(* "none" succeeded, "absent" when there is no hash. A text or a status is *)
(* told apart only by the call it belongs to.                              *)
(***************************************************************************)
EXTENDS Integers, FiniteSets

CONSTANTS
  Threads,
  Sftps,      \* the SFTP subsystems of the session
  Codes,      \* error codes of libssh2
  Used,       \* the methods the threads call
  MaxCalls,   \* bound: calls of all threads together
  None        \* no call, no subsystem

Counts   == {"zero", "positive"} \cup Codes
Statuses == {"zero"} \cup Codes
Pointers == {"pointer", "null"}
Unset    == {"accepted", "absent"}

\* One method: what its native call can return, the outcomes that raise and those that give None,
\* where the exception takes its code and its text from, what it has to do with an Sftp, and
\* whether the GIL is released around the native call.
\*   "own"     the code returned             "fixed"  neither, a constant message
\*   "matched" the code returned; the text of the session if its last error has that code
\*   "last"    code and text of the session's last error
\* sftp: "no"; "through" when the native call goes through one, and leaves a status there; "reports"
\* when a code SFTP_PROTOCOL is moreover reported by that status instead.
Rule(returns, raises, nones, report, sftp, window) ==
  [returns |-> returns, raises |-> raises, nones |-> nones, report |-> report, sftp |-> sftp, window |-> window]

Request(returns)     == Rule(returns, Codes, {}, "matched", "no", TRUE)
SftpRequest(returns) == Rule(returns, Codes, {}, "matched", "reports", TRUE)
Opening(sftp, window) == Rule(Pointers, {"null"}, {}, "last", sftp, window)
Plain(returns, window) == Rule(returns, {}, {}, "fixed", "no", window)

(* Session *)
Session_startup       == Request(Statuses)
Session_set_banner    == Rule(Statuses, Codes, {}, "own", "no", FALSE)
Session_method_pref   == Rule(Statuses, Codes, {}, "own", "no", FALSE)
Session_userauth_list ==
  Rule(Pointers \cup {"accepted"}, {"null", "accepted"}, {}, "last", "no", TRUE)
Session_hostkey_hash  == Rule({"pointer", "absent"}, {}, {"absent"}, "fixed", "no", TRUE)
Session_userauth_password  == Request(Statuses)
Session_userauth_publickey == Request(Statuses)
Session_userauth_hostbased == Request(Statuses)
Session_userauth_keyboard  == Request(Statuses)
Session_open_session   == Opening("no", TRUE)
Session_scp_recv       == Rule(Pointers, {"null"}, {}, "fixed", "no", TRUE)
Session_scp_send       == Opening("no", FALSE)
Session_sftp_init      == Opening("no", FALSE)
Session_forward_listen == Opening("no", TRUE)
Listener_accept        == Opening("no", TRUE)

(* Channel *)
Channel_pty         == Request(Statuses)
Channel_pty_resize  == Request(Statuses)
Channel_shell       == Request(Statuses)
Channel_execute     == Request(Statuses)
Channel_setenv      == Request(Statuses)
Channel_read        == Request(Counts)
Channel_read_ex     == Rule(Counts, Codes \cup {"zero"}, {}, "matched", "no", TRUE)
Channel_write       == Request(Counts)
\* Variant: every result but zero is an error.
FlushNonzero        == Rule(Counts, Counts \ {"zero"}, {}, "matched", "no", TRUE)
Channel_flush       == Request(Counts)
Channel_exit_status == Rule({"zero", "positive"}, {"zero"}, {}, "fixed", "no", FALSE)
Channel_eof         == Rule(Counts, Codes, {}, "fixed", "no", FALSE)
Channel_send_eof    == Request(Statuses)
Channel_wait_eof    == Request(Statuses)
Channel_wait_closed == Request(Statuses)
Channel_window_read  == Plain({"zero", "positive"}, TRUE)
Channel_window_write == Plain({"zero", "positive"}, TRUE)
Channel_x11_req     == Request(Statuses)
Channel_poll_read   == Plain({"zero", "positive"}, TRUE)
Channel_receive_window_adjust == Rule(Statuses, Codes, {}, "own", "no", FALSE)

(* Sftp *)
Sftp_open_dir  == Opening("reports", TRUE)
Sftp_open_file == Opening("reports", TRUE)
Sftp_unlink    == SftpRequest(Statuses)
Sftp_rename    == SftpRequest(Statuses)
Sftp_mkdir     == SftpRequest(Statuses)
Sftp_rmdir     == SftpRequest(Statuses)
Sftp_realpath  == SftpRequest(Counts)
Sftp_readlink  == SftpRequest(Counts)
Sftp_symlink   == SftpRequest(Statuses)
Sftp_get_stat  == SftpRequest(Statuses)
Sftp_set_stat  == SftpRequest(Statuses)

(* Files and directories *)
Sftpfile_read  == Rule(Counts, {}, Codes, "fixed", "through", TRUE)
Sftpfile_write == Rule(Counts, Codes, {}, "fixed", "through", TRUE)
\* -1 raises. With another code the string of the name cannot be shrunk to that size: None.
Sftpdir_read   ==
  Rule(Counts, Codes \cap {"SOCKET_NONE"}, {"zero"} \cup (Codes \ {"SOCKET_NONE"}), "fixed", "through", TRUE)
\* Variant: the loop ends at any number below one.
ListUntilFailure   == Rule(Statuses, {}, {}, "fixed", "through", TRUE)
\* The call that ends the loop: zero, and the dictionary is complete, or an error as in read.
Sftpdir_list_files ==
  Rule(Statuses, Codes \cap {"SOCKET_NONE"}, Codes \ {"SOCKET_NONE"}, "fixed", "through", TRUE)

Rules ==
  [startup |-> Session_startup, set_banner |-> Session_set_banner, method_pref |-> Session_method_pref,
   userauth_list |-> Session_userauth_list, hostkey_hash |-> Session_hostkey_hash,
   userauth_password |-> Session_userauth_password, userauth_publickey |-> Session_userauth_publickey,
   userauth_hostbased |-> Session_userauth_hostbased, userauth_keyboard |-> Session_userauth_keyboard,
   open_session |-> Session_open_session, scp_recv |-> Session_scp_recv, scp_send |-> Session_scp_send,
   sftp_init |-> Session_sftp_init, forward_listen |-> Session_forward_listen, accept |-> Listener_accept,
   pty |-> Channel_pty, pty_resize |-> Channel_pty_resize, shell |-> Channel_shell,
   execute |-> Channel_execute, setenv |-> Channel_setenv, read |-> Channel_read, read_ex |-> Channel_read_ex,
   write |-> Channel_write, flush |-> Channel_flush, exit_status |-> Channel_exit_status, eof |-> Channel_eof,
   send_eof |-> Channel_send_eof, wait_eof |-> Channel_wait_eof, wait_closed |-> Channel_wait_closed,
   window_read |-> Channel_window_read, window_write |-> Channel_window_write, x11_req |-> Channel_x11_req,
   poll_read |-> Channel_poll_read, receive_window_adjust |-> Channel_receive_window_adjust,
   open_dir |-> Sftp_open_dir, open_file |-> Sftp_open_file, unlink |-> Sftp_unlink, rename |-> Sftp_rename,
   mkdir |-> Sftp_mkdir, rmdir |-> Sftp_rmdir, realpath |-> Sftp_realpath, readlink |-> Sftp_readlink,
   symlink |-> Sftp_symlink, get_stat |-> Sftp_get_stat, set_stat |-> Sftp_set_stat,
   file_read |-> Sftpfile_read, file_write |-> Sftpfile_write, dir_read |-> Sftpdir_read,
   list_files |-> Sftpdir_list_files]

\* An error code is a negative number: neither a count nor a pointer.
ASSUME Instance ==
  /\ {"SFTP_PROTOCOL", "EAGAIN"} \subseteq Codes
  /\ Codes \cap ({"none", "zero", "positive"} \cup Pointers \cup Unset) = {}
  /\ None \notin Sftps
  /\ IsFiniteSet(Threads)
  /\ Used \subseteq DOMAIN Rules
  /\ MaxCalls \in Nat

VARIABLES
  th,      \* what each thread is doing: [pc, m, sftp, rc, out]
  count,   \* calls made by each thread
  last,    \* the last error of the session: its code, and the call whose text it is
  status,  \* the call whose status each Sftp keeps
  since    \* history: the calls answered between the answer of each thread's last call and its report

vars == <<th, count, last, status, since>>

Call  == Threads \X (1 .. MaxCalls)
Made  == {c \in Call : c[2] <= count[c[1]]}
Id(t) == <<t, count[t]>>     \* the call t is making, or made last
Quiet == [kind |-> "value", code |-> "none", text |-> None, errno |-> None]
Resting(m, sftp, rc, out) == [pc |-> "done", m |-> m, sftp |-> sftp, rc |-> rc, out |-> out]

\* No other thread is inside a native call that keeps the GIL.
GilFree(t) == \A u \in Threads \ {t} : th[u].pc # "done" => Rules[th[u].m].window

\* The subsystems a method may be called through.
On(m) == IF Rules[m].sftp = "no" THEN {None} ELSE Sftps

Init ==
  /\ th = [t \in Threads |-> Resting("none", None, "none", Quiet)]
  /\ count = [t \in Threads |-> 0]
  /\ last = [code |-> "none", by |-> None]
  /\ status = [s \in Sftps |-> None]
  /\ since = [t \in Threads |-> {}]

\* A method of an object that is open: the native call begins.
Begin(t, m) ==
  /\ GilFree(t) /\ th[t].pc = "done" /\ Cardinality(Made) < MaxCalls
  /\ count' = [count EXCEPT ![t] = @ + 1]
  /\ \E s \in On(m) :
       th' = [th EXCEPT ![t] = [pc |-> "inside", m |-> m, sftp |-> s, rc |-> "none", out |-> Quiet]]
  /\ since' = [since EXCEPT ![t] = {}]
  /\ UNCHANGED <<last, status>>

(* libssh2 ends the call. A call that fails leaves its code and text in the
   session, but for one that would block; one that succeeds changes neither. *)
Answer(t) ==
  /\ th[t].pc = "inside"
  /\ \E rc \in Rules[th[t].m].returns :
       /\ th' = [th EXCEPT ![t].pc = "returned", ![t].rc = rc]
       /\ \E code \in IF rc = "null" THEN Codes ELSE {rc} :
            /\ last' = IF rc = "null" \/ rc \in Codes \ {"EAGAIN"}
                         THEN [code |-> code, by |-> Id(t)] ELSE last
            /\ status' = IF code = "SFTP_PROTOCOL" /\ th[t].sftp # None
                           THEN [status EXCEPT ![th[t].sftp] = Id(t)] ELSE status
  /\ since' = [u \in Threads |-> IF th[u].pc = "returned" THEN since[u] \cup {Id(t)} ELSE since[u]]
  /\ UNCHANGED count

\* Variant: the text is taken without the test.
AnyText(rc) == [kind |-> "exception", code |-> rc, text |-> last.by, errno |-> None]
Matched(rc) ==
  [kind |-> "exception", code |-> rc, text |-> IF last.code = rc THEN last.by ELSE None, errno |-> None]
Last        == [kind |-> "exception", code |-> last.code, text |-> last.by, errno |-> None]

Report(rule, rc) ==
  CASE rule.report = "matched" -> Matched(rc)
    [] rule.report = "last"    -> Last
    [] rule.report = "own"     -> [Quiet EXCEPT !.kind = "exception", !.code = rc]
    [] rule.report = "fixed"   -> [Quiet EXCEPT !.kind = "exception"]

\* Variant: the status is taken whatever the code is.
AnyStatus(t, rule, out) ==
  IF rule.sftp = "reports" THEN [out EXCEPT !.text = None, !.errno = status[th[t].sftp]] ELSE out
\* libssh2_sftp_errno_to_exception(libssh2_sftp_last_error(self->sftp))
WithStatus(t, rule, out) ==
  IF rule.sftp = "reports" /\ out.code = "SFTP_PROTOCOL"
    THEN [out EXCEPT !.text = None, !.errno = status[th[t].sftp]] ELSE out

Outcome(t, rule, rc) ==
  IF rc \in rule.raises THEN WithStatus(t, rule, Report(rule, rc))
  ELSE [Quiet EXCEPT !.kind = IF rc \in rule.nones THEN "nothing" ELSE "value"]

\* The GIL is back: the outcome becomes the result or the exception, in one step.
Finish(t) ==
  /\ GilFree(t) /\ th[t].pc = "returned"
  /\ th' = [th EXCEPT ![t] =
              Resting(th[t].m, th[t].sftp, th[t].rc, Outcome(t, Rules[th[t].m], th[t].rc))]
  /\ UNCHANGED <<count, last, status, since>>

Next == \E t \in Threads : (\E m \in Used : Begin(t, m)) \/ Answer(t) \/ Finish(t)
Spec == Init /\ [][Next]_vars

-----------------------------------------------------------------------------
(* Correctness *)

Outcomes == {"none"} \cup Counts \cup Pointers \cup Unset
Exceptions == [kind : {"value", "nothing", "exception"}, code : {"none", "zero"} \cup Codes,
               text : Call \cup {None}, errno : Call \cup {None}]

TypeOK ==
  /\ th \in [Threads -> [pc : {"done", "inside", "returned"}, m : Used \cup {"none"},
                         sftp : Sftps \cup {None}, rc : Outcomes, out : Exceptions]]
  /\ count \in [Threads -> 0 .. MaxCalls]
  /\ last \in [code : Codes \cup {"none"}, by : Call \cup {None}]
  /\ status \in [Sftps -> Call \cup {None}]
  /\ since \in [Threads -> SUBSET Call]

Raised(t) == th[t].pc = "done" /\ th[t].out.kind = "exception"

\* The text in an exception is that of the call that failed, or there is none
\* (Session.startup and every method that tests the last error before taking its string).
TextIsOwn ==
  \A t \in Threads :
    (Raised(t) /\ Rules[th[t].m].report = "matched" /\ th[t].rc # "EAGAIN") =>
      th[t].out.text \in {Id(t), None}

\* The outcomes that leave no error of their own in the session.
Silent == {"EAGAIN", "accepted"}

\* However the threads' calls overlap, an exception carries a text, and from a method that has the code of
\* its call a status, of that call or of one answered after it: never what an earlier call left in the
\* session or in the Sftp. A call that leaves no error of its own may find an earlier text.
ReportsRecent ==
  \A t \in Threads : Raised(t) =>
    /\ th[t].out.text \in {Id(t), None} \cup since[t] \/ th[t].rc \in Silent
    /\ Rules[th[t].m].report = "matched" => th[t].out.errno \in {Id(t), None} \cup since[t]
    /\ (th[t].rc = "SFTP_PROTOCOL" /\ Rules[th[t].m].sftp = "reports") => th[t].out.errno \in {Id(t)} \cup since[t]

\* When no other call was answered in between, the text and the status are those of the call the exception is
\* about, also from the methods that have only the session's last error and then find it there.
ReportsOwn ==
  \A t \in Threads : (Raised(t) /\ since[t] = {}) =>
    /\ th[t].out.text \in {Id(t), None} \/ th[t].rc \in Silent
    /\ th[t].out.errno \in {Id(t), None}
    /\ (Rules[th[t].m].report = "last" /\ th[t].rc \notin Silent) => Id(t) \in {th[t].out.text, th[t].out.errno}

\* No method hands out the result of a native call that failed: it raises or, four of them, gives None.
\* An exception is about a failure, but from three: two take a count or a status of zero for one, and
\* userauth_list cannot tell NULL for a failure from NULL for a session that is authenticated.
Failed(rc) == rc \in Codes \cup {"null", "absent"}
VerdictMatches ==
  \A t \in Threads : th[t].pc = "done" =>
    /\ Failed(th[t].rc) => th[t].out.kind # "value"
    /\ th[t].out.kind = "exception" => Failed(th[t].rc) \/ th[t].m \in {"userauth_list", "read_ex", "exit_status"}
    /\ th[t].out.kind = "nothing" => th[t].m \in {"hostkey_hash", "file_read", "dir_read", "list_files"}

\* The methods documented to give a negative number, None or zero on failure, in session.py and
\* channel.py, do so instead of raising.
Documented ==
  {"method_pref", "set_banner", "startup", "userauth_password", "userauth_keyboard", "forward_listen",
   "wait_closed", "execute", "exit_status", "flush", "pty", "pty_resize", "read", "read_ex", "send_eof",
   "setenv", "shell", "x11_req"}
FailureReturned == \A t \in Threads : th[t].m \in Documented => ~Raised(t)
=============================================================================
