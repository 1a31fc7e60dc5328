-------------------------- MODULE NativeCallsProofs --------------------------
(* Exceptions report the call that failed, for every set of threads, error   *)
(* codes, subsystems and methods, and every number of calls.                 *)
EXTENDS NativeCalls, FiniteSetTheorems, TLAPS

(* The methods *)

\* What the reports rely on: they are of four kinds, a code that is reported is one, the last error is
\* asked for only when the outcome is NULL, and only the methods that report either look at the status
\* of an Sftp.
Sound(rule) ==
  /\ rule.returns \subseteq Counts \cup Pointers \cup Unset
  /\ rule.report \in {"own", "matched", "last", "fixed"}
  /\ rule.report = "matched" => rule.raises \subseteq Codes \cup {"zero"}
  /\ rule.report = "own" => rule.raises \subseteq Codes
  /\ rule.report = "last" => rule.raises \subseteq {"null", "accepted"}
  /\ rule.sftp = "reports" => rule.report \in {"matched", "last"} /\ "accepted" \notin rule.raises

\* A failure is never a value; an exception or None is for a failure only.
Exact(rule) ==
  /\ \A rc \in rule.returns : Failed(rc) => rc \in rule.raises \cup rule.nones
  /\ rule.nones = {}
  /\ \A rc \in rule.raises : Failed(rc)

RaisesMore == {"userauth_list", "read_ex", "exit_status"}
GivesNone  == {"hostkey_hash", "file_read", "dir_read", "list_files"}
Fits(m) ==
  /\ Sound(Rules[m])
  /\ \A rc \in Rules[m].returns : Failed(rc) => rc \in Rules[m].raises \cup Rules[m].nones
  /\ m \notin RaisesMore => \A rc \in Rules[m].raises : Failed(rc)
  /\ m \notin GivesNone => Rules[m].nones = {}

LEMMA RequestRule ==
  ASSUME NEW returns \in {Statuses, Counts}, NEW sftp \in {"no", "reports"}
  PROVE  LET rule == Rule(returns, Codes, {}, "matched", sftp, TRUE) IN
           Sound(rule) /\ Exact(rule)
BY Instance DEF Rule, Sound, Exact, Failed, Statuses, Counts, Pointers, Unset

LEMMA OpeningRule ==
  ASSUME NEW sftp \in {"no", "reports"}, NEW window \in BOOLEAN
  PROVE  LET rule == Opening(sftp, window) IN Sound(rule) /\ Exact(rule)
BY Instance DEF Opening, Rule, Sound, Exact, Failed, Counts, Pointers, Unset

\* The methods whose outcomes are reported by their code, and those that report that it is NULL.
LEMMA RequestRules ==
  \A m \in {"startup", "userauth_password", "userauth_publickey", "userauth_hostbased", "userauth_keyboard",
            "pty", "pty_resize", "shell", "execute", "setenv", "read", "write", "flush", "send_eof", "wait_eof",
            "wait_closed", "x11_req", "unlink", "rename", "mkdir", "rmdir", "realpath", "readlink", "symlink",
            "get_stat", "set_stat"} : Sound(Rules[m]) /\ Exact(Rules[m])
<1> DEFINE Good(rule) == Sound(rule) /\ Exact(rule)
<1>1. /\ Good(Request(Statuses)) /\ Good(Request(Counts))
      /\ Good(SftpRequest(Statuses)) /\ Good(SftpRequest(Counts))
  BY RequestRule DEF Request, SftpRequest
<1> HIDE DEF Good
<1>2. \A m \in {"startup", "userauth_password", "userauth_publickey", "userauth_hostbased", "userauth_keyboard",
                "pty", "pty_resize", "shell", "execute", "setenv", "send_eof", "wait_eof", "wait_closed",
                "x11_req"} : Rules[m] = Request(Statuses)
  BY DEF Rules, Session_startup, Session_userauth_password, Session_userauth_publickey, Session_userauth_hostbased,
         Session_userauth_keyboard, Channel_pty, Channel_pty_resize, Channel_shell, Channel_execute,
         Channel_setenv, Channel_send_eof, Channel_wait_eof, Channel_wait_closed, Channel_x11_req
<1>3. \A m \in {"read", "write", "flush"} : Rules[m] = Request(Counts)
  BY DEF Rules, Channel_read, Channel_write, Channel_flush
<1>4. \A m \in {"unlink", "rename", "mkdir", "rmdir", "symlink", "get_stat", "set_stat"} :
        Rules[m] = SftpRequest(Statuses)
  BY DEF Rules, Sftp_unlink, Sftp_rename, Sftp_mkdir, Sftp_rmdir, Sftp_symlink, Sftp_get_stat, Sftp_set_stat
<1>5. \A m \in {"realpath", "readlink"} : Rules[m] = SftpRequest(Counts)
  BY DEF Rules, Sftp_realpath, Sftp_readlink
<1>6. QED
  BY <1>1, <1>2, <1>3, <1>4, <1>5 DEF Good

LEMMA OpeningRules ==
  \A m \in {"open_session", "scp_send", "sftp_init", "forward_listen", "accept", "open_dir",
            "open_file"} : Sound(Rules[m]) /\ Exact(Rules[m])
<1> DEFINE Good(rule) == Sound(rule) /\ Exact(rule)
<1>1. /\ Good(Session_open_session) /\ Good(Session_scp_send)
      /\ Good(Session_sftp_init) /\ Good(Session_forward_listen) /\ Good(Listener_accept)
      /\ Good(Sftp_open_dir) /\ Good(Sftp_open_file)
  BY OpeningRule DEF Session_open_session, Session_scp_send, Session_sftp_init,
     Session_forward_listen, Listener_accept, Sftp_open_dir, Sftp_open_file
<1> HIDE DEF Good
<1>2. /\ Rules.open_session = Session_open_session
      /\ Rules.scp_send = Session_scp_send /\ Rules.sftp_init = Session_sftp_init
      /\ Rules.forward_listen = Session_forward_listen /\ Rules.accept = Listener_accept
      /\ Rules.open_dir = Sftp_open_dir /\ Rules.open_file = Sftp_open_file
  BY DEF Rules
<1>3. QED
  BY <1>1, <1>2 DEF Good

\* The methods that report in another way, and those that do not fail.
LEMMA OtherRules ==
  \A m \in {"set_banner", "method_pref", "scp_recv", "eof", "window_read", "window_write", "poll_read",
            "receive_window_adjust", "file_write"} : Sound(Rules[m]) /\ Exact(Rules[m])
<1> USE Instance
<1> DEFINE Good(rule) == Sound(rule) /\ Exact(rule)
<1>1. Good(Rule(Statuses, Codes, {}, "own", "no", FALSE))
  BY DEF Rule, Sound, Exact, Failed, Statuses, Counts, Pointers, Unset
<1>2. Good(Rule(Pointers, {"null"}, {}, "fixed", "no", TRUE))
  BY DEF Rule, Sound, Exact, Failed, Statuses, Counts, Pointers, Unset
<1>3. /\ Good(Rule(Counts, Codes, {}, "fixed", "no", FALSE))
      /\ Good(Rule(Counts, Codes, {}, "fixed", "through", TRUE))
  BY DEF Rule, Sound, Exact, Failed, Statuses, Counts, Pointers, Unset
<1>4. Good(Plain({"zero", "positive"}, TRUE))
  BY DEF Plain, Rule, Sound, Exact, Failed, Statuses, Counts, Pointers, Unset
<1>5. Good(Session_set_banner) /\ Good(Session_method_pref) /\ Good(Channel_receive_window_adjust)
  BY <1>1 DEF Session_set_banner, Session_method_pref, Channel_receive_window_adjust
<1>6. Good(Session_scp_recv) /\ Good(Channel_eof) /\ Good(Sftpfile_write)
  BY <1>2, <1>3 DEF Session_scp_recv, Channel_eof, Sftpfile_write
<1>7. Good(Channel_window_read) /\ Good(Channel_window_write) /\ Good(Channel_poll_read)
  BY <1>4 DEF Channel_window_read, Channel_window_write, Channel_poll_read
<1> HIDE DEF Good
<1>8. /\ Rules.set_banner = Session_set_banner /\ Rules.method_pref = Session_method_pref
      /\ Rules.scp_recv = Session_scp_recv /\ Rules.eof = Channel_eof
      /\ Rules.window_read = Channel_window_read /\ Rules.window_write = Channel_window_write
      /\ Rules.poll_read = Channel_poll_read /\ Rules.receive_window_adjust = Channel_receive_window_adjust
      /\ Rules.file_write = Sftpfile_write
  BY DEF Rules
<1>9. QED
  BY <1>5, <1>6, <1>7, <1>8 DEF Good

\* The methods that raise for more than failures, and those that give None.
LEMMA DeviatingRules == \A m \in RaisesMore \cup GivesNone : Fits(m)
<1> USE Instance
<1> DEFINE Half(rule) ==
      Sound(rule) /\ \A rc \in rule.returns : Failed(rc) => rc \in rule.raises \cup rule.nones
<1>1. Half(Session_userauth_list) /\ Session_userauth_list.nones = {}
  BY DEF Session_userauth_list, Rule, Sound, Failed, Counts, Pointers, Unset
<1>2. Half(Channel_read_ex) /\ Half(Channel_exit_status) /\ Channel_read_ex.nones = {} /\ Channel_exit_status.nones = {}
  BY DEF Channel_read_ex, Channel_exit_status, Rule, Sound, Failed, Counts, Pointers, Unset
<1>3. Half(Session_hostkey_hash) /\ Session_hostkey_hash.raises = {}
  BY DEF Session_hostkey_hash, Rule, Sound, Failed, Counts, Pointers, Unset
<1>4. Half(Sftpfile_read) /\ Sftpfile_read.raises = {}
  BY DEF Sftpfile_read, Rule, Sound, Failed, Counts, Pointers, Unset
<1>5. /\ Half(Sftpdir_read) /\ \A rc \in Sftpdir_read.raises : rc \in Codes
      /\ Half(Sftpdir_list_files) /\ \A rc \in Sftpdir_list_files.raises : rc \in Codes
  BY DEF Sftpdir_read, Sftpdir_list_files, Rule, Sound, Failed, Counts, Statuses, Pointers, Unset
<1> HIDE DEF Half
<1>6. /\ Rules.userauth_list = Session_userauth_list
      /\ Rules.read_ex = Channel_read_ex /\ Rules.exit_status = Channel_exit_status
      /\ Rules.hostkey_hash = Session_hostkey_hash /\ Rules.file_read = Sftpfile_read
      /\ Rules.dir_read = Sftpdir_read /\ Rules.list_files = Sftpdir_list_files
  BY DEF Rules
<1>7. \A m : (Half(Rules[m]) /\ Rules[m].nones = {} /\ m \in RaisesMore) => Fits(m)
  BY DEF Half, Fits
<1>8. \A m : (Half(Rules[m]) /\ (\A rc \in Rules[m].raises : rc \in Codes) /\ m \in GivesNone) => Fits(m)
  BY DEF Half, Fits, Failed
<1>9. \A m \in RaisesMore : Half(Rules[m]) /\ Rules[m].nones = {}
  BY <1>1, <1>2, <1>6 DEF RaisesMore
<1>10. \A m \in GivesNone : Half(Rules[m]) /\ \A rc \in Rules[m].raises : rc \in Codes
  BY <1>3, <1>4, <1>5, <1>6 DEF GivesNone
<1>11. QED
  BY <1>7, <1>8, <1>9, <1>10

LEMMA RulesFit == \A m \in DOMAIN Rules : Fits(m)
<1>1. DOMAIN Rules =
        {"startup", "userauth_password", "userauth_publickey", "userauth_hostbased", "userauth_keyboard",
         "pty", "pty_resize", "shell", "execute", "setenv", "read", "write", "flush", "send_eof", "wait_eof",
         "wait_closed", "x11_req", "unlink", "rename", "mkdir", "rmdir", "realpath", "readlink", "symlink",
         "get_stat", "set_stat"}
        \cup {"open_session", "scp_send", "sftp_init", "forward_listen", "accept", "open_dir", "open_file"}
        \cup {"set_banner", "method_pref", "scp_recv", "eof", "window_read", "window_write", "poll_read",
              "receive_window_adjust", "file_write"}
        \cup RaisesMore \cup GivesNone
  BY DEF Rules, RaisesMore, GivesNone
<1>2. \A m : Sound(Rules[m]) /\ Exact(Rules[m]) => Fits(m)
  BY DEF Exact, Fits
<1>3. QED
  BY <1>1, <1>2, RequestRules, OpeningRules, OtherRules, DeviatingRules

-----------------------------------------------------------------------------
(* Types, and which outcomes raise *)

Records == [pc : {"done", "inside", "returned"}, m : Used \cup {"none"}, sftp : Sftps \cup {None},
            rc : Outcomes, out : Exceptions]

\* What is done has been taken for what it was.
Verdict(m, rc, out) ==
  /\ Failed(rc) => out.kind # "value"
  /\ out.kind = "exception" => Failed(rc) \/ m \in RaisesMore
  /\ out.kind = "nothing" => m \in GivesNone

\* A thread in a call knows its method and its subsystem, and the outcome is one the method may have.
Knows(t) ==
  /\ th[t].pc # "done" => th[t].m \in Used /\ count[t] > 0 /\ th[t].sftp \in On(th[t].m)
  /\ th[t].pc = "returned" => th[t].rc \in Rules[th[t].m].returns
  /\ th[t].pc = "done" => Verdict(th[t].m, th[t].rc, th[t].out)

TypeInv == TypeOK /\ \A t \in Threads : Knows(t)

LEMMA QuietType ==
  /\ Quiet \in Exceptions /\ Quiet.kind = "value"
  /\ \A k \in {"value", "nothing", "exception"} :
       /\ [Quiet EXCEPT !.kind = k] \in Exceptions /\ [Quiet EXCEPT !.kind = k].kind = k
       /\ [Quiet EXCEPT !.kind = k].text = None /\ [Quiet EXCEPT !.kind = k].errno = None
BY DEF Quiet, Exceptions

\* A method that reports the status of an Sftp was called through one.
LEMMA Subsystem ==
  ASSUME NEW m, NEW s \in On(m)
  PROVE  /\ Rules[m].sftp = "reports" => s \in Sftps /\ s # None
         /\ s \in Sftps \cup {None}
BY Instance DEF On

\* The calls of one thread are some of those that are counted.
LEMMA CallsBound ==
  ASSUME TypeOK, NEW t \in Threads, Cardinality(Made) < MaxCalls
  PROVE  count[t] + 1 \in 0 .. MaxCalls
<1>0. count[t] \in 0 .. MaxCalls /\ MaxCalls \in Nat
  BY Instance DEF TypeOK
<1>1. IsFiniteSet(Threads) /\ IsFiniteSet(1 .. MaxCalls)
  BY <1>0, Instance, FS_Interval
<1>2. IsFiniteSet(Call)
  BY <1>1, FS_Product DEF Call
<1>3. IsFiniteSet(Made)
  BY <1>2, FS_Subset DEF Made
<1>4. ASSUME count[t] = MaxCalls PROVE FALSE
  <2>1. {t} \X (1 .. MaxCalls) \subseteq Made
    BY <1>4 DEF Made, Call
  <2>2. Cardinality({t} \X (1 .. MaxCalls)) <= Cardinality(Made)
    BY <1>3, <2>1, FS_Subset
  <2>3. Cardinality(1 .. MaxCalls) = MaxCalls
    BY <1>0, FS_Interval
  <2>4. IsFiniteSet({t}) /\ Cardinality({t}) = 1
    BY FS_Singleton
  <2>5. Cardinality({t} \X (1 .. MaxCalls)) = MaxCalls
    <3>1. Cardinality({t} \X (1 .. MaxCalls)) = Cardinality({t}) * Cardinality(1 .. MaxCalls)
      BY <1>1, <2>4, FS_Product
    <3>2. QED
      BY <1>0, <2>3, <2>4, <3>1
  <2>6. Cardinality(Made) \in Nat
    BY <1>3, FS_CardinalityType
  <2>7. QED
    BY <1>0, <2>2, <2>5, <2>6
<1>5. QED
  BY <1>0, <1>4

LEMMA IdCall ==
  ASSUME TypeOK, NEW t \in Threads, count[t] > 0
  PROVE  Id(t) \in Call
BY Instance DEF TypeOK, Id, Call

LEMMA ReportType ==
  ASSUME TypeOK, NEW t \in Threads, NEW rule, Sound(rule), NEW rc \in rule.raises,
         rule.sftp = "reports" => th[t].sftp \in Sftps
  PROVE  LET out == WithStatus(t, rule, Report(rule, rc)) IN out \in Exceptions /\ out.kind = "exception"
<1>0. /\ last.code \in Codes \cup {"none"} /\ last.by \in Call \cup {None}
      /\ rule.sftp = "reports" => status[th[t].sftp] \in Call \cup {None}
  BY DEF TypeOK
<1>1. Report(rule, rc) \in Exceptions /\ Report(rule, rc).kind = "exception"
  <2>1. CASE rule.report = "matched"
    <3>1. Report(rule, rc) = Matched(rc) /\ rc \in Codes \cup {"zero"}
      BY <2>1 DEF Report, Sound
    <3>2. QED
      BY <1>0, <3>1 DEF Matched, Exceptions
  <2>2. CASE rule.report = "last"
    <3>1. Report(rule, rc) = Last
      BY <2>2 DEF Report
    <3>2. QED
      BY <1>0, <3>1 DEF Last, Exceptions
  <2>3. CASE rule.report = "own"
    <3>1. Report(rule, rc) = [Quiet EXCEPT !.kind = "exception", !.code = rc] /\ rc \in Codes
      BY <2>3 DEF Report, Sound
    <3>2. QED
      BY <3>1 DEF Quiet, Exceptions
  <2>4. CASE rule.report = "fixed"
    <3>1. Report(rule, rc) = [Quiet EXCEPT !.kind = "exception"]
      BY <2>4 DEF Report
    <3>2. QED
      BY <3>1 DEF Quiet, Exceptions
  <2>5. QED
    BY <2>1, <2>2, <2>3, <2>4 DEF Sound
<1>2. QED
  BY <1>0, <1>1 DEF WithStatus, Exceptions

LEMMA OutcomeType ==
  ASSUME TypeInv, NEW t \in Threads, th[t].pc = "returned"
  PROVE  LET out == Outcome(t, Rules[th[t].m], th[t].rc) IN
           out \in Exceptions /\ Verdict(th[t].m, th[t].rc, out)
<1> DEFINE m == th[t].m
           rule == Rules[m]
           rc == th[t].rc
           out == Outcome(t, rule, rc)
<1>1. TypeOK /\ m \in Used /\ rc \in rule.returns /\ th[t].sftp \in On(m)
  BY DEF TypeInv, Knows
<1>2. Fits(m) /\ Sound(rule)
  BY <1>1, Instance, RulesFit DEF Fits
<1>3. rule.sftp = "reports" => th[t].sftp \in Sftps
  BY <1>1, Subsystem
<1>4. ASSUME rc \in rule.raises PROVE out \in Exceptions /\ out.kind = "exception"
  <2>1. out = WithStatus(t, rule, Report(rule, rc))
    BY <1>4 DEF Outcome
  <2> HIDE DEF rule, rc
  <2>2. QED
    BY <1>1, <1>2, <1>3, <1>4, <2>1, ReportType
<1>5. ASSUME rc \notin rule.raises
      PROVE  out \in Exceptions /\ out.kind = IF rc \in rule.nones THEN "nothing" ELSE "value"
  <2>1. out = [Quiet EXCEPT !.kind = IF rc \in rule.nones THEN "nothing" ELSE "value"]
    BY <1>5 DEF Outcome
  <2>2. QED
    BY <2>1, QuietType
<1>6. Verdict(m, rc, out)
  <2> HIDE DEF m, rc, out
  <2>1. QED
    BY <1>1, <1>2, <1>4, <1>5 DEF Verdict, Fits
<1>7. QED
  BY <1>4, <1>5, <1>6

\* A step of t changes nothing of what the other threads know.
LEMMA TypeKeep ==
  ASSUME TypeInv, NEW t \in Threads, NEW r \in Records, th' = [th EXCEPT ![t] = r],
         count' \in [Threads -> 0 .. MaxCalls], \A u \in Threads \ {t} : count'[u] = count[u],
         last' \in [code : Codes \cup {"none"}, by : Call \cup {None}],
         status' \in [Sftps -> Call \cup {None}], since' \in [Threads -> SUBSET Call], Knows(t)'
  PROVE  TypeInv'
<1>1. th \in [Threads -> Records]
  BY DEF TypeInv, TypeOK, Records
<1>2. th' \in [Threads -> Records] /\ \A u \in Threads \ {t} : th'[u] = th[u]
  BY <1>1
<1>3. TypeOK'
  BY <1>2 DEF TypeOK, Records
<1>4. \A u \in Threads \ {t} : Knows(u)'
  BY <1>2 DEF TypeInv, Knows
<1>5. QED
  BY <1>3, <1>4 DEF TypeInv

LEMMA TypeInit == Init => TypeInv
<1> SUFFICES ASSUME Init PROVE TypeInv
  OBVIOUS
<1> DEFINE r == Resting("none", None, "none", Quiet)
<1>1. /\ r \in Records /\ r.pc = "done" /\ r.m = "none" /\ r.rc = "none" /\ r.out = Quiet
  BY QuietType DEF Resting, Records, Outcomes
<1>2. \A t \in Threads : th[t] = r
  BY DEF Init
<1>3. TypeOK
  <2>1. th \in [Threads -> Records]
    BY <1>1 DEF Init
  <2>2. /\ count \in [Threads -> 0 .. MaxCalls] /\ last \in [code : Codes \cup {"none"}, by : Call \cup {None}]
        /\ status \in [Sftps -> Call \cup {None}] /\ since \in [Threads -> SUBSET Call]
    BY Instance DEF Init
  <2>3. QED
    BY <2>1, <2>2 DEF TypeOK, Records
<1> HIDE DEF r
<1>4. ASSUME NEW t \in Threads PROVE Knows(t)
  <2>1. ~Failed("none")
    BY Instance DEF Failed
  <2>2. th[t].pc = "done" /\ th[t].rc = "none" /\ th[t].out.kind = "value"
    BY <1>1, <1>2, QuietType
  <2>3. QED
    BY <2>1, <2>2 DEF Knows, Verdict
<1>5. QED
  BY <1>3, <1>4 DEF TypeInv

LEMMA TypeStep == TypeInv /\ [Next]_vars => TypeInv'
<1> SUFFICES ASSUME TypeInv, [Next]_vars PROVE TypeInv'
  OBVIOUS
<1>0. /\ th \in [Threads -> Records] /\ count \in [Threads -> 0 .. MaxCalls]
      /\ last \in [code : Codes \cup {"none"}, by : Call \cup {None}]
      /\ status \in [Sftps -> Call \cup {None}] /\ since \in [Threads -> SUBSET Call] /\ MaxCalls \in Nat
  BY Instance DEF TypeInv, TypeOK, Records
<1>1. ASSUME NEW t \in Threads, NEW m \in Used, Begin(t, m) PROVE TypeInv'
  <2>1. PICK s \in On(m) : th' = [th EXCEPT ![t] =
                              [pc |-> "inside", m |-> m, sftp |-> s, rc |-> "none", out |-> Quiet]]
    BY <1>1 DEF Begin
  <2> DEFINE r == [pc |-> "inside", m |-> m, sftp |-> s, rc |-> "none", out |-> Quiet]
  <2>2. r \in Records /\ r.pc = "inside" /\ r.m = m /\ r.sftp = s
    BY QuietType, Subsystem DEF Records, Outcomes
  <2>3. /\ th' = [th EXCEPT ![t] = r] /\ count' = [count EXCEPT ![t] = @ + 1] /\ UNCHANGED <<last, status>>
        /\ since' = [since EXCEPT ![t] = {}] /\ Cardinality(Made) < MaxCalls
    BY <1>1, <2>1 DEF Begin
  <2> HIDE DEF r
  <2>4. count[t] + 1 \in 0 .. MaxCalls
    BY <2>3, CallsBound DEF TypeInv
  <2>5. count' \in [Threads -> 0 .. MaxCalls] /\ \A u \in Threads \ {t} : count'[u] = count[u]
    BY <1>0, <2>3, <2>4
  <2>6. since' \in [Threads -> SUBSET Call]
    BY <1>0, <2>3
  <2>7. Knows(t)'
    BY <1>0, <2>2, <2>3 DEF Knows
  <2>8. QED
    BY <1>0, <2>2, <2>3, <2>5, <2>6, <2>7, TypeKeep
<1>2. ASSUME NEW t \in Threads, Answer(t) PROVE TypeInv'
  <2>1. PICK rc \in Rules[th[t].m].returns :
          /\ th' = [th EXCEPT ![t].pc = "returned", ![t].rc = rc]
          /\ \E code \in IF rc = "null" THEN Codes ELSE {rc} :
               /\ last' = IF rc = "null" \/ rc \in Codes \ {"EAGAIN"}
                            THEN [code |-> code, by |-> Id(t)] ELSE last
               /\ status' = IF code = "SFTP_PROTOCOL" /\ th[t].sftp # None
                              THEN [status EXCEPT ![th[t].sftp] = Id(t)] ELSE status
    BY <1>2 DEF Answer
  <2>2. /\ th[t].pc = "inside" /\ UNCHANGED count
        /\ since' = [u \in Threads |-> IF th[u].pc = "returned" THEN since[u] \cup {Id(t)} ELSE since[u]]
    BY <1>2 DEF Answer
  <2>3. th[t].m \in Used /\ count[t] > 0 /\ th[t].sftp \in On(th[t].m)
    BY <2>2 DEF TypeInv, Knows
  <2>4. rc \in Outcomes
    BY <2>3, Instance, RulesFit DEF Fits, Sound, Outcomes
  <2>5. Id(t) \in Call
    BY <2>3, IdCall DEF TypeInv
  <2> DEFINE r == [th[t] EXCEPT !.pc = "returned", !.rc = rc]
  <2>6. r \in Records /\ r.pc = "returned" /\ r.rc = rc /\ r.m = th[t].m /\ r.sftp = th[t].sftp
    BY <1>0, <2>4 DEF Records
  <2>7. th' = [th EXCEPT ![t] = r]
    BY <1>0, <2>1 DEF Records
  <2> HIDE DEF r
  <2>8. last' \in [code : Codes \cup {"none"}, by : Call \cup {None}] /\ status' \in [Sftps -> Call \cup {None}]
    <3>1. PICK code \in IF rc = "null" THEN Codes ELSE {rc} :
            /\ last' = IF rc = "null" \/ rc \in Codes \ {"EAGAIN"} THEN [code |-> code, by |-> Id(t)] ELSE last
            /\ status' = IF code = "SFTP_PROTOCOL" /\ th[t].sftp # None
                           THEN [status EXCEPT ![th[t].sftp] = Id(t)] ELSE status
      BY <2>1
    <3>2. last' \in [code : Codes \cup {"none"}, by : Call \cup {None}]
      BY <1>0, <2>5, <3>1
    <3>3. status' \in [Sftps -> Call \cup {None}]
      BY <1>0, <2>5, <3>1
    <3>4. QED
      BY <3>2, <3>3
  <2>9. since' \in [Threads -> SUBSET Call]
    BY <1>0, <2>2, <2>5
  <2>10. Knows(t)'
    BY <1>0, <2>2, <2>3, <2>6, <2>7 DEF Knows
  <2>11. QED
    BY <1>0, <2>2, <2>6, <2>7, <2>8, <2>9, <2>10, TypeKeep
<1>3. ASSUME NEW t \in Threads, Finish(t) PROVE TypeInv'
  <2> DEFINE out == Outcome(t, Rules[th[t].m], th[t].rc)
             r == Resting(th[t].m, th[t].sftp, th[t].rc, out)
  <2>1. th' = [th EXCEPT ![t] = r] /\ UNCHANGED <<count, last, status, since>> /\ th[t].pc = "returned"
    BY <1>3 DEF Finish
  <2>2. out \in Exceptions /\ Verdict(th[t].m, th[t].rc, out)
    BY <2>1, OutcomeType
  <2>3. r.pc = "done" /\ r.m = th[t].m /\ r.rc = th[t].rc /\ r.out = out
    BY DEF Resting
  <2> HIDE DEF out
  <2>4. r \in Records
    <3>1. th[t] \in Records
      BY <1>0
    <3>2. QED
      BY <2>2, <3>1 DEF Resting, Records
  <2> HIDE DEF r
  <2>5. Knows(t)'
    BY <1>0, <2>1, <2>2, <2>3 DEF Knows
  <2>6. QED
    BY <1>0, <2>1, <2>4, <2>5, TypeKeep
<1>4. CASE UNCHANGED vars
  BY <1>4 DEF vars, TypeInv, TypeOK, Knows, On
<1>5. QED
  BY <1>1, <1>2, <1>3, <1>4 DEF Next

\* The threads, the session's last error and the statuses are of their types, and no thread makes
\* more calls than there may be.
THEOREM TypeCorrect == Spec => []TypeOK
<1>1. TypeInv => TypeOK
  BY DEF TypeInv
<1>2. QED
  BY <1>1, TypeInit, TypeStep, PTL DEF Spec

\* No method hands out the result of a call that failed, and only the methods named raise without a
\* failure or give None.
THEOREM VerdictMatchesCorrect == Spec => []VerdictMatches
<1>1. TypeInv => VerdictMatches
  BY DEF TypeInv, Knows, Verdict, VerdictMatches, RaisesMore, GivesNone
<1>2. QED
  BY <1>1, TypeInit, TypeStep, PTL DEF Spec

-----------------------------------------------------------------------------
(* Whose text and whose status an exception carries *)

\* The call of t and those answered after it.
Recent(t) == {Id(t)} \cup since[t]

\* Until t reports, the last error and the status are those its call left or a later one did.
Fresh(t) ==
  th[t].pc = "returned" =>
    /\ th[t].rc \in (Codes \ {"EAGAIN"}) \cup {"null"} => last.by \in Recent(t)
    /\ (th[t].rc = "SFTP_PROTOCOL" /\ th[t].sftp # None) => status[th[t].sftp] \in Recent(t)
    /\ (since[t] = {} /\ th[t].rc = "null" /\ last.code = "SFTP_PROTOCOL" /\ th[t].sftp # None) =>
         status[th[t].sftp] = Id(t)

\* What ReportsRecent and ReportsOwn say of an exception.
About(out, rule, rc, id, later) ==
  /\ out.text \in {id, None} \cup later \/ rc \in Silent
  /\ rule.report = "matched" => out.errno \in {id, None} \cup later
  /\ (rc = "SFTP_PROTOCOL" /\ rule.sftp = "reports") => out.errno \in {id} \cup later
  /\ later = {} =>
       /\ out.errno \in {id, None}
       /\ (rule.report = "last" /\ rc \notin Silent) => id \in {out.text, out.errno}

Told(t) == Raised(t) => About(th[t].out, Rules[th[t].m], th[t].rc, Id(t), since[t])

RecentInv == TypeInv /\ \A t \in Threads : Fresh(t) /\ Told(t)

LEMMA RecentReport ==
  ASSUME TypeOK, NEW t \in Threads, NEW rule, Sound(rule), NEW rc \in rule.raises,
         rc \in (Codes \ {"EAGAIN"}) \cup {"null"} => last.by \in Recent(t),
         (rc = "SFTP_PROTOCOL" /\ rule.sftp = "reports") => status[th[t].sftp] \in Recent(t),
         (since[t] = {} /\ rc = "null" /\ last.code = "SFTP_PROTOCOL" /\ rule.sftp = "reports") =>
           status[th[t].sftp] = Id(t)
  PROVE  About(WithStatus(t, rule, Report(rule, rc)), rule, rc, Id(t), since[t])
<1> DEFINE out == Report(rule, rc)
           st == status[th[t].sftp]
<1>1. CASE rule.report = "matched"
  <2>1. out = Matched(rc) /\ rc \in Codes \cup {"zero"}
    BY <1>1 DEF Report, Sound
  <2>2. out.code = rc /\ out.errno = None /\ (out.text = IF last.code = rc THEN last.by ELSE None)
    BY <2>1 DEF Matched
  <2>3. last.code \in Codes \cup {"none"}
    BY DEF TypeOK
  <2>4. out.text \in {Id(t), None} \cup since[t] \/ rc \in Silent
    BY <2>1, <2>2, <2>3, Instance DEF Recent, Silent
  <2>5. CASE rule.sftp = "reports" /\ rc = "SFTP_PROTOCOL"
    <3>1. [out EXCEPT !.text = None, !.errno = st].text = None
          /\ [out EXCEPT !.text = None, !.errno = st].errno = st
      BY <2>1 DEF Matched
    <3> HIDE DEF out
    <3>2. WithStatus(t, rule, out) = [out EXCEPT !.text = None, !.errno = st]
      BY <2>2, <2>5 DEF WithStatus
    <3>3. QED
      BY <1>1, <2>5, <3>1, <3>2 DEF About, Recent, out
  <2>6. CASE ~(rule.sftp = "reports" /\ rc = "SFTP_PROTOCOL")
    <3> HIDE DEF out
    <3>1. WithStatus(t, rule, out) = out
      BY <2>2, <2>6 DEF WithStatus
    <3>2. QED
      BY <1>1, <2>2, <2>4, <2>6, <3>1 DEF About, out
  <2>7. QED
    BY <2>5, <2>6
<1>2. CASE rule.report = "last"
  <2>1. out = Last /\ rc \in {"null", "accepted"}
    BY <1>2 DEF Report, Sound
  <2>2. out.code = last.code /\ out.errno = None /\ out.text = last.by
    BY <2>1 DEF Last
  <2>3. rc # "SFTP_PROTOCOL"
    BY <2>1, Instance DEF Pointers, Unset
  <2>4. rc = "null" => last.by \in Recent(t)
    BY <2>1
  <2>5. CASE rule.sftp = "reports" /\ last.code = "SFTP_PROTOCOL"
    <3>1. [out EXCEPT !.text = None, !.errno = st].text = None
          /\ [out EXCEPT !.text = None, !.errno = st].errno = st
      BY <2>1 DEF Last
    <3> HIDE DEF out
    <3>2. WithStatus(t, rule, out) = [out EXCEPT !.text = None, !.errno = st]
      BY <2>2, <2>5 DEF WithStatus
    <3>3. since[t] = {} => st = Id(t)
      BY <2>1, <2>5 DEF Sound
    <3>4. QED
      BY <1>2, <2>3, <3>1, <3>2, <3>3 DEF About, out
  <2>6. CASE ~(rule.sftp = "reports" /\ last.code = "SFTP_PROTOCOL")
    <3> HIDE DEF out
    <3>1. WithStatus(t, rule, out) = out
      BY <2>2, <2>6 DEF WithStatus
    <3>2. QED
      BY <1>2, <2>1, <2>2, <2>3, <2>4, <3>1 DEF About, Recent, Silent, out
  <2>7. QED
    BY <2>5, <2>6
<1>3. CASE rule.report \in {"own", "fixed"}
  <2>1. rule.sftp # "reports"
    BY <1>3 DEF Sound
  <2>2. out.text = None /\ out.errno = None
    BY <1>3 DEF Report, Quiet
  <2> HIDE DEF out
  <2>3. WithStatus(t, rule, out) = out
    BY <2>1 DEF WithStatus
  <2>4. QED
    BY <1>3, <2>1, <2>2, <2>3 DEF About, out
<1>4. QED
  BY <1>1, <1>2, <1>3 DEF Sound

LEMMA RecentInit == Init => RecentInv
<1> SUFFICES ASSUME Init PROVE RecentInv
  OBVIOUS
<1>1. Resting("none", None, "none", Quiet).pc = "done" /\ Resting("none", None, "none", Quiet).out = Quiet
  BY DEF Resting
<1>2. \A t \in Threads : th[t].pc = "done" /\ th[t].out.kind = "value"
  BY <1>1, QuietType DEF Init
<1>3. QED
  BY <1>2, TypeInit DEF RecentInv, Fresh, Told, Raised

\* A step of t that writes neither the last error nor a status changes nothing for the other threads.
LEMMA RecentKeep ==
  ASSUME RecentInv, TypeInv', NEW t \in Threads, UNCHANGED <<last, status>>,
         \A u \in Threads \ {t} : th'[u] = th[u] /\ count'[u] = count[u] /\ since'[u] = since[u],
         Fresh(t)', Told(t)'
  PROVE  RecentInv'
<1>1. ASSUME NEW u \in Threads \ {t} PROVE Fresh(u)' /\ Told(u)'
  <2>1. Fresh(u) /\ Told(u) /\ Id(u)' = Id(u) /\ Recent(u)' = Recent(u)
    BY DEF RecentInv, Id, Recent
  <2>2. Fresh(u)'
    BY <2>1 DEF Fresh
  <2>3. Told(u)'
    BY <2>1 DEF Told, Raised, About
  <2>4. QED
    BY <2>2, <2>3
<1>2. QED
  BY <1>1 DEF RecentInv

LEMMA RecentStep == RecentInv /\ [Next]_vars => RecentInv'
<1> SUFFICES ASSUME RecentInv, [Next]_vars PROVE RecentInv'
  OBVIOUS
<1>0. /\ th \in [Threads -> Records] /\ count \in [Threads -> 0 .. MaxCalls]
      /\ last \in [code : Codes \cup {"none"}, by : Call \cup {None}]
      /\ status \in [Sftps -> Call \cup {None}] /\ since \in [Threads -> SUBSET Call]
      /\ TypeInv /\ TypeOK
  BY DEF RecentInv, TypeInv, TypeOK, Records
<1>n. TypeInv'
  BY TypeStep DEF RecentInv
<1>1. ASSUME NEW t \in Threads, NEW m \in Used, Begin(t, m) PROVE RecentInv'
  <2>1. PICK s \in On(m) : th' = [th EXCEPT ![t] =
                              [pc |-> "inside", m |-> m, sftp |-> s, rc |-> "none", out |-> Quiet]]
    BY <1>1 DEF Begin
  <2> DEFINE r == [pc |-> "inside", m |-> m, sftp |-> s, rc |-> "none", out |-> Quiet]
  <2>2. r.pc = "inside"
    OBVIOUS
  <2>3. /\ th' = [th EXCEPT ![t] = r] /\ count' = [count EXCEPT ![t] = @ + 1] /\ UNCHANGED <<last, status>>
        /\ since' = [since EXCEPT ![t] = {}]
    BY <1>1, <2>1 DEF Begin
  <2> HIDE DEF r
  <2>4. /\ th'[t] = r
        /\ \A u \in Threads \ {t} : th'[u] = th[u] /\ count'[u] = count[u] /\ since'[u] = since[u]
    BY <1>0, <2>3
  <2>5. Fresh(t)' /\ Told(t)'
    BY <2>2, <2>4 DEF Fresh, Told, Raised
  <2>6. QED
    BY <1>n, <2>3, <2>4, <2>5, RecentKeep
<1>2. ASSUME NEW t \in Threads, Answer(t) PROVE RecentInv'
  <2>1. PICK rc \in Rules[th[t].m].returns :
          /\ th' = [th EXCEPT ![t].pc = "returned", ![t].rc = rc]
          /\ \E code \in IF rc = "null" THEN Codes ELSE {rc} :
               /\ last' = IF rc = "null" \/ rc \in Codes \ {"EAGAIN"}
                            THEN [code |-> code, by |-> Id(t)] ELSE last
               /\ status' = IF code = "SFTP_PROTOCOL" /\ th[t].sftp # None
                              THEN [status EXCEPT ![th[t].sftp] = Id(t)] ELSE status
    BY <1>2 DEF Answer
  <2>2. PICK code \in IF rc = "null" THEN Codes ELSE {rc} :
               /\ last' = IF rc = "null" \/ rc \in Codes \ {"EAGAIN"}
                            THEN [code |-> code, by |-> Id(t)] ELSE last
               /\ status' = IF code = "SFTP_PROTOCOL" /\ th[t].sftp # None
                              THEN [status EXCEPT ![th[t].sftp] = Id(t)] ELSE status
    BY <2>1
  <2>3. /\ th[t].pc = "inside" /\ UNCHANGED count
        /\ \A u \in Threads : since'[u] = IF th[u].pc = "returned" THEN since[u] \cup {Id(t)} ELSE since[u]
    BY <1>2 DEF Answer
  <2> DEFINE r == [th[t] EXCEPT !.pc = "returned", !.rc = rc]
  <2>4. r.pc = "returned" /\ r.rc = rc /\ r.m = th[t].m /\ r.sftp = th[t].sftp
    BY <1>0 DEF Records
  <2>5. th' = [th EXCEPT ![t] = r]
    BY <1>0, <2>1 DEF Records
  <2> HIDE DEF r
  <2>6. /\ th'[t] = r /\ \A u \in Threads \ {t} : th'[u] = th[u]
        /\ \A u \in Threads : Id(u)' = Id(u)
    BY <1>0, <2>3, <2>5 DEF Id
  <2>7. \A s \in Sftps : status'[s] = status[s] \/ status'[s] = Id(t)
    BY <1>0, <2>2
  <2>8. last' = last \/ last' = [code |-> code, by |-> Id(t)]
    BY <2>2
  <2>9. th[t].sftp # None => th[t].sftp \in Sftps
    BY <1>0 DEF Records
  <2>10. Fresh(t)'
    <3>1. rc \in (Codes \ {"EAGAIN"}) \cup {"null"} => last' = [code |-> code, by |-> Id(t)]
      BY <2>2
    <3>2. (code = "SFTP_PROTOCOL" /\ th[t].sftp # None) => status'[th[t].sftp] = Id(t)
      BY <1>0, <2>2, <2>9
    <3>3. rc = "SFTP_PROTOCOL" => code = "SFTP_PROTOCOL"
      BY <2>2, Instance DEF Pointers
    <3>4. QED
      BY <2>4, <2>6, <3>1, <3>2, <3>3 DEF Fresh, Recent
  <2>11. Told(t)'
    BY <2>4, <2>6 DEF Told, Raised
  <2>12. ASSUME NEW u \in Threads \ {t} PROVE Fresh(u)' /\ Told(u)'
    <3>1. Fresh(u) /\ Told(u) /\ th'[u] = th[u] /\ Id(u)' = Id(u)
      BY <2>6 DEF RecentInv
    <3>2. CASE th[u].pc = "returned"
      <4>1. since'[u] = since[u] \cup {Id(t)}
        BY <2>3, <3>2
      <4>2. Recent(u)' = Recent(u) \cup {Id(t)} /\ since'[u] # {}
        BY <3>1, <4>1 DEF Recent
      <4>3. last.by \in Recent(u) => last'.by \in Recent(u)'
        BY <2>8, <4>2
      <4>4. th[u].sftp # None => th[u].sftp \in Sftps
        BY <1>0 DEF Records
      <4>5. (th[u].sftp # None /\ status[th[u].sftp] \in Recent(u)) => status'[th[u].sftp] \in Recent(u)'
        BY <2>7, <4>2, <4>4
      <4>6. Fresh(u)'
        BY <3>1, <3>2, <4>2, <4>3, <4>5 DEF Fresh
      <4>7. QED
        BY <3>1, <3>2, <4>6 DEF Told, Raised
    <3>3. CASE th[u].pc # "returned"
      BY <2>3, <3>1, <3>3 DEF Fresh, Told, Raised, About
    <3>4. QED
      BY <3>2, <3>3
  <2>13. QED
    BY <1>n, <2>10, <2>11, <2>12 DEF RecentInv
<1>3. ASSUME NEW t \in Threads, Finish(t) PROVE RecentInv'
  <2> DEFINE rule == Rules[th[t].m]
             rc == th[t].rc
             out == Outcome(t, rule, rc)
             r == Resting(th[t].m, th[t].sftp, rc, out)
  <2>1. th' = [th EXCEPT ![t] = r] /\ UNCHANGED <<count, last, status, since>> /\ th[t].pc = "returned"
    BY <1>3 DEF Finish
  <2>2. th[t].m \in Used /\ rc \in rule.returns /\ th[t].sftp \in On(th[t].m)
    BY <1>0, <2>1 DEF TypeInv, Knows
  <2>3. Sound(rule)
    BY <2>2, Instance, RulesFit DEF Fits
  <2>4. rule.sftp = "reports" => th[t].sftp # None
    BY <2>2, Subsystem
  <2>5. out.kind = "exception" => About(out, rule, rc, Id(t), since[t])
    <3>1. /\ rc \in (Codes \ {"EAGAIN"}) \cup {"null"} => last.by \in Recent(t)
          /\ (rc = "SFTP_PROTOCOL" /\ rule.sftp = "reports") => status[th[t].sftp] \in Recent(t)
          /\ (since[t] = {} /\ rc = "null" /\ last.code = "SFTP_PROTOCOL" /\ rule.sftp = "reports") =>
               status[th[t].sftp] = Id(t)
      BY <2>1, <2>4 DEF RecentInv, Fresh
    <3>2. CASE rc \in rule.raises
      <4>1. out = WithStatus(t, rule, Report(rule, rc))
        BY <3>2 DEF Outcome
      <4>2. About(WithStatus(t, rule, Report(rule, rc)), rule, rc, Id(t), since[t])
        <5> HIDE DEF rule, rc
        <5>1. QED
          BY <1>0, <2>3, <2>4, <3>1, <3>2, RecentReport
      <4>3. QED
        BY <4>1, <4>2
    <3>3. CASE rc \notin rule.raises
      <4>1. out = [Quiet EXCEPT !.kind = IF rc \in rule.nones THEN "nothing" ELSE "value"]
        BY <3>3 DEF Outcome
      <4>2. out.kind # "exception"
        BY <4>1, QuietType
      <4>3. QED
        BY <4>2
    <3>4. QED
      BY <3>2, <3>3
  <2>6. r.pc = "done" /\ r.m = th[t].m /\ r.rc = rc /\ r.out = out
    BY DEF Resting
  <2> HIDE DEF r, out
  <2>7. /\ th'[t] = r /\ Id(t)' = Id(t)
        /\ \A u \in Threads \ {t} : th'[u] = th[u] /\ count'[u] = count[u] /\ since'[u] = since[u]
    BY <1>0, <2>1 DEF Id
  <2>8. Fresh(t)'
    BY <2>6, <2>7 DEF Fresh
  <2>9. Told(t)'
    BY <2>1, <2>5, <2>6, <2>7 DEF Told, Raised
  <2>10. QED
    BY <1>n, <2>1, <2>7, <2>8, <2>9, RecentKeep
<1>4. CASE UNCHANGED vars
  BY <1>n, <1>4 DEF vars, RecentInv, Fresh, Told, Raised, About, Recent, Id
<1>5. QED
  BY <1>1, <1>2, <1>3, <1>4 DEF Next

\* Whatever other threads do before a method has the GIL back, its exception is about its own call or
\* about one that was answered later, never about one that was over before.
THEOREM ReportsRecentCorrect == Spec => []ReportsRecent
<1>1. RecentInv => ReportsRecent
  BY DEF RecentInv, Told, About, ReportsRecent
<1>2. QED
  BY <1>1, RecentInit, RecentStep, PTL DEF Spec

\* When no other call is answered in between, it is about its own call, whatever failed before.
THEOREM ReportsOwnCorrect == Spec => []ReportsOwn
<1>1. RecentInv => ReportsOwn
  BY DEF RecentInv, Told, About, ReportsOwn
<1>2. QED
  BY <1>1, RecentInit, RecentStep, PTL DEF Spec
=============================================================================
