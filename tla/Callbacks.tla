------------------------------ MODULE Callbacks ------------------------------
(***************************************************************************)
(* The two functions libssh2 calls back, stub_kbd_callback_func and         *)
(* stub_x11_callback_func, with the methods of a Session they run under:    *)
(* callback_set, userauth_keyboardinteractive, userauth_agent, and any      *)
(* other method that reads packets. Each thread works on a session of its   *)
(* own, so that all they share is the GIL and three globals of session.c:   *)
(* interactive_response, interactive_response_len and py_callback_func.     *)
(* A password, and a callback, is named by the thread whose call gave it.   *)
(***************************************************************************)
EXTENDS Naturals, Sequences

CONSTANTS
  Threads,
  Nobody,       \* not a thread
  MaxPrompts,   \* bound: prompts of the peer in one authentication
  MaxEvents,    \* bound: messages in one native call that run the callback of the session
  MaxIds        \* bound: identities of an agent

ASSUME Instance ==
  Nobody \notin Threads /\ MaxPrompts \in Nat /\ MaxEvents \in Nat /\ MaxIds \in Nat

VARIABLES
  gil,      \* the thread that holds the GIL, or Nobody
  answer,   \* interactive_response, interactive_response_len: [text, len]
  func,     \* py_callback_func
  set,      \* whether callback_set was called for the session of each thread
  th,       \* what each thread is doing, see Thread
  kbd,      \* keyboard-interactive authentication of each thread, see Dialogue
  ag        \* agent authentication of each thread, see Agent

vars == <<gil, answer, func, set, th, kbd, ag>>

\* pc "python": Python code outside the module. back, nested: of a callback under way.
\* err: the pending exception, "own" of the method or "stray", left by something else.
\* runs: the callback the stub calls. kept: the stub has returned without PyGILState_Release.
Idle     == [pc |-> "python", back |-> "python", nested |-> FALSE,
             runs |-> Nobody, err |-> "none", kept |-> FALSE, left |-> 0]
Dialogue == [text |-> Nobody, heard |-> {}, prompts |-> 0, intruded |-> FALSE]
Agent    == [ids |-> 0, store |-> 0, rc |-> 0, offers |-> <<>>,
             reached |-> FALSE, auth |-> FALSE, outcome |-> "unset"]

Init ==
  /\ gil = Nobody
  /\ answer = [text |-> Nobody, len |-> Nobody] /\ func = Nobody
  /\ set = [t \in Threads |-> FALSE]
  /\ th  = [t \in Threads |-> Idle]
  /\ kbd = [t \in Threads |-> Dialogue]
  /\ ag  = [t \in Threads |-> Agent]

Runs(t, pc)   == gil = t /\ th[t].pc = pc            \* t is there, with the GIL
GoTo(t, pc)   == th' = [th EXCEPT ![t].pc = pc]
Enter(t, pc, left) == th' = [th EXCEPT ![t] = [@ EXCEPT !.pc = pc, !.left = left]]
Leave(t)      == th' = [th EXCEPT ![t] = [Idle EXCEPT !.err = th[t].err]]
Allow         == gil' = Nobody                       \* Py_BEGIN_ALLOW_THREADS
Regain(t)     == gil = Nobody /\ gil' = t            \* Py_END_ALLOW_THREADS
MayCallBack   == {"native", "prompt", "auth"}        \* where libssh2 reads packets

-----------------------------------------------------------------------------
(* Python code takes the GIL, and gives it up between two bytecodes. *)

Resume(t) ==
  /\ th[t].pc \in {"python", "callback"} /\ Regain(t)
  /\ UNCHANGED <<answer, func, set, th, kbd, ag>>

Switch(t) ==
  /\ gil = t /\ th[t].pc \in {"python", "callback"} /\ Allow
  /\ UNCHANGED <<answer, func, set, th, kbd, ag>>

\* An exception that a method left behind when it returned a value comes up later, or is dropped.
Surface(t) ==
  /\ Runs(t, "python") /\ th[t].err # "none"
  /\ th' = [th EXCEPT ![t].err = "none"]
  /\ UNCHANGED <<gil, answer, func, set, kbd, ag>>

-----------------------------------------------------------------------------
(* Any method that releases the GIL around a native call. *)

NativeBegin(t) ==
  /\ Runs(t, "python") /\ Allow
  /\ Enter(t, "native", MaxEvents)
  /\ UNCHANGED <<answer, func, set, kbd, ag>>

NativeEnd(t) ==
  /\ th[t].pc = "native" /\ Regain(t) /\ Leave(t)
  /\ UNCHANGED <<answer, func, set, kbd, ag>>

-----------------------------------------------------------------------------
(* callback_set(cbtype, callback) *)

\* Unparsable arguments: None is returned with the exception set. A callback that is not callable,
\* and the type LIBSSH2_CALLBACK_X11, raise and change nothing.
CallbackSetNothing(t) ==
  /\ Runs(t, "python")
  /\ th' = [th EXCEPT ![t].err = "stray"]
  /\ UNCHANGED <<gil, answer, func, set, kbd, ag>>

\* Any other type: one global for all sessions, then the session's own registration.
CallbackSet(t) ==
  /\ Runs(t, "python") /\ Allow
  /\ func' = t /\ set' = [set EXCEPT ![t] = TRUE]
  /\ Enter(t, "native", 0)
  /\ UNCHANGED <<answer, kbd, ag>>

-----------------------------------------------------------------------------
(* stub_x11_callback_func: libssh2 reads a message of the registered type. *)

Event(t) ==
  /\ th[t].pc \in MayCallBack /\ set[t] /\ th[t].left > 0
  /\ th' = [th EXCEPT ![t] = [@ EXCEPT !.pc = "ensure", !.back = th[t].pc, !.left = th[t].left - 1]]
  /\ UNCHANGED <<gil, answer, func, set, kbd, ag>>

\* PyGILState_Ensure: nothing to wait for when the thread has the GIL already. Then the callback
\* of the global is called.
Ensure(t) ==
  /\ th[t].pc = "ensure" /\ gil \in {Nobody, t} /\ gil' = t
  /\ th' = [th EXCEPT ![t] = [@ EXCEPT !.pc = "callback", !.nested = (gil = t), !.runs = func]]
  /\ UNCHANGED <<answer, func, set, kbd, ag>>

\* The frame of the native call, when the callback is over.
Back(t, err) == [th[t] EXCEPT !.pc = th[t].back, !.err = err, !.back = "python", !.nested = FALSE,
                        !.runs = Nobody]

\* Variant: an exception of the callback takes the early return as well.
ReturnKeptOnError(t) ==
  /\ Runs(t, "callback")
  /\ \E err \in {th[t].err, "stray"} :
       /\ th' = [th EXCEPT ![t] = Back(t, err)]
       /\ gil' = IF th[t].nested \/ err = "stray" THEN t ELSE Nobody
  /\ UNCHANGED <<answer, func, set, kbd, ag>>

\* The callback returned, or raised: PyGILState_Release.
Return(t) ==
  /\ Runs(t, "callback")
  /\ \E err \in {th[t].err, "stray"} : th' = [th EXCEPT ![t] = Back(t, err)]
  /\ gil' = IF th[t].nested THEN t ELSE Nobody
  /\ UNCHANGED <<answer, func, set, kbd, ag>>

\* A negative number: TypeError is set, and the return comes before PyGILState_Release.
ReturnNegative(t) ==
  /\ Runs(t, "callback")
  /\ th' = [th EXCEPT ![t] = [Back(t, "stray") EXCEPT !.kept = @ \/ ~th[t].nested]]
  /\ UNCHANGED <<gil, answer, func, set, kbd, ag>>

-----------------------------------------------------------------------------
(* userauth_keyboardinteractive(username, password, length) *)

InDialogue(u) == \/ th[u].pc \in {"prompt", "length"}
                 \/ th[u].pc \in {"ensure", "callback"} /\ th[u].back = "prompt"

\* Variant: the length is not taken from the arguments.
KbdTextOnly(t) ==
  /\ Runs(t, "python") /\ Allow
  /\ answer' = [answer EXCEPT !.text = t]
  /\ kbd' = [u \in Threads |-> [kbd[u] EXCEPT !.intruded = @ \/ InDialogue(u)]]
  /\ Enter(t, "prompt", MaxEvents)
  /\ UNCHANGED <<func, set, ag>>

\* PyArg_ParseTuple writes both globals; the text is the caller's string, not a copy.
KbdBegin(t) ==
  /\ Runs(t, "python") /\ Allow
  /\ answer' = [text |-> t, len |-> t]
  /\ kbd' = [u \in Threads |-> [kbd[u] EXCEPT !.intruded = @ \/ InDialogue(u)]]
  /\ Enter(t, "prompt", MaxEvents)
  /\ UNCHANGED <<func, set, ag>>

\* A length that is no number: the text is written all the same, and the exception raised.
KbdUnparsed(t) ==
  /\ Runs(t, "python")
  /\ answer' = [answer EXCEPT !.text = t]
  /\ kbd' = [u \in Threads |-> [kbd[u] EXCEPT !.intruded = @ \/ InDialogue(u)]]
  /\ UNCHANGED <<gil, func, set, th, ag>>

\* A prompt of the peer: strdup(interactive_response). The string is gone with the call that gave it.
KbdText(t) ==
  /\ th[t].pc = "prompt" /\ kbd[t].prompts < MaxPrompts /\ GoTo(t, "length")
  /\ kbd' = [kbd EXCEPT ![t] = [@ EXCEPT !.prompts = kbd[t].prompts + 1,
                        !.text = IF InDialogue(answer.text) THEN answer.text ELSE Nobody]]
  /\ UNCHANGED <<gil, answer, func, set, ag>>

\* responses[i].length = interactive_response_len
KbdLength(t) ==
  /\ th[t].pc = "length" /\ GoTo(t, "prompt")
  /\ kbd' = [kbd EXCEPT ![t].heard = @ \cup {<<kbd[t].text, answer.len>>}]
  /\ UNCHANGED <<gil, answer, func, set, ag>>

\* The peer accepts or refuses: None, or an exception.
KbdEnd(t) ==
  /\ th[t].pc = "prompt" /\ Regain(t) /\ Leave(t)
  /\ kbd' = [kbd EXCEPT ![t] = Dialogue]
  /\ UNCHANGED <<answer, func, set, ag>>

-----------------------------------------------------------------------------
(* userauth_agent(username) *)

\* libssh2_agent_init, then libssh2_agent_connect without the GIL. (No username, and no memory for
\* an agent, raise at once and change nothing.)
AgentBegin(t) ==
  /\ Runs(t, "python") /\ Allow
  /\ Enter(t, "connect", MaxEvents)
  /\ UNCHANGED <<answer, func, set, kbd, ag>>

\* The error paths: a PYLIBSSH2_Error is set, and the agent is left.
GiveUp(t) == th' = [th EXCEPT ![t] = [@ EXCEPT !.pc = "disconnect", !.err = "own"]]

\* if(PyErr_Occurred()): whatever is pending is raised.
Finish(t, err) ==
  /\ th' = [th EXCEPT ![t] = [Idle EXCEPT !.pc = "result"]]
  /\ ag' = [ag EXCEPT ![t].outcome = err]

\* No agent: nothing is set, and None is returned.
AgentUnreachable(t) ==
  /\ th[t].pc = "connect" /\ Regain(t) /\ Finish(t, th[t].err)
  /\ UNCHANGED <<answer, func, set, kbd>>

\* libssh2_agent_list_identities has the GIL.
AgentList(t) ==
  /\ th[t].pc = "connect" /\ Regain(t) /\ GoTo(t, "loop")
  /\ \E n \in 0 .. MaxIds : ag' = [ag EXCEPT ![t] = [@ EXCEPT !.ids = n, !.reached = TRUE]]
  /\ UNCHANGED <<answer, func, set, kbd>>

AgentListFails(t) ==
  /\ th[t].pc = "connect" /\ gil = Nobody
  /\ GiveUp(t)
  /\ ag' = [ag EXCEPT ![t].reached = TRUE]
  /\ UNCHANGED <<gil, answer, func, set, kbd>>

\* Variant: one past the last identity.
NextPast(t) ==
  /\ Runs(t, "loop") /\ GoTo(t, "auth")
  /\ LET more == ag[t].store < ag[t].ids
         next == ag[t].store + 1 IN
       ag' = [ag EXCEPT ![t] = [@ EXCEPT !.store = next, !.rc = IF more THEN 0 ELSE 1,
                                          !.offers = Append(ag[t].offers, next)]]
  /\ UNCHANGED <<gil, answer, func, set, kbd>>

\* The next identity, or 1 and the same one again (NULL, 0 here, when the agent has none).
AgentNext(t) ==
  /\ Runs(t, "loop") /\ GoTo(t, "auth")
  /\ LET more == ag[t].store < ag[t].ids
         next == IF more THEN ag[t].store + 1 ELSE ag[t].store IN
       ag' = [ag EXCEPT ![t] = [@ EXCEPT !.store = next, !.rc = IF more THEN 0 ELSE 1,
                                          !.offers = Append(ag[t].offers, next)]]
  /\ UNCHANGED <<gil, answer, func, set, kbd>>

AgentNextFails(t) ==
  /\ Runs(t, "loop") /\ Allow
  /\ GiveUp(t)
  /\ UNCHANGED <<answer, func, set, kbd, ag>>

\* Variant: the loop is not left when the identity is accepted.
AcceptedGoesOn(t) ==
  /\ Runs(t, "auth")
  /\ ag' = [ag EXCEPT ![t].auth = TRUE]
  /\ IF ag[t].rc = 1
       THEN Allow /\ GiveUp(t)
       ELSE GoTo(t, "loop") /\ UNCHANGED gil
  /\ UNCHANGED <<answer, func, set, kbd>>

\* libssh2_agent_userauth has the GIL as well.
AgentAccepted(t) ==
  /\ Runs(t, "auth") /\ Allow /\ GoTo(t, "disconnect")
  /\ ag' = [ag EXCEPT ![t].auth = TRUE]
  /\ UNCHANGED <<answer, func, set, kbd>>

AgentRefused(t) ==
  /\ Runs(t, "auth")
  /\ IF ag[t].rc = 1
       THEN Allow /\ GiveUp(t)
       ELSE GoTo(t, "loop") /\ UNCHANGED gil
  /\ UNCHANGED <<answer, func, set, kbd, ag>>

AgentEnd(t) ==
  /\ th[t].pc = "disconnect" /\ Regain(t) /\ Finish(t, th[t].err)
  /\ UNCHANGED <<answer, func, set, kbd>>

\* The caller has the result, or the exception.
AgentResult(t) ==
  /\ Runs(t, "result") /\ GoTo(t, "python")
  /\ ag' = [ag EXCEPT ![t] = Agent]
  /\ UNCHANGED <<gil, answer, func, set, kbd>>

-----------------------------------------------------------------------------
Python(t) == Resume(t) \/ Switch(t) \/ Surface(t)
Method(t) == NativeBegin(t) \/ CallbackSetNothing(t) \/ CallbackSet(t)
               \/ KbdBegin(t) \/ KbdUnparsed(t) \/ AgentBegin(t)
\* What the peer, the agent and the registered callback choose to do.
Message(t) == Event(t) \/ KbdText(t)
Steps(t)  == \/ NativeEnd(t) \/ Ensure(t) \/ Return(t) \/ ReturnNegative(t)
             \/ KbdLength(t) \/ KbdEnd(t)
             \/ AgentUnreachable(t) \/ AgentList(t) \/ AgentListFails(t) \/ AgentNext(t)
             \/ AgentNextFails(t) \/ AgentAccepted(t) \/ AgentRefused(t) \/ AgentEnd(t)
             \/ AgentResult(t)
Next == \E t \in Threads : Python(t) \/ Method(t) \/ Message(t) \/ Steps(t)
Spec == Init /\ [][Next]_vars

(* Every native call and every callback comes to its end. A thread that waits
   for the GIL gets it when it is free again and again (strong fairness), and
   Python code gives it up again and again. *)
FairSpec ==
  /\ Spec
  /\ \A t \in Threads : SF_vars(Steps(t)) /\ SF_vars(th[t].pc = "callback" /\ Resume(t))
                        /\ WF_vars(Switch(t) /\ th[t].pc = "python")

-----------------------------------------------------------------------------
(* Correctness *)

Calls == {"native", "prompt", "length", "ensure", "callback", "connect", "loop", "auth", "disconnect", "result"}

TypeOK ==
  /\ gil \in Threads \cup {Nobody}
  /\ answer \in [text : Threads \cup {Nobody}, len : Threads \cup {Nobody}]
  /\ func \in Threads \cup {Nobody}
  /\ set \in [Threads -> BOOLEAN]
  /\ th \in [Threads -> [pc : Calls \cup {"python"}, back : MayCallBack \cup {"python"},
                         nested : BOOLEAN, runs : Threads \cup {Nobody}, err : {"none", "own", "stray"}, kept : BOOLEAN,
                         left : 0 .. MaxEvents]]
  /\ kbd \in [Threads -> [text : Threads \cup {Nobody}, prompts : 0 .. MaxPrompts, intruded : BOOLEAN,
                          heard : SUBSET ((Threads \cup {Nobody}) \X (Threads \cup {Nobody}))]]
  /\ ag \in [Threads -> [ids : 0 .. MaxIds, store : 0 .. MaxIds, rc : 0 .. 1, offers : Seq(0 .. MaxIds),
                         reached : BOOLEAN, auth : BOOLEAN, outcome : {"unset", "none", "own", "stray"}]]

\* What keyboard-interactive authentication answers a prompt with is the password of that call, of
\* the length given with it, unless another thread began such a call meanwhile: the globals are
\* written with the GIL and read without it, and the string must still be there when it is copied.
AloneAnswersOwn ==
  \A t \in Threads : ~kbd[t].intruded => kbd[t].heard \subseteq {<<t, t>>}

\* "@param password: password using to fake keyboard method" (src/libssh2/session.py): the answer
\* to a prompt of a session is the password its own call was given.
AnswersOwn == \A t \in Threads : kbd[t].heard \subseteq {<<t, t>>}

\* A thread that waits for the GIL while it holds it, forever, is one whose callback returned a
\* negative number: no other way through the stub leaves the GIL with a thread that does not use it.
OnlyNegativeBlocks ==
  \A t \in Threads :
    (gil = t /\ th[t].pc \in {"native", "prompt", "length", "connect", "disconnect"}) => th[t].kept

\* userauth_agent returns only when it authenticated the session or had no agent to ask, and raises
\* an exception of its own only when it did not; what makes it raise although it authenticated is an
\* exception left pending by something else.
AgentVerdict ==
  \A t \in Threads :
    /\ ag[t].outcome = "none" => ag[t].auth \/ ~ag[t].reached
    /\ ag[t].outcome = "own"  => ~ag[t].auth

\* The identities are offered one after the other, the last one twice before the agent is given up;
\* only an agent without identities has the missing one offered.
OfferedInOrder ==
  \A t \in Threads :
    LET n == ag[t].ids  k == Len(ag[t].offers) IN
      /\ k <= n + 1
      /\ \A i \in 1 .. k : ag[t].offers[i] = IF i <= n THEN i ELSE n

\* Every call comes back, unless a callback returned a negative number: from then on the whole
\* interpreter may stand still.
CallsEnd ==
  \A t \in Threads : th[t].pc # "python" ~> (th[t].pc = "python" \/ \E u \in Threads : th[u].kept)
=============================================================================
