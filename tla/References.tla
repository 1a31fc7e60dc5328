------------------------------ MODULE References ------------------------------
(***************************************************************************)
(* The reference counts of a Session wrapper, of the channels and listeners *)
(* in its sets and of the sockets given to startup, as the INCREFs and      *)
(* DECREFs of session.c leave them when several threads call its methods.   *)
(* Lifetime takes for granted that a wrapper is deallocated when nobody has *)
(* it any more; here that follows, or not, from what the code counts.       *)
(*                                                                          *)
(* An owner of an object is a variable of the program, the set of the       *)
(* session, self->socket, or a call under way: its arguments, self, and the *)
(* item that Session_close has popped. The destructors of channels and      *)
(* listeners, which use no reference, are one step with the last DECREF.    *)
(***************************************************************************)
EXTENDS Integers, FiniteSets, TLC

CONSTANTS
  Threads,
  Channels,   \* channels of open_session and scp_recv
  Listeners,  \* listeners of forward_listen
  Sockets,    \* socket objects of the program
  Session,    \* the wrapper of the session
  None,       \* no object
  MaxLost     \* bound: references to one socket that startup may lose

Children == Channels \cup Listeners
Objects  == Children \cup Sockets \cup {Session}

ASSUME Kinds == Channels \cap Listeners = {} /\ Children \cap Sockets = {}
                /\ Session \notin Children \cup Sockets /\ None \notin Objects

VARIABLES
  count,    \* ob_refcnt
  mem,      \* the memory of the object: "none", "alive", "dying" (a session in its destructor), "freed"
  user,     \* objects a variable of the program refers to
  set,      \* members of self->channels and self->listeners
  socket,   \* self->socket
  conn,     \* self->opened: "up"; before startup "new", after a close "down"
  th,       \* the call each thread is in
  lost,     \* references the code has given up without a DECREF
  handed    \* sockets whose descriptor libssh2 was given

vars == <<count, mem, user, set, socket, conn, th, lost, handed>>

\* self: the caller has a reference to the session for the call; arg: to this argument;
\* item: what PySet_Pop returned.
Frame(pc, self, arg, item) == [pc |-> pc, self |-> self, arg |-> arg, item |-> item]
Idle == Frame("idle", FALSE, None, None)

Running  == {"loop", "popped", "return", "free"}     \* between two native calls, with the GIL
GilFree  == \A t \in Threads : th[t].pc \notin Running
Ready(t) == th[t].pc = "idle" /\ GilFree
In(t, p) == th[t].pc = p /\ (p \in Running \/ GilFree)
Enter(t, f) == th' = [th EXCEPT ![t] = f]
GoTo(t, p)  == th' = [th EXCEPT ![t].pc = p]

\* What the INCREFs and DECREFs of a step come to, d[o] for an object o: at zero an object is
\* deallocated. (None takes the place of an argument that a call does not have.)
Refs(d) ==
  LET n == [o \in Objects |-> IF o \in DOMAIN d THEN count[o] + d[o] ELSE count[o]] IN
    /\ count' = n
    /\ mem' = [o \in Objects |->
         IF n[o] > 0 THEN "alive"
         ELSE IF mem[o] = "alive" THEN IF o = Session THEN "dying" ELSE "freed" ELSE mem[o]]

Init ==
  /\ count = [o \in Objects |-> IF o \in Children THEN 0 ELSE 1]
  /\ mem   = [o \in Objects |-> IF o \in Children THEN "none" ELSE "alive"]
  /\ user  = Sockets \cup {Session}
  /\ set = {} /\ socket = None /\ conn = "new"
  /\ th   = [t \in Threads |-> Idle]
  /\ lost = [o \in Objects |-> 0]
  /\ handed = {}

-----------------------------------------------------------------------------
(* startup(socket) *)

\* Variant: the reference of the call is all there is.
StartupBorrowed(t, k) ==
  /\ Ready(t) /\ {Session, k} \subseteq user
  /\ socket # None => lost[socket] < MaxLost
  /\ Refs(Session :> 1 @@ k :> 1)
  /\ socket' = k /\ handed' = handed \cup {k}
  /\ lost' = IF socket = None THEN lost ELSE [lost EXCEPT ![socket] = @ + 1]
  /\ Enter(t, Frame("startup", TRUE, k, None))
  /\ UNCHANGED <<user, set, conn>>

\* The socket is kept, and the one of an earlier call forgotten.
StartupBegin(t, k) ==
  /\ Ready(t) /\ {Session, k} \subseteq user
  /\ socket # None => lost[socket] < MaxLost
  /\ Refs(Session :> 1 @@ k :> 2)          \* the call; Py_XINCREF(socket)
  /\ socket' = k /\ handed' = handed \cup {k}
  /\ lost' = IF socket = None THEN lost ELSE [lost EXCEPT ![socket] = @ + 1]
  /\ Enter(t, Frame("startup", TRUE, k, None))
  /\ UNCHANGED <<user, set, conn>>

StartupEnd(t) ==
  /\ In(t, "startup") /\ GoTo(t, "return")
  /\ \/ conn = "new" /\ conn' = "up"
     \/ UNCHANGED conn             \* rc < 0: an exception
  /\ UNCHANGED <<count, mem, user, set, socket, lost, handed>>

-----------------------------------------------------------------------------
(* open_session, scp_recv, forward_listen *)

OpenBegin(t, call) ==
  /\ Ready(t) /\ Session \in user /\ conn = "up"
  /\ Refs(Session :> 1)
  /\ Enter(t, Frame(call, TRUE, None, None))
  /\ UNCHANGED <<user, set, socket, conn, lost, handed>>

\* A new object, which PySet_Add counts; scp_recv puts it in a tuple that counts it once more,
\* and keeps the reference of PYLIBSSH2_Channel_New.
OpenEnd(t) ==
  /\ \E call \in {"open", "scp", "listen"} :
       /\ In(t, call) /\ GoTo(t, "return")
       /\ \/ \E o \in IF call = "listen" THEN Listeners ELSE Channels :
               /\ mem[o] = "none"
               /\ Refs(o :> IF call = "scp" THEN 3 ELSE 2)
               /\ set' = set \cup {o} /\ user' = user \cup {o}
               /\ lost' = IF call = "scp" THEN [lost EXCEPT ![o] = 1] ELSE lost
          \/ UNCHANGED <<count, mem, user, set, lost>>      \* NULL: an exception
  /\ UNCHANGED <<socket, conn, handed>>

-----------------------------------------------------------------------------
(* channel_close(channel), forward_cancel(listener) *)

\* Variant: the reference of the set is given back whether the object was in it or not.
CloseReleases(t, o) ==
  /\ Ready(t) /\ {Session, o} \subseteq user
  /\ Refs(Session :> 1)
  /\ set' = set \ {o}
  /\ Enter(t, Frame("close", TRUE, o, None))
  /\ UNCHANGED <<user, socket, conn, lost, handed>>

\* PySet_Discard gives the reference of the set back when the object is in it: Session_close, or
\* another thread, may have taken it out.
CloseBegin(t, o) ==
  /\ Ready(t) /\ {Session, o} \subseteq user
  /\ Refs(Session :> 1 @@ o :> IF o \in set THEN 0 ELSE 1)
  /\ set' = set \ {o}
  /\ Enter(t, Frame("close", TRUE, o, None))
  /\ UNCHANGED <<user, socket, conn, lost, handed>>

CloseEnd(t) ==
  /\ In(t, "close") /\ GoTo(t, "return")
  /\ UNCHANGED <<count, mem, user, set, socket, conn, lost, handed>>

-----------------------------------------------------------------------------
(* close(), and the destructor of the session *)

SessionClose(t) ==
  /\ Ready(t) /\ Session \in user
  /\ Refs(Session :> 1)
  /\ Enter(t, Frame(IF conn = "up" THEN "loop" ELSE "return", TRUE, None, None))
  /\ UNCHANGED <<user, set, socket, conn, lost, handed>>

\* PySet_Pop: the reference of the set is the caller's now. A channel is closed without the GIL.
Pop(t) ==
  /\ In(t, "loop")
  /\ \E o \in set :
       /\ o \in Listeners => set \cap Channels = {}
       /\ set' = set \ {o}
       /\ Enter(t, [th[t] EXCEPT !.pc = IF o \in Channels THEN "window" ELSE "popped", !.item = o])
  /\ UNCHANGED <<count, mem, user, socket, conn, lost, handed>>

\* Variant: the item is not given back.
PopKept(t) ==
  /\ In(t, "window") \/ In(t, "popped")
  /\ Enter(t, [th[t] EXCEPT !.pc = "loop", !.item = None])
  /\ UNCHANGED <<count, mem, user, set, socket, conn, lost, handed>>

\* Py_XDECREF(item)
PopEnd(t) ==
  /\ In(t, "window") \/ In(t, "popped")
  /\ Refs(th[t].item :> -1)
  /\ Enter(t, [th[t] EXCEPT !.pc = "loop", !.item = None])
  /\ UNCHANGED <<user, set, socket, conn, lost, handed>>

LoopEnd(t) ==
  /\ In(t, "loop") /\ set = {} /\ GoTo(t, "disconnect")
  /\ UNCHANGED <<count, mem, user, set, socket, conn, lost, handed>>

\* Close returns; in the destructor, libssh2_session_free comes next.
DisconnectEnd(t) ==
  /\ In(t, "disconnect") /\ conn' = "down"
  /\ GoTo(t, IF mem[Session] = "dying" THEN "free" ELSE "return")
  /\ UNCHANGED <<count, mem, user, set, socket, lost, handed>>

\* Where a thread goes that gave back a reference to the session: on into its destructor, when it
\* was the last.
Destructor == Frame(IF conn = "up" THEN "loop" ELSE "free", FALSE, None, None)
Left == IF count[Session] = 1 THEN Destructor ELSE Idle

\* The caller gives back self and the argument.
Return(t) ==
  /\ In(t, "return")
  /\ Refs(Session :> -1 @@ th[t].arg :> -1)
  /\ Enter(t, Left)
  /\ UNCHANGED <<user, set, socket, conn, lost, handed>>

\* Variant: the socket is not given back.
FreeOpen(t) ==
  /\ In(t, "free")
  /\ mem' = [o \in Objects |-> IF o = Session \/ (o \in set /\ count[o] = 1) THEN "freed" ELSE mem[o]]
  /\ count' = [o \in Objects |-> count[o] - (IF o \in set THEN 1 ELSE 0)]
  /\ set' = {} /\ socket' = None
  /\ Enter(t, Idle)
  /\ UNCHANGED <<user, conn, lost, handed>>

\* Py_XDECREF of self->socket and of the sets, whose members lose a reference each.
Free(t) ==
  /\ In(t, "free")
  /\ LET given == set \cup ({socket} \ {None})
         n == [o \in Objects |-> count[o] - (IF o \in given THEN 1 ELSE 0)] IN
       /\ count' = n
       /\ mem' = [o \in Objects |-> IF o = Session \/ (o \in given /\ n[o] = 0) THEN "freed" ELSE mem[o]]
  /\ set' = {} /\ socket' = None
  /\ Enter(t, Idle)
  /\ UNCHANGED <<user, conn, lost, handed>>

-----------------------------------------------------------------------------
(* The program gives up a variable. *)
Drop(t, o) ==
  /\ Ready(t) /\ o \in user
  /\ user' = user \ {o}
  /\ Refs(o :> -1)
  /\ Enter(t, IF o = Session THEN Left ELSE Idle)
  /\ UNCHANGED <<set, socket, conn, lost, handed>>

Next ==
  \E t \in Threads :
    \/ \E k \in Sockets : StartupBegin(t, k)
    \/ StartupEnd(t)
    \/ \E call \in {"open", "scp", "listen"} : OpenBegin(t, call)
    \/ OpenEnd(t)
    \/ \E o \in Children : CloseBegin(t, o)
    \/ CloseEnd(t)
    \/ SessionClose(t) \/ Pop(t) \/ PopEnd(t) \/ LoopEnd(t) \/ DisconnectEnd(t)
    \/ Return(t) \/ Free(t)
    \/ \E o \in Objects : Drop(t, o)

Spec == Init /\ [][Next]_vars

-----------------------------------------------------------------------------
(* Correctness *)

Points == {"idle", "startup", "open", "scp", "listen", "close", "window", "disconnect"} \cup Running

TypeOK ==
  /\ count \in [Objects -> Nat]
  /\ mem \in [Objects -> {"none", "alive", "dying", "freed"}]
  /\ user \subseteq Objects /\ set \subseteq Children /\ socket \in Sockets \cup {None}
  /\ conn \in {"new", "up", "down"}
  /\ th \in [Threads -> [pc : Points, self : BOOLEAN, arg : Children \cup Sockets \cup {None},
                         item : Children \cup {None}]]
  /\ lost \in [Objects -> 0 .. (MaxLost + 1)] /\ handed \subseteq Sockets

Number(b) == IF b THEN 1 ELSE 0
Owners(o) ==
  Number(o \in user) + Number(o \in set) + Number(o = socket)
    + Cardinality({t \in Threads : th[t].arg = o})
    + Cardinality({t \in Threads : th[t].item = o})
    + Cardinality({t \in Threads : o = Session /\ th[t].self})

\* However pops, discards, closes and drops of several threads interleave, the count of an object
\* is that of its owners and of the references lost at the two places that forget one (scp_recv,
\* a second startup): so it is deallocated by the last owner, not before and not later.
Counted == \A o \in Objects : count[o] = Owners(o) + lost[o]

\* The sockets libssh2 was given stay open as long as it may use them: through a failed or a second
\* startup, and through the disconnect and the closes of the session's destructor, the program may
\* drop its own variables for them.
SocketsHeld == mem[Session] # "freed" => \A k \in handed : mem[k] = "alive"

\* When the program has no variable left and no call under way, everything is deallocated, the
\* members of the sets and the socket with the session; but for the references that were lost.
AllGivenBack ==
  (user = {} /\ \A t \in Threads : th[t].pc = "idle") =>
    \A o \in Objects : mem[o] \in {"none", "freed"} \/ lost[o] > 0
=============================================================================
