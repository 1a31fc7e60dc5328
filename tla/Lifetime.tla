------------------------------ MODULE Lifetime ------------------------------
(***************************************************************************)
(* One Session wrapper, the wrappers of the channels, listeners, SFTP      *)
(* subsystems, files and directories opened on it, and the native libssh2  *)
(* objects behind them, used by several Python threads.                    *)
(*                                                                         *)
(* The wrappers keep raw native pointers and no reference to their parent. *)
(* A parent keeps its children in sets (PySet) that own a reference each.  *)
(* The GIL is released around the blocking native calls, and only there:   *)
(* a thread whose pc is in Running is between two native calls and holds   *)
(* the GIL, any other thread waits in Python or inside libssh2.            *)
(*                                                                         *)
(* A Python reference is modelled by who owns it: a variable of the user's *)
(* program (user), the set of the parent (reg), the frames of a thread     *)
(* (Held) or a reference that no DECREF will ever give back (pinned).      *)
(***************************************************************************)
EXTENDS Naturals

CONSTANTS
  Threads,    \* Python threads that share the session
  Channels,   \* channels opened by open_session, scp_recv and scp_send
  Accepted,   \* channels returned by Listener.accept
  Listeners,  \* listeners of forward_listen
  Sftps,      \* SFTP subsystems of sftp_init
  Files,      \* handles of Sftp.open_file
  Dirs,       \* handles of Sftp.open_dir
  Failing,    \* objects whose native close may fail, or would block, and leave them as they are
  None        \* no object

Chans    == Channels \cup Accepted
Handles  == Files \cup Dirs
Children == Channels \cup Listeners \cup Sftps   \* what the sets of the session hold
Freeable == Chans \cup Sftps                     \* freed by the wrapper after a re-read of its pointer
Objects  == Chans \cup Listeners \cup Sftps \cup Handles

\* An identifier names one wrapper of one type, and None names none.
ASSUME Kinds ==
  /\ Channels \cap Accepted = {}
  /\ Chans \cap Listeners = {}
  /\ (Chans \cup Listeners) \cap Sftps = {}
  /\ Files \cap Dirs = {}
  /\ (Chans \cup Listeners \cup Sftps) \cap Handles = {}
  /\ None \notin Objects

VARIABLES
  th,      \* what each thread executes
  opened,  \* self->opened
  conn,    \* the SSH connection: "new", "up", "down"
  held,    \* the user's program still has a variable for the session
  life,    \* the session wrapper: "alive", "dying" (in dealloc), "freed" (after libssh2_session_free), "gone"
  py,      \* each wrapper: "none", "alive", "gone", or "leaked" (unreachable, memory never returned)
  ptr,     \* its native pointer is not NULL
  native,  \* the native object: "none", "live", "dead"
  home,    \* the Sftp whose set received a file or directory
  reg,     \* members of the sets sftps, channels, listeners of the session and files, directories of an Sftp
  user,    \* wrappers the user's program has a variable for
  pinned,  \* wrappers with a reference nobody will give back
  freed,   \* how often the wrapper passed its pointer to libssh2_channel_free or libssh2_sftp_shutdown
  stale,   \* wrappers that passed libssh2 a dead object, or whose object died under a call
  nulls    \* wrappers that passed libssh2 a NULL pointer

sessVars == <<opened, conn, held, life>>
objVars  == <<py, ptr, native, home>>
refVars  == <<reg, user, pinned>>
logVars  == <<freed, stale, nulls>>
vars     == <<th, sessVars, objVars, refVars, logVars>>

Running == {"sess", "shut", "drop"}
Windows == {"startup", "open", "scp", "listen", "disconnect", "use", "accept", "openfile", "opendir",
            "chclose", "hclose", "lcancel"}
Loops   == {"sftps", "channels", "listeners"}    \* the three loops of Session_close

\* pc: where the thread is; obj: the wrapper it works on; sftp: the Sftp whose method is
\* running; loop: which loop of Sftp_shutdown(sftp) is running; sess: the session method that
\* is running ("self"), the loop of Session_close, or the end of dealloc ("final"); arg: the
\* native pointer read before the GIL was released was not NULL.
Frame(pc, obj, sftp, loop, sess, arg) ==
  [pc |-> pc, obj |-> obj, sftp |-> sftp, loop |-> loop, sess |-> sess, arg |-> arg]

InSession(p, e)   == Frame(p, None, None, "no", e, FALSE)
InShutdown(r, s, l) == Frame("shut", None, s, l, r.sess, FALSE)
Giving(r, o, p, a) == Frame(p, o, r.sftp, r.loop, r.sess, a)    \* a native call on o: r at p
Dropping(r, o)    == Giving(r, o, "drop", FALSE)
DroppingSftp(r, s) == Frame("drop", s, None, "no", r.sess, FALSE)
Idle == InSession("idle", "no")

GilFree  == \A t \in Threads : th[t].pc \notin Running
Ready(t) == th[t].pc = "idle" /\ GilFree
In(t, p) == th[t].pc = p /\ (p \in Running \/ GilFree)
Set(t, r) == th' = [th EXCEPT ![t] = r]

Held(t) == {th[t].obj, th[t].sftp}
\* Some owner other than the frames of t keeps wrapper o alive.
Owned(o, t) == o \in reg \cup user \cup pinned \/ \E u \in Threads \ {t} : o \in Held(u)
\* Variant: the session's methods hold no reference to it.
HeldByUser(t) == held
\* Some owner other than the frames of t keeps the session wrapper alive.
SessionOwned(t) == held \/ \E u \in Threads \ {t} : th[u].sess # "no"

\* Where a thread goes on once it is done with th[t].obj.
After(r) ==
  CASE r.sftp # None /\ r.loop # "no" -> InShutdown(r, r.sftp, r.loop)
    [] r.sftp # None /\ r.loop = "no" -> DroppingSftp(r, r.sftp)
    [] r.sftp = None /\ r.sess # "no" -> InSession("sess", r.sess)
    [] OTHER -> Idle

DeadOnes(S)  == {o \in S : native[o] = "dead"}
\* A native call that is given the pointer of o.
Call(o) == /\ stale' = stale \cup (IF ptr[o] THEN DeadOnes({o}) ELSE {})
           /\ nulls' = nulls \cup (IF ptr[o] THEN {} ELSE {o})
\* A native close of o, whose result no caller looks at.
Ends(o) == \/ native' = [native EXCEPT ![o] = "dead"]
           \/ o \in Failing /\ UNCHANGED native

Init ==
  /\ th = [t \in Threads |-> Idle]
  /\ opened = FALSE /\ conn = "new" /\ held = TRUE /\ life = "alive"
  /\ py = [o \in Objects |-> "none"]
  /\ ptr = [o \in Objects |-> FALSE]
  /\ native = [o \in Objects |-> "none"]
  /\ home = [h \in Handles |-> None]
  /\ reg = {} /\ user = {} /\ pinned = {}
  /\ freed = [o \in Freeable |-> 0]
  /\ stale = {} /\ nulls = {}

-----------------------------------------------------------------------------
(* Session.startup *)
StartupBegin(t) ==
  /\ Ready(t) /\ held
  /\ Set(t, InSession("startup", "self"))
  /\ UNCHANGED <<sessVars, objVars, refVars, logVars>>

StartupEnd(t) ==
  /\ In(t, "startup")
  /\ \/ /\ conn = "new"
        /\ conn' = "up" /\ opened' = TRUE
        /\ UNCHANGED <<held, life>>
     \/ UNCHANGED sessVars            \* rc < 0: an exception
  /\ Set(t, After(th[t]))
  /\ UNCHANGED <<objVars, refVars, logVars>>

\* PYLIBSSH2_*_New around a fresh native object, returned to the caller.
New(o) ==
  /\ py[o] = "none"
  /\ py' = [py EXCEPT ![o] = "alive"]
  /\ ptr' = [ptr EXCEPT ![o] = TRUE]
  /\ native' = [native EXCEPT ![o] = "live"]
  /\ user' = user \cup {o}

(* open_session, scp_recv, forward_listen: the GIL is released. A request that
   was sent before a disconnect may still be answered. *)
OpenBegin(t, call) ==
  /\ Ready(t) /\ held /\ conn = "up"
  /\ Set(t, InSession(call, "self"))
  /\ UNCHANGED <<sessVars, objVars, refVars, logVars>>

OpenEnd(t) ==
  /\ \E call \in {"open", "scp", "listen"} :
       /\ In(t, call)
       /\ \/ \E o \in IF call = "listen" THEN Listeners ELSE Channels :
               /\ New(o)
               /\ reg' = reg \cup {o}
               /\ pinned' = IF call = "scp" THEN pinned \cup {o} ELSE pinned
               /\ UNCHANGED home
          \/ UNCHANGED <<objVars, refVars>>     \* NULL: an exception
  /\ Set(t, After(th[t]))
  /\ UNCHANGED <<sessVars, logVars>>

(* scp_send and sftp_init keep the GIL. *)
OpenLocked(t) ==
  /\ Ready(t) /\ held /\ conn = "up"
  /\ \E o \in Channels \cup Sftps :
       /\ New(o)
       /\ reg' = reg \cup {o}
  /\ UNCHANGED <<th, sessVars, home, pinned, logVars>>

-----------------------------------------------------------------------------
(* Any method of a Channel, an Sftp, a file or a directory that makes a native
   call on its own pointer. It raises when the pointer is NULL. *)
UseBegin(t, o) ==
  /\ Ready(t) /\ o \in user /\ ptr[o]
  /\ Set(t, Giving(Idle, o, "use", TRUE))
  /\ Call(o)
  /\ UNCHANGED <<sessVars, objVars, refVars, freed>>

UseEnd(t) ==
  /\ In(t, "use")
  /\ stale' = stale \cup DeadOnes({th[t].obj})
  /\ Set(t, Dropping(th[t], th[t].obj))
  /\ UNCHANGED <<sessVars, objVars, refVars, freed, nulls>>

\* Sftpdir.list_files goes round: the pointer is read again, and not tested.
UseAgain(t) ==
  /\ In(t, "use") /\ th[t].obj \in Dirs
  /\ stale' = stale \cup DeadOnes({th[t].obj})
  /\ nulls' = nulls \cup (IF ptr[th[t].obj] THEN {} ELSE {th[t].obj})
  /\ UNCHANGED <<th, sessVars, objVars, refVars, freed>>

(* Listener.accept: the pointer is not checked, the channel not registered. *)
AcceptBegin(t, l) ==
  /\ Ready(t) /\ l \in user
  /\ Set(t, Giving(Idle, l, "accept", ptr[l]))
  /\ Call(l)
  /\ UNCHANGED <<sessVars, objVars, refVars, freed>>

AcceptEnd(t) ==
  /\ In(t, "accept")
  /\ LET l == th[t].obj IN
       /\ stale' = stale \cup (IF th[t].arg THEN DeadOnes({l}) ELSE {})
       /\ \/ /\ th[t].arg /\ native[l] = "live"
             /\ \E a \in Accepted : New(a)
             /\ UNCHANGED <<home, reg, pinned>>
          \/ UNCHANGED <<objVars, refVars>>
  /\ Set(t, Dropping(th[t], th[t].obj))
  /\ UNCHANGED <<sessVars, freed, nulls>>

(* Sftp.open_file, Sftp.open_dir *)
OpenHandleBegin(t, s, call) ==
  /\ Ready(t) /\ s \in user /\ ptr[s] /\ conn = "up"
  /\ Set(t, Giving(Idle, s, call, TRUE))
  /\ Call(s)
  /\ UNCHANGED <<sessVars, objVars, refVars, freed>>

\* self->sftp is read again after the call: when it has become NULL the constructor returns
\* NULL and the native handle stays behind without a wrapper.
OpenHandleEnd(t) ==
  /\ \E call \in {"openfile", "opendir"} :
       /\ In(t, call)
       /\ LET s == th[t].obj IN
            /\ stale' = stale \cup DeadOnes({s})
            /\ \/ /\ native[s] = "live" /\ ptr[s]
                  /\ \E h \in IF call = "openfile" THEN Files ELSE Dirs :
                       /\ New(h)
                       /\ home' = [home EXCEPT ![h] = s]
                       /\ reg' = reg \cup {h}
                  /\ UNCHANGED pinned
               \/ UNCHANGED <<objVars, refVars>>
  /\ Set(t, Dropping(th[t], th[t].obj))
  /\ UNCHANGED <<sessVars, freed, nulls>>

-----------------------------------------------------------------------------
(* The functions that close an object: entered holding the GIL with the frame r. *)

\* Variant: Channel_close without the test of the pointer.
ChannelCloseUnchecked(t, r, c) ==
  /\ Set(t, Giving(r, c, "chclose", ptr[c]))
  /\ Call(c)

\* Channel_close: nothing when the pointer is NULL.
EnterChannelClose(t, r, c) ==
  IF ptr[c]
    THEN /\ Set(t, Giving(r, c, "chclose", TRUE))
         /\ Call(c)
    ELSE /\ Set(t, Dropping(r, c))
         /\ UNCHANGED <<stale, nulls>>

CountFree(o) == freed' = [freed EXCEPT ![o] = @ + 1]

\* Variant: the pointer read before the GIL was released is freed.
FreeArgument(t) ==
  /\ In(t, "chclose") /\ th[t].arg
  /\ CountFree(th[t].obj)
  /\ native' = [native EXCEPT ![th[t].obj] = "dead"]
  /\ ptr' = [ptr EXCEPT ![th[t].obj] = FALSE]
  /\ stale' = stale \cup DeadOnes({th[t].obj})
  /\ Set(t, Dropping(th[t], th[t].obj))
  /\ UNCHANGED <<sessVars, py, home, refVars, nulls>>

ChannelCloseEnd(t) ==
  /\ In(t, "chclose")
  /\ LET c == th[t].obj IN
       /\ IF ptr[c]      \* libssh2_channel_free(self->channel): the pointer is read again
            THEN /\ CountFree(c)
                 /\ Ends(c)
                 /\ ptr' = [ptr EXCEPT ![c] = FALSE]
                 /\ UNCHANGED nulls
            ELSE /\ nulls' = nulls \cup {c}
                 /\ UNCHANGED <<freed, native, ptr>>
       /\ stale' = stale \cup DeadOnes({c})
  /\ Set(t, Dropping(th[t], th[t].obj))
  /\ UNCHANGED <<sessVars, py, home, refVars>>

\* Listener_cancel, PYLIBSSH2_Sftpfile_close, PYLIBSSH2_Sftpdir_close: no check of the pointer,
\* and the native object is destroyed by the call made without the GIL.
EnterDestroy(t, r, o) ==
  /\ Set(t, Giving(r, o, IF o \in Listeners THEN "lcancel" ELSE "hclose", ptr[o]))
  /\ Call(o)

DestroyEnd(t) ==
  /\ In(t, "lcancel") \/ In(t, "hclose")
  /\ LET o == th[t].obj IN
       /\ ptr' = [ptr EXCEPT ![o] = FALSE]
       /\ IF th[t].arg
            THEN /\ Ends(o)
                 /\ stale' = stale \cup DeadOnes({o})
            ELSE UNCHANGED <<native, stale>>
  /\ Set(t, Dropping(th[t], th[t].obj))
  /\ UNCHANGED <<sessVars, py, home, refVars, freed, nulls>>

\* Sftp_shutdown: nothing when the pointer is NULL.
EnterShutdown(t, r, s) ==
  IF ptr[s] THEN Set(t, InShutdown(r, s, "dirs"))
            ELSE Set(t, DroppingSftp(r, s))

\* Variant: the first loop also looks in the set of files.
OnlyFiles(s, kind) == {h \in reg \cap kind \cap Files : home[h] = s}

Members(s, kind) == {h \in reg \cap kind : home[h] = s}
Serves(loop) == IF loop = "dirs" THEN Dirs ELSE Files

ShutdownPop(t) ==
  /\ In(t, "shut")
  /\ \E h \in Members(th[t].sftp, Serves(th[t].loop)) :
       /\ reg' = reg \ {h}
       /\ EnterDestroy(t, th[t], h)
  /\ UNCHANGED <<sessVars, objVars, user, pinned, freed>>

ShutdownNextLoop(t) ==
  /\ In(t, "shut") /\ th[t].loop = "dirs" /\ Members(th[t].sftp, Serves("dirs")) = {}
  /\ Set(t, InShutdown(th[t], th[t].sftp, "files"))
  /\ UNCHANGED <<sessVars, objVars, refVars, logVars>>

\* Variant: "if" in place of the second "while".
ShutdownEndOnce(t) ==
  /\ In(t, "shut") /\ th[t].loop = "files"
  /\ CountFree(th[t].sftp)
  /\ native' = [native EXCEPT ![th[t].sftp] = "dead"]
  /\ ptr' = [ptr EXCEPT ![th[t].sftp] = FALSE]
  /\ Set(t, DroppingSftp(th[t], th[t].sftp))
  /\ UNCHANGED <<sessVars, py, home, refVars, stale, nulls>>

\* Both sets are done: libssh2_sftp_shutdown, which leaves no handle of the subsystem usable,
\* then self->sftp = NULL, without releasing the GIL.
ShutdownEnd(t) ==
  /\ In(t, "shut") /\ th[t].loop = "files" /\ Members(th[t].sftp, Serves("files")) = {}
  /\ LET s == th[t].sftp IN
       /\ Call(s)
       /\ IF ptr[s]
            THEN /\ CountFree(s)
                 /\ \/ native' = [o \in Objects |->
                         IF o = s \/ (o \in Handles /\ home[o] = s /\ native[o] = "live")
                           THEN "dead" ELSE native[o]]
                    \/ s \in Failing /\ UNCHANGED native
                 /\ ptr' = [ptr EXCEPT ![s] = FALSE]
            ELSE UNCHANGED <<freed, native, ptr>>
       /\ Set(t, DroppingSftp(th[t], s))
  /\ UNCHANGED <<sessVars, py, home, refVars>>

-----------------------------------------------------------------------------
(* The methods that close one object, called by the user *)

\* Variant: the channel stays in the set.
CloseRegistered(t, c) ==
  /\ Ready(t) /\ held /\ c \in user
  /\ EnterChannelClose(t, InSession("idle", "self"), c)
  /\ UNCHANGED <<sessVars, objVars, refVars, freed>>

ChannelClose(t, c) ==
  /\ Ready(t) /\ held /\ c \in user
  /\ reg' = reg \ {c}
  /\ EnterChannelClose(t, InSession("idle", "self"), c)
  /\ UNCHANGED <<sessVars, objVars, user, pinned, freed>>

ForwardCancel(t, l) ==
  /\ Ready(t) /\ held /\ l \in user
  /\ reg' = reg \ {l}
  /\ EnterDestroy(t, InSession("idle", "self"), l)
  /\ UNCHANGED <<sessVars, objVars, user, pinned, freed>>

SftpShutdown(t, s) ==
  /\ Ready(t) /\ held /\ s \in user
  /\ reg' = reg \ {s}
  /\ EnterShutdown(t, InSession("idle", "self"), s)
  /\ UNCHANGED <<sessVars, objVars, user, pinned, logVars>>

\* Variant: the subsystem is destroyed in place of the handle.
CloseOwner(t, s, h) ==
  /\ Ready(t) /\ {s, h} \subseteq user /\ ptr[s]
  /\ EnterDestroy(t, Frame("idle", None, h, "no", "no", FALSE), s)
  /\ UNCHANGED <<sessVars, objVars, refVars, freed>>

\* close_file and close_dir check self->sftp, not that the handle is still open, nor that the
\* handle came from this Sftp; and each looks in its own set only, whatever it is given.
CloseHandle(t, s, h) ==
  /\ Ready(t) /\ {s, h} \subseteq user /\ ptr[s]
  /\ \E looked \in {Files, Dirs} : reg' = IF home[h] = s THEN reg \ ({h} \cap looked) ELSE reg
  /\ EnterDestroy(t, Frame("idle", None, s, "no", "no", FALSE), h)
  /\ UNCHANGED <<sessVars, objVars, user, pinned, freed>>

-----------------------------------------------------------------------------
(* Session.close: the three loops of Session_close, then the disconnect. *)
SessionClose(t) ==
  /\ Ready(t) /\ held
  /\ Set(t, InSession("sess", IF opened THEN "sftps" ELSE "self"))
  /\ UNCHANGED <<sessVars, objVars, refVars, logVars>>

InLoop(t, l) == In(t, "sess") /\ th[t].sess = l

ClosePopSftp(t) ==
  /\ InLoop(t, "sftps")
  /\ \E s \in reg \cap Sftps :
       /\ reg' = reg \ {s}
       /\ EnterShutdown(t, th[t], s)
  /\ UNCHANGED <<sessVars, objVars, user, pinned, logVars>>

\* Variants: the channel is only released, like the listeners; the loop iterates over the set
\* without taking the channel out.
ReleaseChannel(t) ==
  /\ InLoop(t, "channels")
  /\ \E c \in reg \cap Channels :
       /\ reg' = reg \ {c}
       /\ Set(t, Dropping(th[t], c))
  /\ UNCHANGED <<sessVars, objVars, user, pinned, logVars>>

PeekChannel(t) ==
  /\ InLoop(t, "channels")
  /\ \E c \in reg \cap Channels : EnterChannelClose(t, th[t], c)
  /\ UNCHANGED <<sessVars, objVars, refVars, freed>>

ClosePopChannel(t) ==
  /\ InLoop(t, "channels")
  /\ \E c \in reg \cap Channels :
       /\ reg' = reg \ {c}
       /\ EnterChannelClose(t, th[t], c)
  /\ UNCHANGED <<sessVars, objVars, user, pinned, freed>>

\* A listener is not cancelled, it only loses the reference of the set.
ClosePopListener(t) ==
  /\ InLoop(t, "listeners")
  /\ \E l \in reg \cap Listeners :
       /\ reg' = reg \ {l}
       /\ Set(t, Dropping(th[t], l))
  /\ UNCHANGED <<sessVars, objVars, user, pinned, logVars>>

CloseNextLoop(t) ==
  /\ \/ /\ InLoop(t, "sftps") /\ reg \cap Sftps = {}
        /\ Set(t, InSession("sess", "channels"))
     \/ /\ InLoop(t, "channels") /\ reg \cap Channels = {}
        /\ Set(t, InSession("sess", "listeners"))
     \/ /\ InLoop(t, "listeners") /\ reg \cap Listeners = {}
        /\ Set(t, InSession("disconnect", "listeners"))
  /\ UNCHANGED <<sessVars, objVars, refVars, logVars>>

\* libssh2_session_free frees every native object of the session; then the sets are released.
SessionFree(t) ==
  /\ life' = "freed"
  /\ native' = [o \in Objects |-> IF native[o] = "live" THEN "dead" ELSE native[o]]
  /\ Set(t, InSession("sess", "final"))

DisconnectEnd(t) ==
  /\ In(t, "disconnect")
  /\ conn' = "down" /\ opened' = FALSE
  /\ IF life = "dying"
       THEN SessionFree(t)
       ELSE /\ Set(t, InSession("sess", "self"))
            /\ UNCHANGED <<life, native>>
  /\ UNCHANGED <<held, py, ptr, home, refVars, logVars>>

-----------------------------------------------------------------------------
(* References given back, and the destructors *)

\* The frame of a session method ends. Without another owner the session is deallocated.
Leave(t) ==
  /\ InLoop(t, "self")
  /\ CASE SessionOwned(t) ->
            /\ Set(t, Idle)
            /\ UNCHANGED <<life, native>>
       [] ~SessionOwned(t) /\ opened ->
            /\ life' = "dying"
            /\ Set(t, InSession("sess", "sftps"))
            /\ UNCHANGED native
       [] ~SessionOwned(t) /\ ~opened -> SessionFree(t)
  /\ UNCHANGED <<opened, conn, held, py, ptr, home, refVars, logVars>>

\* Py_XDECREF of the three sets: each member loses the reference of the set.
FinalPop(t) ==
  /\ InLoop(t, "final")
  /\ \E o \in reg \cap Children :
       /\ o \in Channels => reg \cap Sftps = {}
       /\ o \in Listeners => reg \cap (Sftps \cup Channels) = {}
       /\ reg' = reg \ {o}
       /\ Set(t, Dropping(th[t], o))
  /\ UNCHANGED <<sessVars, objVars, user, pinned, logVars>>

\* Variant: the sets are not released.
SetsKept(t) ==
  /\ InLoop(t, "final") /\ life' = "gone"
  /\ Set(t, Idle)
  /\ UNCHANGED <<opened, conn, held, objVars, refVars, logVars>>

FinalEnd(t) ==
  /\ InLoop(t, "final") /\ reg \cap Children = {}
  /\ life' = "gone"
  /\ Set(t, Idle)
  /\ UNCHANGED <<opened, conn, held, objVars, refVars, logVars>>

\* Py_XDECREF of a wrapper that has another owner.
DropShared(t) ==
  /\ In(t, "drop") /\ Owned(th[t].obj, t)
  /\ Set(t, After(th[t]))
  /\ UNCHANGED <<sessVars, objVars, refVars, logVars>>

Last(t) == In(t, "drop") /\ ~Owned(th[t].obj, t)

\* PYLIBSSH2_Channel_dealloc
ChannelDealloc(t) ==
  /\ Last(t) /\ th[t].obj \in Chans
  /\ IF ptr[th[t].obj]
       THEN /\ EnterChannelClose(t, th[t], th[t].obj)
            /\ UNCHANGED py
       ELSE /\ py' = [py EXCEPT ![th[t].obj] = "gone"]
            /\ Set(t, After(th[t]))
            /\ UNCHANGED <<stale, nulls>>
  /\ UNCHANGED <<sessVars, ptr, native, home, refVars, freed>>

\* PYLIBSSH2_Listener_dealloc
ListenerDealloc(t) ==
  /\ Last(t) /\ th[t].obj \in Listeners
  /\ IF ptr[th[t].obj]
       THEN /\ EnterDestroy(t, th[t], th[t].obj)
            /\ UNCHANGED py
       ELSE /\ py' = [py EXCEPT ![th[t].obj] = "gone"]
            /\ Set(t, After(th[t]))
            /\ UNCHANGED <<stale, nulls>>
  /\ UNCHANGED <<sessVars, ptr, native, home, refVars, freed>>

\* What the destructors of the files and directories S do: an open one is closed with the GIL
\* held and deleted, a closed one is never deleted. The wrappers in gone are deleted with them.
HandlesDealloc(S, gone) ==
  /\ py' = [o \in Objects |-> IF o \in gone \/ (o \in S /\ ptr[o]) THEN "gone"
                              ELSE IF o \in S THEN "leaked" ELSE py[o]]
  /\ \E kept \in SUBSET (S \cap Failing) :
       native' = [o \in Objects |-> IF o \in S \ kept /\ ptr[o] THEN "dead" ELSE native[o]]
  /\ stale' = stale \cup DeadOnes({o \in S : ptr[o]})
  /\ ptr' = [o \in Objects |-> ptr[o] /\ o \notin S]

\* PYLIBSSH2_Sftpfile_dealloc, PYLIBSSH2_Sftpdir_dealloc
HandleDealloc(t) ==
  /\ Last(t) /\ th[t].obj \in Handles
  /\ HandlesDealloc({th[t].obj}, {})
  /\ Set(t, After(th[t]))
  /\ UNCHANGED <<sessVars, home, refVars, freed, nulls>>

\* PYLIBSSH2_Sftp_dealloc: shut down if open; then its two sets are released, and what was left
\* in them without another owner is deallocated.
SftpDeallocOpen(t) ==
  /\ Last(t) /\ th[t].obj \in Sftps /\ ptr[th[t].obj]
  /\ EnterShutdown(t, th[t], th[t].obj)
  /\ UNCHANGED <<sessVars, objVars, refVars, logVars>>

SftpDealloc(t) ==
  /\ Last(t) /\ th[t].obj \in Sftps /\ ~ptr[th[t].obj]
  /\ LET left == Members(th[t].obj, Handles) IN
       /\ reg' = reg \ left
       /\ HandlesDealloc({h \in left : h \notin user /\ \A u \in Threads : h \notin Held(u)}, {th[t].obj})
  /\ Set(t, After(th[t]))
  /\ UNCHANGED <<sessVars, home, user, pinned, freed, nulls>>

(* The user's program gives up a variable. *)
UserDrop(t, o) ==
  /\ Ready(t) /\ o \in user
  /\ user' = user \ {o}
  /\ Set(t, Dropping(Idle, o))
  /\ UNCHANGED <<sessVars, objVars, reg, pinned, logVars>>

UserDropSession(t) ==
  /\ Ready(t) /\ held
  /\ held' = FALSE
  /\ Set(t, InSession("sess", "self"))
  /\ UNCHANGED <<opened, conn, life, objVars, refVars, logVars>>

-----------------------------------------------------------------------------
\* A call of the user's program
Invoke(t) ==
  \/ StartupBegin(t) \/ OpenLocked(t) \/ SessionClose(t) \/ UserDropSession(t)
  \/ \E call \in {"open", "scp", "listen"} : OpenBegin(t, call)
  \/ \E o \in Chans \cup Sftps \cup Handles : UseBegin(t, o)
  \/ \E l \in Listeners : AcceptBegin(t, l) \/ ForwardCancel(t, l)
  \/ \E c \in Chans : ChannelClose(t, c)
  \/ \E s \in Sftps :
       \/ SftpShutdown(t, s)
       \/ \E call \in {"openfile", "opendir"} : OpenHandleBegin(t, s, call)
       \/ \E h \in Handles : CloseHandle(t, s, h)
  \/ \E o \in Objects : UserDrop(t, o)

\* The rest of a call that has begun
Proceed(t) ==
  \/ StartupEnd(t) \/ OpenEnd(t) \/ UseAgain(t) \/ UseEnd(t) \/ AcceptEnd(t) \/ OpenHandleEnd(t)
  \/ ChannelCloseEnd(t) \/ DestroyEnd(t)
  \/ ShutdownPop(t) \/ ShutdownNextLoop(t) \/ ShutdownEnd(t)
  \/ ClosePopSftp(t) \/ ClosePopChannel(t) \/ ClosePopListener(t) \/ CloseNextLoop(t) \/ DisconnectEnd(t)
  \/ Leave(t) \/ FinalPop(t) \/ FinalEnd(t)
  \/ DropShared(t) \/ ChannelDealloc(t) \/ ListenerDealloc(t) \/ HandleDealloc(t)
  \/ SftpDeallocOpen(t) \/ SftpDealloc(t)

Next == \E t \in Threads : Invoke(t) \/ Proceed(t)
Spec == Init /\ [][Next]_vars
\* A native call that was made returns, and a thread that holds the GIL goes on.
FairSpec == Spec /\ \A t \in Threads : WF_vars(Proceed(t))

-----------------------------------------------------------------------------
(* Correctness *)

ThreadState ==
  [pc : {"idle"} \cup Running \cup Windows, obj : Objects \cup {None}, sftp : Sftps \cup {None},
   loop : {"no", "dirs", "files"}, sess : {"no", "self", "final"} \cup Loops, arg : BOOLEAN]

\* What a thread works on, by where it is.
Shape(r) ==
  /\ r.pc = "chclose" => r.obj \in Chans
  /\ r.pc \in {"lcancel", "accept"} => r.obj \in Listeners
  /\ r.pc = "hclose" => r.obj \in Handles
  /\ r.pc \in {"openfile", "opendir"} => r.obj \in Sftps
  /\ r.pc \in {"use", "drop"} => r.obj \in Objects
  /\ r.pc \in {"idle", "sess", "startup", "open", "scp", "listen", "disconnect"} =>
       r.obj = None /\ r.sftp = None /\ r.loop = "no"
  /\ r.pc = "shut" => r.obj = None
  /\ (r.pc = "shut" \/ r.loop # "no") => r.loop # "no" /\ r.sftp \in Sftps
  /\ r.obj \in Sftps => r.sftp = None

ThreadsOK == th \in [Threads -> ThreadState] /\ \A t \in Threads : Shape(th[t])

DataOK ==
  /\ opened \in BOOLEAN /\ conn \in {"new", "up", "down"} /\ held \in BOOLEAN
  /\ life \in {"alive", "dying", "freed", "gone"}
  /\ py \in [Objects -> {"none", "alive", "gone", "leaked"}]
  /\ ptr \in [Objects -> BOOLEAN]
  /\ native \in [Objects -> {"none", "live", "dead"}]
  /\ home \in [Handles -> Sftps \cup {None}]
  /\ reg \subseteq Objects /\ user \subseteq Objects /\ pinned \subseteq Objects
  /\ freed \in [Freeable -> Nat]
  /\ stale \subseteq Objects /\ nulls \subseteq Objects

TypeOK == ThreadsOK /\ DataOK

\* Whatever the threads do, a wrapper gives its channel or SFTP subsystem back to libssh2 at most
\* once: two closes may overlap in the window without the GIL, but the pointer is read again and
\* cleared under it (Channel_close, Sftp_shutdown).
FreedOnce == \A o \in Freeable : freed[o] <= 1

\* A channel, SFTP subsystem or listener is removed from the set of its session before its pointer
\* is cleared. PYLIBSSH2_Channel_hash and PYLIBSSH2_Sftp_hash hash that pointer, so this is what
\* keeps a member of a PySet from changing its hash.
RegisteredOpen == \A o \in reg \cap Children : ptr[o] /\ py[o] = "alive"

\* Sftp_shutdown leaves no file registered, even those opened by other threads while it ran: the
\* test for the last file and the shutdown happen without releasing the GIL.
FilesDrained == \A f \in reg \cap Files : ptr[home[f]]

\* The native session is freed only after a disconnect told the peer, if it was ever connected,
\* and never under a running session method or a running close.
FreedAfterUse ==
  life \in {"freed", "gone"} =>
    conn # "up" /\ \A t \in Threads : th[t].sess \in {"no", "final"}

Quiet == \A t \in Threads : th[t].pc = "idle"

\* When the program has given everything up, however many threads shared it and whichever closes
\* failed, no native object is left, and no wrapper but those scp_recv returned and the closed
\* files and directories, whose memory is never returned.
NothingKept ==
  (Quiet /\ ~held /\ user = {}) =>
    /\ life = "gone" /\ reg = {}
    /\ \A o \in Objects : native[o] # "live" /\ (py[o] = "alive" => o \in pinned)

-----------------------------------------------------------------------------
(* What holds when the calls do not overlap (one thread) *)

\* libssh2 is never called on a dead object, whatever the order in which the program closes,
\* drops and uses things: except through the wrappers the session does not own (channels of
\* Listener.accept) or drops without cancelling them (listeners).
OnlyUnownedStale == stale \subseteq Accepted \cup Listeners

\* libssh2 is given a NULL pointer only by the closers that do not check theirs.
OnlyUncheckedNulls == nulls \subseteq Listeners \cup Handles

\* After Session.close everything the session opened is closed, at every depth; a native object
\* that could not be closed is left to libssh2_session_free, and no wrapper points to it.
ClosedReleasesAll ==
  (Quiet /\ conn = "down") =>
    \A o \in Channels \cup Sftps \cup Handles : ~ptr[o] /\ (native[o] = "live" => o \in Failing)

Promised == (Channels \cup Sftps \cup Handles) \ Failing

Promise == INSTANCE OwnedHandles WITH
  Objs    <- Promised,
  wrapper <- [o \in Promised |-> IF py[o] = "none" THEN "none" ELSE IF ptr[o] THEN "open" ELSE "closed"],
  native  <- [o \in Promised |-> native[o]]

\* Every object the session or an Sftp owns, if libssh2 does close it when asked, lives exactly as
\* long as its wrapper is open, whatever becomes of the closes of the others; in particular neither
\* libssh2_session_free nor libssh2_sftp_shutdown ever ends an object whose wrapper still points
\* to it.
KeepsPromise == Promise!Spec

\* A close or a deallocation of the session comes to its end: each round of the three loops, and
\* of the two loops of each Sftp_shutdown, takes one member out of a set.
CloseEnds == \A t \in Threads : (th[t].sess \in Loops) ~> (th[t].pc = "idle")
=============================================================================
