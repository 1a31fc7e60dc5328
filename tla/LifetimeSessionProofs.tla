------------------------ MODULE LifetimeSessionProofs ------------------------
(* The life of the session, for every set of threads: it is deallocated once,   *)
(* never under one of its methods, and leaves nothing behind. And what holds    *)
(* when one thread makes all calls: an object lives exactly as long as its      *)
(* wrapper is open, so that libssh2 is not called on a dead one.                *)
EXTENDS LifetimeProofs

USE Subsets, Disjoint

-----------------------------------------------------------------------------
(* The life of the session *)

\* The session method a thread is in, by where it is.
InMethod(r) == /\ r.pc = "idle" => r.sess = "no"
               /\ r.pc \in {"startup", "open", "scp", "listen"} => r.sess = "self"
               /\ r.pc = "disconnect" => r.sess = "listeners"

\* What makes FreedAfterUse inductive: once the last reference is given up there is one thread in
\* the session, the one that deallocates it, and no variable to call another method through.
SessInv ==
  /\ opened <=> conn = "up"
  /\ life \in {"freed", "gone"} => conn # "up"
  /\ life # "alive" => ~held
  /\ \A t \in Threads : InMethod(th[t])
  /\ \A t \in Threads :
       /\ th[t].sess = "self" => life = "alive"
       /\ th[t].sess \in Loops => life \in {"alive", "dying"}
       /\ th[t].sess = "final" => life = "freed"
  /\ life # "alive" => \A t, u \in Threads : th[t].sess # "no" /\ th[u].sess # "no" => t = u

LEMMA AfterMethod ==
  ASSUME NEW r
  PROVE  InMethod(After(r)) /\ After(r).sess = r.sess
BY DEF InMethod, After, InShutdown, DroppingSftp, Idle, InSession, Frame

\* The native calls that are not the session's own.
Elsewhere == {"use", "accept", "openfile", "opendir", "chclose", "hclose", "lcancel", "drop"}

LEMMA GivingMethod ==
  ASSUME NEW r, NEW o, NEW p \in Elsewhere, NEW a
  PROVE  InMethod(Giving(r, o, p, a)) /\ Giving(r, o, p, a).sess = r.sess
BY DEF Elsewhere, InMethod, Giving, Frame

LEMMA DroppingMethod ==
  ASSUME NEW r, NEW o
  PROVE  InMethod(Dropping(r, o)) /\ Dropping(r, o).sess = r.sess
<1> DEFINE p == "drop"
<1>1. p \in Elsewhere
  BY DEF Elsewhere
<1> HIDE DEF p
<1>2. \A a : InMethod(Giving(r, o, p, a)) /\ Giving(r, o, p, a).sess = r.sess
  BY <1>1, GivingMethod
<1>3. QED
  BY <1>2 DEF Dropping, p

\* The frame of t becomes one of the session method e.
Becomes(t, e) == \E r : Set(t, r) /\ InMethod(r) /\ r.sess = e

LEMMA SetGiving ==
  ASSUME NEW t, NEW q, NEW o, NEW p \in Elsewhere, NEW a, Set(t, Giving(q, o, p, a))
  PROVE  Becomes(t, q.sess)
BY GivingMethod DEF Becomes

LEMMA SetDropping ==
  ASSUME NEW t, NEW q, NEW o, Set(t, Dropping(q, o))
  PROVE  Becomes(t, q.sess)
BY DroppingMethod DEF Becomes

LEMMA SetAfter ==
  ASSUME NEW t, NEW q, Set(t, After(q))
  PROVE  Becomes(t, q.sess)
BY AfterMethod DEF Becomes

LEMMA SetSession ==
  ASSUME NEW t, NEW p, NEW e, Set(t, InSession(p, e)),
         p = "idle" => e = "no", p \in {"startup", "open", "scp", "listen"} => e = "self",
         p = "disconnect" => e = "listeners"
  PROVE  Becomes(t, e)
<1>1. InMethod(InSession(p, e)) /\ InSession(p, e).sess = e
  BY DEF InMethod, InSession, Frame
<1>2. QED
  BY <1>1 DEF Becomes

LEMMA ChannelCloseMethod ==
  ASSUME NEW t, NEW q, NEW c, EnterChannelClose(t, q, c)
  PROVE  Becomes(t, q.sess)
<1>1. CASE ptr[c]
  <2> DEFINE p == "chclose"
             b == TRUE
  <2>1. Set(t, Giving(q, c, p, b)) /\ p \in Elsewhere
    BY <1>1 DEF EnterChannelClose, Elsewhere
  <2> HIDE DEF p, b
  <2>2. QED
    BY <2>1, SetGiving
<1>2. CASE ~ptr[c]
  BY <1>2, SetDropping DEF EnterChannelClose
<1>3. QED
  BY <1>1, <1>2

LEMMA DestroyMethod ==
  ASSUME NEW t, NEW q, NEW o, EnterDestroy(t, q, o)
  PROVE  Becomes(t, q.sess)
<1> DEFINE p == IF o \in Listeners THEN "lcancel" ELSE "hclose"
<1>1. p \in Elsewhere /\ Set(t, Giving(q, o, p, ptr[o]))
  BY DEF Elsewhere, EnterDestroy
<1> HIDE DEF p
<1>2. QED
  BY <1>1, SetGiving

LEMMA ShutdownMethod ==
  ASSUME NEW t, NEW q, NEW s, NEW l
  PROVE  /\ Set(t, InShutdown(q, s, l)) => Becomes(t, q.sess)
         /\ Set(t, DroppingSftp(q, s)) => Becomes(t, q.sess)
         /\ EnterShutdown(t, q, s) => Becomes(t, q.sess)
<1>1. \A k : InMethod(InShutdown(q, s, k)) /\ InShutdown(q, s, k).sess = q.sess
  BY DEF InMethod, InShutdown, Frame
<1>2. InMethod(DroppingSftp(q, s)) /\ DroppingSftp(q, s).sess = q.sess
  BY DEF InMethod, DroppingSftp, Frame
<1>3. QED
  BY <1>1, <1>2 DEF Becomes, EnterShutdown

LEMMA BecomesFrame ==
  ASSUME TypeOK, NEW t \in Threads, NEW e, Becomes(t, e)
  PROVE  th'[t].sess = e /\ InMethod(th'[t]) /\ \A u \in Threads \ {t} : th'[u] = th[u]
BY DEF Becomes, Set, TypeOK, ThreadsOK

\* A step that leaves the session alone and stays in the method it is in, goes on to
\* the next loop, or leaves it.
LEMMA SessKeep ==
  ASSUME TypeOK, SessInv, NEW t \in Threads, NEW e, Becomes(t, e), UNCHANGED sessVars,
         e \in {th[t].sess, "no"} \/ (e \in Loops /\ th[t].sess \in Loops)
  PROVE  SessInv'
<1>1. th'[t].sess = e /\ InMethod(th'[t]) /\ \A u \in Threads \ {t} : th'[u] = th[u]
  BY BecomesFrame
<1>2. \A u \in Threads : /\ InMethod(th'[u])
                         /\ \/ th'[u].sess \in {th[u].sess, "no"}
                            \/ th'[u].sess \in Loops /\ th[u].sess \in Loops
  BY <1>1 DEF SessInv
<1> HIDE DEF InMethod, Becomes
<1>3. QED
  BY <1>2 DEF SessInv, sessVars, Loops

\* A step that enters a session method through a variable, or moves on in one while the session is
\* not yet deallocated.
LEMMA SessEnter ==
  ASSUME TypeOK, SessInv, NEW t \in Threads, NEW e \in {"no", "self"} \cup Loops, Becomes(t, e),
         UNCHANGED <<opened, conn, life>>, life = "alive"
  PROVE  SessInv'
<1>1. th'[t].sess = e /\ InMethod(th'[t]) /\ \A u \in Threads \ {t} : th'[u] = th[u]
  BY BecomesFrame
<1>2. QED
  BY <1>1 DEF SessInv, Loops

LEMMA SessInvoke ==
  ASSUME TypeOK, SessInv, NEW t \in Threads, Invoke(t)
  PROVE  SessInv'
<1> USE DEF sessVars
<1>r. /\ Ready(t) => th[t].sess = "no"
      /\ held => life = "alive"
  BY DEF Ready, SessInv, InMethod
<1>q. InSession("idle", "self").sess = "self" /\ Idle.sess = "no"
      /\ \A s : Frame("idle", None, s, "no", "no", FALSE).sess = "no"
  BY DEF InSession, Idle, Frame
<1>1. CASE StartupBegin(t)
  <2>1. Becomes(t, "self")
    BY <1>1, SetSession DEF StartupBegin
  <2>2. QED
    BY <1>1, <1>r, <2>1, SessEnter DEF StartupBegin
<1>2. CASE OpenLocked(t)
  BY <1>2 DEF OpenLocked, SessInv
<1>3. CASE SessionClose(t)
  <2> DEFINE e == IF opened THEN "sftps" ELSE "self"
  <2>1. Set(t, InSession("sess", e)) /\ held /\ UNCHANGED sessVars
    BY <1>3 DEF SessionClose
  <2>2. e \in {"no", "self"} \cup Loops
    BY DEF Loops
  <2> HIDE DEF e
  <2>3. Becomes(t, e)
    BY <2>1, SetSession
  <2>4. QED
    BY <1>r, <2>1, <2>2, <2>3, SessEnter
<1>4. CASE UserDropSession(t)
  <2>1. Becomes(t, "self")
    BY <1>4, SetSession DEF UserDropSession
  <2>2. QED
    BY <1>4, <1>r, <2>1, SessEnter DEF UserDropSession
<1>5. ASSUME NEW call \in {"open", "scp", "listen"}, OpenBegin(t, call) PROVE SessInv'
  <2>1. Becomes(t, "self")
    BY <1>5, SetSession DEF OpenBegin
  <2>2. QED
    BY <1>5, <1>r, <2>1, SessEnter DEF OpenBegin
\* A method of another object: no session method below it.
<1>6. ASSUME Becomes(t, "no"), UNCHANGED sessVars PROVE SessInv'
  BY <1>6, SessKeep
<1>7. ASSUME NEW o, NEW p \in Elsewhere, NEW a, Set(t, Giving(Idle, o, p, a)), UNCHANGED sessVars PROVE SessInv'
  BY <1>6, <1>7, <1>q, SetGiving
<1>e. {"use", "accept", "openfile", "opendir"} \subseteq Elsewhere
  BY DEF Elsewhere
<1>8. ASSUME NEW o \in Chans \cup Sftps \cup Handles, UseBegin(t, o) PROVE SessInv'
  BY <1>7, <1>8, <1>e DEF UseBegin
<1>9. ASSUME NEW l \in Listeners, AcceptBegin(t, l) PROVE SessInv'
  BY <1>7, <1>9, <1>e DEF AcceptBegin
<1>10. ASSUME NEW s \in Sftps, NEW call \in {"openfile", "opendir"}, OpenHandleBegin(t, s, call) PROVE SessInv'
  BY <1>7, <1>10, <1>e DEF OpenHandleBegin
<1>11. ASSUME NEW l \in Listeners, ForwardCancel(t, l) PROVE SessInv'
  <2>1. Becomes(t, "self")
    BY <1>11, <1>q, DestroyMethod DEF ForwardCancel
  <2>2. QED
    BY <1>11, <1>r, <2>1, SessEnter DEF ForwardCancel
<1>12. ASSUME NEW c \in Chans, ChannelClose(t, c) PROVE SessInv'
  <2>1. Becomes(t, "self")
    BY <1>12, <1>q, ChannelCloseMethod DEF ChannelClose
  <2>2. QED
    BY <1>12, <1>r, <2>1, SessEnter DEF ChannelClose
<1>13. ASSUME NEW s \in Sftps, SftpShutdown(t, s) PROVE SessInv'
  <2>1. Becomes(t, "self")
    BY <1>13, <1>q, ShutdownMethod DEF SftpShutdown
  <2>2. QED
    BY <1>13, <1>r, <2>1, SessEnter DEF SftpShutdown
<1>14. ASSUME NEW s \in Sftps, NEW h \in Handles, CloseHandle(t, s, h) PROVE SessInv'
  <2>1. Becomes(t, "no")
    BY <1>14, <1>q, DestroyMethod DEF CloseHandle
  <2>2. QED
    BY <1>14, <1>6, <2>1 DEF CloseHandle
<1>15. ASSUME NEW o \in Objects, UserDrop(t, o) PROVE SessInv'
  <2>1. Becomes(t, "no")
    BY <1>15, <1>q, SetDropping DEF UserDrop
  <2>2. QED
    BY <1>15, <1>6, <2>1 DEF UserDrop
<1>16. QED
  BY <1>1, <1>2, <1>3, <1>4, <1>5, <1>8, <1>9, <1>10, <1>11, <1>12, <1>13, <1>14, <1>15 DEF Invoke

\* The steps that go from one method of the session, or one round of its loops, to another.
Moves(t) == StartupEnd(t) \/ CloseNextLoop(t) \/ DisconnectEnd(t) \/ Leave(t) \/ FinalEnd(t)

LEMMA StaysInMethod ==
  ASSUME NEW t \in Threads, Proceed(t), ~Moves(t), ~UseAgain(t)
  PROVE  Becomes(t, th[t].sess) /\ UNCHANGED sessVars
<1>2. CASE OpenEnd(t) \/ DropShared(t) \/ HandleDealloc(t) \/ SftpDealloc(t)
  <2>1. Set(t, After(th[t])) /\ UNCHANGED sessVars
    BY <1>2 DEF OpenEnd, DropShared, HandleDealloc, SftpDealloc
  <2>2. QED
    BY <2>1, SetAfter
<1>3. CASE UseEnd(t) \/ AcceptEnd(t) \/ OpenHandleEnd(t) \/ ChannelCloseEnd(t) \/ DestroyEnd(t)
           \/ ClosePopListener(t) \/ FinalPop(t)
  <2>1. (\E o : Set(t, Dropping(th[t], o))) /\ UNCHANGED sessVars
    BY <1>3 DEF UseEnd, AcceptEnd, OpenHandleEnd, ChannelCloseEnd, DestroyEnd, ClosePopListener, FinalPop
  <2>2. QED
    BY <2>1, SetDropping
<1>4. CASE ShutdownPop(t)
  <2>1. (\E o : EnterDestroy(t, th[t], o)) /\ UNCHANGED sessVars
    BY <1>4 DEF ShutdownPop
  <2>2. QED
    BY <2>1, DestroyMethod
<1>5. CASE ShutdownNextLoop(t) \/ ShutdownEnd(t)
  <2>1. \/ \E s, l : Set(t, InShutdown(th[t], s, l))
        \/ \E s : Set(t, DroppingSftp(th[t], s))
    BY <1>5 DEF ShutdownNextLoop, ShutdownEnd
  <2>2. UNCHANGED sessVars
    BY <1>5 DEF ShutdownNextLoop, ShutdownEnd
  <2>3. QED
    BY <2>1, <2>2, ShutdownMethod
<1>6. CASE ClosePopSftp(t) \/ SftpDeallocOpen(t)
  <2>1. (\E s : EnterShutdown(t, th[t], s)) /\ UNCHANGED sessVars
    BY <1>6 DEF ClosePopSftp, SftpDeallocOpen
  <2>2. QED
    BY <2>1, ShutdownMethod
<1>7. CASE ClosePopChannel(t)
  <2>1. (\E c : EnterChannelClose(t, th[t], c)) /\ UNCHANGED sessVars
    BY <1>7 DEF ClosePopChannel
  <2>2. QED
    BY <2>1, ChannelCloseMethod
<1>8. CASE ChannelDealloc(t)
  <2>1. EnterChannelClose(t, th[t], th[t].obj) \/ Set(t, After(th[t]))
    BY <1>8 DEF ChannelDealloc
  <2>2. UNCHANGED sessVars
    BY <1>8 DEF ChannelDealloc
  <2>3. QED
    BY <2>1, <2>2, ChannelCloseMethod, SetAfter
<1>9. CASE ListenerDealloc(t)
  <2>1. EnterDestroy(t, th[t], th[t].obj) \/ Set(t, After(th[t]))
    BY <1>9 DEF ListenerDealloc
  <2>2. UNCHANGED sessVars
    BY <1>9 DEF ListenerDealloc
  <2>3. QED
    BY <2>1, <2>2, DestroyMethod, SetAfter
<1>10. QED
  BY <1>2, <1>3, <1>4, <1>5, <1>6, <1>7, <1>8, <1>9 DEF Proceed, Moves

LEMMA SessProceed ==
  ASSUME TypeOK, SessInv, NEW t \in Threads, Proceed(t)
  PROVE  SessInv'
<1> USE DEF sessVars
<1> DEFINE e == th[t].sess
<1>k. ASSUME Becomes(t, e), UNCHANGED sessVars PROVE SessInv'
  BY <1>k, SessKeep
\* The call startup: it is a method of a session that is not being deallocated.
<1>1. CASE StartupEnd(t)
  <2>1. Becomes(t, e)
    BY <1>1, SetAfter DEF StartupEnd
  <2>2. e = "self" /\ life = "alive"
    BY <1>1 DEF StartupEnd, In, SessInv, InMethod
  <2>3. CASE UNCHANGED sessVars
    BY <2>1, <2>3, <1>k
  <2>4. CASE ~UNCHANGED sessVars
    <3>1. conn' = "up" /\ opened' = TRUE /\ UNCHANGED <<held, life>>
      BY <1>1, <2>4 DEF StartupEnd
    <3>2. th'[t].sess = e /\ InMethod(th'[t]) /\ \A u \in Threads \ {t} : th'[u] = th[u]
      BY <2>1, BecomesFrame
    <3>3. QED
      BY <2>2, <3>1, <3>2 DEF SessInv, Loops
  <2>5. QED
    BY <2>3, <2>4
<1>2. CASE ~Moves(t) /\ ~UseAgain(t)
  BY <1>2, <1>k, StaysInMethod
<1>8. CASE UseAgain(t)
  BY <1>8 DEF UseAgain, SessInv, InMethod
<1>3. CASE CloseNextLoop(t)
  <2>1. PICK p \in {"sess", "disconnect"}, l \in Loops :
          Set(t, InSession(p, l)) /\ (p = "disconnect" => l = "listeners")
    BY <1>3 DEF CloseNextLoop, Loops
  <2>2. e \in Loops /\ UNCHANGED sessVars
    BY <1>3 DEF CloseNextLoop, InLoop, Loops
  <2>3. Becomes(t, l)
    BY <2>1, SetSession
  <2>4. QED
    BY <2>2, <2>3, SessKeep
<1>4. CASE DisconnectEnd(t)
  <2>1. e \in Loops /\ life \in {"alive", "dying"}
    BY <1>4 DEF DisconnectEnd, In, SessInv, InMethod, Loops
  <2>2. conn' = "down" /\ opened' = FALSE /\ UNCHANGED held
    BY <1>4 DEF DisconnectEnd
  <2>3. CASE life = "dying"
    <3>1. life' = "freed" /\ Becomes(t, "final")
      BY <1>4, <2>3, SetSession DEF DisconnectEnd, SessionFree
    <3>2. th'[t].sess = "final" /\ InMethod(th'[t]) /\ \A u \in Threads \ {t} : th'[u] = th[u]
      BY <3>1, BecomesFrame
    <3>3. ~held /\ \A u \in Threads \ {t} : th[u].sess = "no"
      BY <2>1, <2>3 DEF SessInv, Loops
    <3>4. QED
      BY <2>2, <3>1, <3>2, <3>3 DEF SessInv, Loops
  <2>4. CASE life # "dying"
    <3>1. UNCHANGED life /\ Becomes(t, "self")
      BY <1>4, <2>4, SetSession DEF DisconnectEnd
    <3>2. th'[t].sess = "self" /\ InMethod(th'[t]) /\ \A u \in Threads \ {t} : th'[u] = th[u]
      BY <3>1, BecomesFrame
    <3>3. QED
      BY <2>1, <2>2, <2>4, <3>1, <3>2 DEF SessInv, Loops
  <2>5. QED
    BY <2>3, <2>4
\* The last reference: no variable is left, and no other thread is in a method.
<1>5. CASE Leave(t)
  <2>1. e = "self" /\ life = "alive"
    BY <1>5 DEF Leave, InLoop, SessInv
  <2>2. UNCHANGED <<opened, conn, held>>
    BY <1>5 DEF Leave
  <2>3. CASE SessionOwned(t)
    <3>1. Set(t, InSession("idle", "no")) /\ UNCHANGED life
      BY <1>5, <2>3 DEF Leave, Idle
    <3>2. Becomes(t, "no")
      BY <3>1, SetSession
    <3>3. QED
      BY <2>2, <3>1, <3>2, SessKeep
  <2>4. CASE ~SessionOwned(t)
    <3>1. ~held /\ \A u \in Threads \ {t} : th[u].sess = "no"
      BY <2>4 DEF SessionOwned
    <3>2. CASE opened
      <4>1. life' = "dying" /\ Becomes(t, "sftps")
        BY <1>5, <2>4, <3>2, SetSession DEF Leave
      <4>2. th'[t].sess = "sftps" /\ InMethod(th'[t]) /\ \A u \in Threads \ {t} : th'[u] = th[u]
        BY <4>1, BecomesFrame
      <4>3. QED
        BY <2>2, <3>1, <4>1, <4>2 DEF SessInv, Loops
    <3>3. CASE ~opened
      <4>1. life' = "freed" /\ Becomes(t, "final")
        BY <1>5, <2>4, <3>3, SetSession DEF Leave, SessionFree
      <4>2. th'[t].sess = "final" /\ InMethod(th'[t]) /\ \A u \in Threads \ {t} : th'[u] = th[u]
        BY <4>1, BecomesFrame
      <4>3. QED
        BY <2>2, <3>1, <3>3, <4>1, <4>2 DEF SessInv, Loops
    <3>4. QED
      BY <3>2, <3>3
  <2>5. QED
    BY <2>3, <2>4
<1>6. CASE FinalEnd(t)
  <2>1. Set(t, InSession("idle", "no")) /\ life' = "gone" /\ UNCHANGED <<opened, conn, held>> /\ e = "final"
    BY <1>6 DEF FinalEnd, Idle, InLoop
  <2>2. Becomes(t, "no")
    BY <2>1, SetSession
  <2>3. th'[t].sess = "no" /\ InMethod(th'[t]) /\ \A u \in Threads \ {t} : th'[u] = th[u]
    BY <2>2, BecomesFrame
  <2>4. life = "freed" /\ \A u \in Threads \ {t} : th[u].sess = "no"
    BY <2>1 DEF SessInv
  <2>5. QED
    BY <2>1, <2>3, <2>4 DEF SessInv, Loops
<1>7. QED
  BY <1>1, <1>2, <1>3, <1>4, <1>5, <1>6, <1>8 DEF Moves

LEMMA SessStep ==
  ASSUME TypeOK, SessInv, [Next]_vars
  PROVE  SessInv'
<1>1. CASE UNCHANGED vars
  BY <1>1 DEF vars, sessVars, SessInv, InMethod
<1>2. QED
  BY <1>1, SessInvoke, SessProceed DEF Next

LEMMA SessionLife == Spec => []SessInv
<1>1. Init => SessInv
  <2>1. InMethod(Idle) /\ Idle.sess = "no"
    BY DEF InMethod, Idle, InSession, Frame
  <2>2. QED
    BY <2>1 DEF Init, SessInv, Loops
<1>2. TypeOK /\ SessInv /\ [Next]_vars => SessInv'
  BY SessStep
<1>3. QED
  BY <1>1, <1>2, TypeCorrect, PTL DEF Spec

\* libssh2_session_free comes after the disconnect of a connected session and never while a thread
\* is inside one of the session's methods, however many threads drop and close it.
THEOREM FreedAfterUseCorrect == Spec => []FreedAfterUse
<1>1. TypeOK /\ SessInv => FreedAfterUse
  BY DEF SessInv, FreedAfterUse, TypeOK, ThreadsOK, ThreadState
<1>2. QED
  BY <1>1, SessionLife, TypeCorrect, PTL

-----------------------------------------------------------------------------
(* What is left of a session that is freed *)

\* While the session wrapper is not deallocated it has an owner; the native objects end with the
\* native session, and the children lose the reference of its sets before the wrapper is gone.
EndInv ==
  /\ ~held => life = "gone" \/ \E t \in Threads : th[t].sess # "no"
  /\ life \in {"freed", "gone"} => \A o \in Objects : native[o] # "live"
  /\ life = "gone" => reg \cap Children = {}

\* A step that revives nothing, under frames that stay where they are.
LEMMA EndKeep ==
  ASSUME EndInv, life' = life,
         \A o \in Objects : native'[o] = "live" => native[o] = "live" \/ life \notin {"freed", "gone"},
         reg' \cap Children \subseteq reg \/ life # "gone",
         ~held' => life' = "gone" \/ \E t \in Threads : th'[t].sess # "no"
  PROVE  EndInv'
BY DEF EndInv

LEMMA EndInvoke ==
  ASSUME TypeOK, SessInv, EndInv, NEW t \in Threads, Invoke(t)
  PROVE  EndInv'
<1> USE DEF sessVars, objVars, refVars
<1>1. life' = life
  BY DEF Invoke, StartupBegin, OpenLocked, SessionClose, UserDropSession,
     OpenBegin, UseBegin, AcceptBegin, ForwardCancel, ChannelClose, SftpShutdown, OpenHandleBegin, CloseHandle,
         UserDrop
<1>2. ~held' => life' = "gone" \/ \E u \in Threads : th'[u].sess # "no"
  <2>1. CASE UserDropSession(t)
    <3>1. th'[t].sess = "self"
      BY <2>1, SessionIs, SetTo DEF UserDropSession, Is
    <3>2. QED
      BY <3>1
  <2>2. CASE ~UserDropSession(t)
    <3>1. held' = held
      BY <2>2 DEF Invoke, StartupBegin, OpenLocked, SessionClose,
         OpenBegin, UseBegin, AcceptBegin, ForwardCancel, ChannelClose, SftpShutdown, OpenHandleBegin, CloseHandle,
         UserDrop
    <3>2. CASE ~held
      <4>1. Ready(t) /\ \E r : Set(t, r)
        BY <2>2, <3>2 DEF Invoke, StartupBegin, OpenLocked, SessionClose, OpenBegin, UseBegin, AcceptBegin,
           ForwardCancel, ChannelClose, SftpShutdown, OpenHandleBegin, CloseHandle, UserDrop, EnterDestroy
      <4>2. th[t].sess = "no"
        BY <4>1 DEF Ready, SessInv, InMethod
      <4>3. \A u \in Threads \ {t} : th'[u] = th[u]
        BY <4>1 DEF Set, TypeOK, ThreadsOK
      <4>4. QED
        BY <1>1, <3>2, <4>2, <4>3 DEF EndInv
    <3>3. QED
      BY <3>1, <3>2
  <2>3. QED
    BY <2>1, <2>2
<1>3. CASE OpenLocked(t)
  BY <1>1, <1>2, <1>3, EndKeep DEF OpenLocked, SessInv
<1>4. CASE ~OpenLocked(t)
  <2>1. UNCHANGED native /\ reg' \subseteq reg
    BY <1>4 DEF Invoke, StartupBegin, SessionClose, UserDropSession, OpenBegin, UseBegin, AcceptBegin,
       ForwardCancel, ChannelClose, SftpShutdown, OpenHandleBegin, CloseHandle,
         UserDrop
  <2>2. QED
    BY <1>1, <1>2, <2>1, EndKeep
<1>5. QED
  BY <1>3, <1>4

LEMMA EndProceed ==
  ASSUME TypeOK, SessInv, EndInv, NEW t \in Threads, Proceed(t)
  PROVE  EndInv'
<1> USE DEF sessVars, objVars, refVars
<1> DEFINE f == th[t]
<1>p. native \in [Objects -> {"none", "live", "dead"}]
  BY DEF TypeOK, DataOK
<1>n. ASSUME NEW o \in Objects, New(o) PROVE \A x \in Objects \ {o} : native'[x] = native[x]
  BY <1>n DEF New, TypeOK, DataOK
<1>b. ASSUME NEW e, Becomes(t, e) PROVE th'[t].sess = e /\ \A u \in Threads \ {t} : th'[u] = th[u]
  BY <1>b, BecomesFrame
\* Most steps leave the session alone, and end objects.
<1>1. CASE ~Moves(t)
  <2>1. UNCHANGED sessVars /\ \A u \in Threads : th'[u].sess = th[u].sess
    <3>1. CASE UseAgain(t)
      BY <3>1 DEF UseAgain
    <3>2. CASE ~UseAgain(t)
      BY <1>1, <1>b, <3>2, StaysInMethod
    <3>3. QED
      BY <3>1, <3>2
  <2>k. ASSUME \A o \in Objects : native'[o] = "live" => native[o] = "live" \/ life \notin {"freed", "gone"},
               reg' \cap Children \subseteq reg \/ life # "gone"
        PROVE  EndInv'
    BY <2>1, <2>k, EndKeep DEF EndInv
  <2>2. CASE OpenEnd(t)
    <3>1. f.pc \in {"open", "scp", "listen"}
      BY <2>2 DEF OpenEnd, In
    <3>2. life = "alive"
      BY <3>1 DEF SessInv, InMethod
    <3>3. QED
      BY <3>2, <2>k
  <2>3. CASE AcceptEnd(t) \/ OpenHandleEnd(t)
    <3>1. f.pc \in {"accept", "openfile", "opendir"} /\ f.obj \in Objects
      BY <2>3 DEF AcceptEnd, OpenHandleEnd, In, TypeOK, ThreadsOK, Shape
    <3>2. UNCHANGED <<native, reg>> \/ native[f.obj] = "live"
      BY <2>3 DEF AcceptEnd, OpenHandleEnd
    <3>3. UNCHANGED <<native, reg>> \/ life \notin {"freed", "gone"}
      BY <3>1, <3>2 DEF EndInv
    <3>4. QED
      BY <3>3, <2>k
  <2>4. CASE ~OpenEnd(t) /\ ~AcceptEnd(t) /\ ~OpenHandleEnd(t)
    <3>1. \A o \in Objects : native'[o] = "live" => native[o] = "live"
      <4>1. CASE ChannelCloseEnd(t) \/ DestroyEnd(t)
        BY <4>1, <1>p DEF ChannelCloseEnd, DestroyEnd, Ends
      <4>2. CASE ShutdownEnd(t)
        BY <4>2 DEF ShutdownEnd
      <4>3. CASE HandleDealloc(t) \/ SftpDealloc(t)
        BY <4>3 DEF HandleDealloc, SftpDealloc, HandlesDealloc
      <4>4. CASE ~(ChannelCloseEnd(t) \/ DestroyEnd(t) \/ ShutdownEnd(t) \/ HandleDealloc(t) \/ SftpDealloc(t))
        <5>1. UNCHANGED native
          BY <1>1, <2>4, <4>4 DEF Proceed, Moves, UseAgain, UseEnd, ShutdownPop, ShutdownNextLoop, ClosePopSftp,
             ClosePopChannel, ClosePopListener, FinalPop, DropShared, ChannelDealloc, ListenerDealloc,
             SftpDeallocOpen
        <5>2. QED
          BY <5>1
      <4>5. QED
        BY <4>1, <4>2, <4>3, <4>4
    <3>2. reg' \subseteq reg
      BY <1>1, <2>4 DEF Proceed, Moves, UseAgain, UseEnd, ChannelCloseEnd, DestroyEnd, ShutdownPop, ShutdownNextLoop,
         ShutdownEnd, ClosePopSftp, ClosePopChannel, ClosePopListener, FinalPop, DropShared, ChannelDealloc,
         ListenerDealloc, HandleDealloc, SftpDeallocOpen, SftpDealloc
    <3>3. QED
      BY <3>1, <3>2, <2>k
  <2>5. QED
    BY <2>2, <2>3, <2>4
<1>2. CASE StartupEnd(t) \/ CloseNextLoop(t)
  <2>1. UNCHANGED <<held, life, native, reg>> /\ \E r : Set(t, r) /\ r.sess # "no"
    <3>1. CASE StartupEnd(t)
      <4>1. Set(t, After(f)) /\ f.sess = "self"
        BY <3>1 DEF StartupEnd, In, SessInv, InMethod
      <4>2. QED
        BY <3>1, <4>1, AfterMethod DEF StartupEnd
    <3>2. CASE CloseNextLoop(t)
      BY <3>2 DEF CloseNextLoop, InSession, Frame
    <3>3. QED
      BY <1>2, <3>1, <3>2
  <2>2. th'[t].sess # "no"
    BY <2>1, SetTo
  <2>3. QED
    BY <2>1, <2>2, EndKeep
\* libssh2_session_free.
<1>s. ASSUME SessionFree(t), UNCHANGED <<held, reg>> PROVE EndInv'
  <2>1. th'[t].sess = "final" /\ life' = "freed" /\ \A o \in Objects : native'[o] # "live"
    BY <1>s, SetTo, SessionIs DEF SessionFree, Is
  <2>2. QED
    BY <2>1 DEF EndInv
<1>3. CASE DisconnectEnd(t)
  <2>1. CASE SessionFree(t)
    BY <1>3, <2>1, <1>s DEF DisconnectEnd
  <2>2. CASE ~SessionFree(t)
    <3>1. UNCHANGED <<held, life, native, reg>> /\ Set(t, InSession("sess", "self"))
      BY <1>3, <2>2 DEF DisconnectEnd
    <3>2. th'[t].sess = "self"
      BY <3>1, SetTo, SessionIs DEF Is
    <3>3. QED
      BY <3>1, <3>2, EndKeep
  <2>3. QED
    BY <2>1, <2>2
<1>4. CASE Leave(t)
  <2>1. UNCHANGED <<held, reg>> /\ life = "alive"
    BY <1>4 DEF Leave, InLoop, SessInv
  <2>2. CASE SessionOwned(t)
    <3>1. UNCHANGED <<life, native>> /\ \E r : Set(t, r)
      BY <1>4, <2>2 DEF Leave
    <3>2. \A u \in Threads \ {t} : th'[u] = th[u]
      BY <3>1 DEF Set, TypeOK, ThreadsOK
    <3>3. QED
      BY <2>1, <2>2, <3>1, <3>2, EndKeep DEF SessionOwned
  <2>3. CASE ~SessionOwned(t) /\ opened
    <3>1. life' = "dying" /\ UNCHANGED native /\ Set(t, InSession("sess", "sftps"))
      BY <1>4, <2>3 DEF Leave
    <3>2. th'[t].sess = "sftps"
      BY <3>1, SetTo, SessionIs DEF Is
    <3>3. QED
      BY <3>1, <3>2 DEF EndInv
  <2>4. CASE ~SessionOwned(t) /\ ~opened
    BY <1>4, <2>1, <2>4, <1>s DEF Leave
  <2>5. QED
    BY <2>2, <2>3, <2>4
<1>5. CASE FinalEnd(t)
  <2>1. life = "freed" /\ life' = "gone" /\ reg \cap Children = {} /\ UNCHANGED <<held, native, reg>>
    BY <1>5 DEF FinalEnd, InLoop, SessInv
  <2>2. QED
    BY <2>1 DEF EndInv
<1>6. QED
  BY <1>1, <1>2, <1>3, <1>4, <1>5 DEF Moves

LEMMA EndStep ==
  ASSUME TypeOK, SessInv, EndInv, [Next]_vars
  PROVE  EndInv'
<1>1. CASE UNCHANGED vars
  BY <1>1 DEF vars, sessVars, objVars, refVars, EndInv
<1>2. QED
  BY <1>1, EndInvoke, EndProceed DEF Next

\* Once the program has given up its last variable and every call has returned, however many
\* threads shared the session: the session is freed, every native object with it, and no wrapper is
\* left but those of scp_recv (pinned) and the closed handles (leaked).
THEOREM NothingKeptCorrect == Spec => []NothingKept
<1>1. Init => EndInv
  BY DEF Init, EndInv
<1>2. TypeOK /\ SessInv /\ EndInv /\ [Next]_vars => EndInv'
  BY EndStep
<1>3. TypeOK /\ SessInv /\ AliveInv /\ EndInv /\ OwnedInv => NothingKept
  <2> SUFFICES ASSUME TypeOK, SessInv, AliveInv, EndInv, OwnedInv, Quiet, ~held, user = {}
               PROVE  /\ life = "gone" /\ reg = {}
                      /\ \A o \in Objects : native[o] # "live" /\ (py[o] = "alive" => o \in pinned)
    BY DEF NothingKept
  <2>1. \A t \in Threads : th[t].sess = "no" /\ \A o \in Objects : o \notin Held(t)
    BY DEF Quiet, SessInv, InMethod, TypeOK, ThreadsOK, Shape, Held
  <2>2. life = "gone"
    BY <2>1 DEF EndInv
  <2>3. (\A o \in Objects : native[o] # "live") /\ reg \cap Children = {}
    BY <2>2 DEF EndInv
  <2>4. \A o \in Objects : py[o] = "alive" => o \in reg \cup pinned
    BY <2>1 DEF OwnedInv, Refs
  <2>5. \A s \in Sftps : py[s] # "alive"
    BY <2>3, <2>4, Kinds DEF AliveInv, Children, Chans
  <2>6. reg = {}
    BY <2>3, <2>5 DEF OwnedInv
  <2>7. QED
    BY <2>2, <2>3, <2>4, <2>6
<1>4. QED
  BY <1>1, <1>2, <1>3, SessionLife, OwnedAlive, EveryWrapperOwned, TypeCorrect, PTL DEF Spec

-----------------------------------------------------------------------------
(* One thread *)

\* The calls of the program do not overlap.
OneThread == \E t : Threads = {t}

\* What a set of the session or of a subsystem keeps.
Kept == Channels \cup Sftps \cup Handles

\* The wrapper a frame works on is open, and so is the connection it opens something on.
OpenFrame(r) ==
  /\ r.pc \in {"use", "openfile", "opendir", "chclose"} => ptr[r.obj]
  /\ r.pc = "hclose" => r.arg = ptr[r.obj]
  /\ r.loop # "no" => ptr[r.sftp]
  /\ r.pc \in {"open", "scp", "listen", "openfile", "opendir"} => conn = "up"

\* A frame is closing o.
Closing(r, o) == (r.pc \in {"chclose", "hclose"} /\ r.obj = o) \/ (r.loop # "no" /\ r.sftp = o)

\* An open wrapper is in a set, or being closed; and its parent is open.
Reached(r) ==
  /\ \A o \in Kept : ptr[o] => o \in reg \/ Closing(r, o)
  /\ \A h \in Handles : ptr[h] => home[h] \in Sftps /\ ptr[home[h]]
  /\ r.loop = "files" => \A d \in reg \cap Dirs : home[d] # r.sftp

\* What the loops of Session_close leave behind them.
Drained(r) ==
  /\ conn # "up" => reg \cap Children = {} /\ \A o \in Kept : ~ptr[o]
  /\ r.sess \in {"channels", "listeners"} => reg \cap Sftps = {}
  /\ r.sess = "listeners" => reg \cap Channels = {}
  /\ r.pc = "disconnect" => reg \cap Children = {}

ReachInv == \A t \in Threads : OpenFrame(th[t]) /\ Reached(th[t]) /\ Drained(th[t])

LEMMA ReachBy ==
  ASSUME OneThread, NEW t \in Threads, OpenFrame(th[t])', Reached(th[t])', Drained(th[t])'
  PROVE  ReachInv'
<1>1. \A u \in Threads : u = t
  BY DEF OneThread
<1>2. QED
  BY <1>1 DEF ReachInv

\* A step that opens and closes nothing, takes things out of the sets, and leaves a frame that goes
\* on with what the old one was closing.
LEMMA ReachKeep ==
  ASSUME OneThread, TypeOK, ReachInv, NEW t \in Threads, UNCHANGED <<ptr, home, conn>>, reg' \subseteq reg,
         OpenFrame(th[t])', th[t].pc \notin {"chclose", "hclose"},
         th[t].loop # "no" => th'[t].loop = th[t].loop /\ th'[t].sftp = th[t].sftp,
         th[t].loop = "no" => th'[t].loop \in {"no", "dirs"},
         \A o \in Kept : (o \in reg /\ o \notin reg' /\ ptr[o]) => Closing(th'[t], o),
         th'[t].sess \in {th[t].sess, "no", "self", "sftps", "final"}, th'[t].pc # "disconnect"
  PROVE  ReachInv'
<1>0. OpenFrame(th[t]) /\ Reached(th[t]) /\ Drained(th[t])
  BY DEF ReachInv
<1>1. Reached(th[t])'
  BY <1>0 DEF Reached, Closing
<1>2. Drained(th[t])'
  BY <1>0 DEF Drained
<1>3. QED
  BY <1>1, <1>2, ReachBy

LEMMA ReachInvoke ==
  ASSUME OneThread, TypeOK, SessInv, ReachInv, NEW t \in Threads, Invoke(t)
  PROVE  ReachInv'
<1> USE DEF sessVars, objVars, refVars, logVars
<1> DEFINE f == th[t]
           g == th'[t]
<1>r. Ready(t) => Is(f, "idle", None, None, "no", "no")
  BY DEF Ready, TypeOK, ThreadsOK, Shape, SessInv, InMethod, Is
<1>i. Idle.sftp = None /\ Idle.loop = "no" /\ Idle.sess = "no"
  BY IdleIs DEF Is
<1> HIDE DEF f, g
\* A call that begins with the frame g, from an idle thread.
<1>k. ASSUME Ready(t), UNCHANGED <<ptr, home, conn>>, reg' \subseteq reg, OpenFrame(th[t])',
             g.loop \in {"no", "dirs"}, g.sess \in {"no", "self", "sftps"}, g.pc # "disconnect",
             \A o \in Kept : (o \in reg /\ o \notin reg' /\ ptr[o]) => Closing(g, o)
      PROVE  ReachInv'
  BY <1>k, <1>r, ReachKeep DEF Is, f, g
<1>1. CASE StartupBegin(t) \/ SessionClose(t) \/ UserDropSession(t)
  <2>1. PICK p \in {"startup", "sess"}, e \in {"self", "sftps"} : Set(t, InSession(p, e))
    BY <1>1 DEF StartupBegin, SessionClose, UserDropSession
  <2>2. Is(g, p, None, None, "no", e)
    BY <2>1, SessionIs, SetTo DEF g
  <2>3. OpenFrame(th[t])'
    BY <2>2 DEF OpenFrame, Is, g
  <2>4. Ready(t) /\ UNCHANGED <<ptr, home, conn, reg>>
    BY <1>1 DEF StartupBegin, SessionClose, UserDropSession
  <2>5. QED
    BY <1>k, <2>2, <2>3, <2>4 DEF Is
<1>2. ASSUME NEW call \in {"open", "scp", "listen"}, OpenBegin(t, call) PROVE ReachInv'
  <2>1. Set(t, InSession(call, "self")) /\ Ready(t) /\ UNCHANGED <<ptr, home, conn, reg>> /\ conn = "up"
    BY <1>2 DEF OpenBegin
  <2>2. Is(g, call, None, None, "no", "self")
    BY <2>1, SessionIs, SetTo DEF g
  <2>3. OpenFrame(th[t])'
    BY <2>1, <2>2 DEF OpenFrame, Is, g
  <2>5. QED
    BY <1>k, <2>1, <2>2, <2>3 DEF Is
<1>3. ASSUME NEW o \in Objects, NEW p \in {"use", "accept", "openfile", "opendir", "drop"}, NEW a,
             Set(t, Giving(Idle, o, p, a)), Ready(t), UNCHANGED <<ptr, home, conn, reg>>,
             p \in {"use", "openfile", "opendir"} => ptr[o], p \in {"openfile", "opendir"} => conn = "up"
      PROVE  ReachInv'
  <2>1. Is(g, p, o, None, "no", "no")
    BY <1>3, <1>i, GivingIs, SetTo DEF g
  <2>2. OpenFrame(th[t])'
    BY <1>3, <2>1 DEF OpenFrame, Is, g
  <2>3. QED
    BY <1>k, <1>3, <2>1, <2>2 DEF Is
<1>4. ASSUME NEW o \in Chans \cup Sftps \cup Handles, UseBegin(t, o) PROVE ReachInv'
  BY <1>3, <1>4 DEF UseBegin
<1>5. ASSUME NEW l \in Listeners, AcceptBegin(t, l) PROVE ReachInv'
  BY <1>3, <1>5 DEF AcceptBegin
<1>6. ASSUME NEW s \in Sftps, NEW call \in {"openfile", "opendir"}, OpenHandleBegin(t, s, call) PROVE ReachInv'
  BY <1>3, <1>6 DEF OpenHandleBegin
<1>7. ASSUME NEW o \in Objects, UserDrop(t, o) PROVE ReachInv'
  BY <1>3, <1>7 DEF UserDrop, Dropping
<1>8. ASSUME NEW l \in Listeners, ForwardCancel(t, l) PROVE ReachInv'
  <2> DEFINE q == InSession("idle", "self")
  <2>1. EnterDestroy(t, q, l) /\ reg' = reg \ {l} /\ UNCHANGED <<ptr, home, conn>> /\ Ready(t)
    BY <1>8 DEF ForwardCancel
  <2>2. q.sftp = None /\ q.loop = "no" /\ q.sess = "self"
    BY SessionIs DEF Is
  <2> HIDE DEF q
  <2>3. Is(g, "lcancel", l, None, "no", "self")
    BY <2>1, <2>2, DestroyIs DEF g
  <2>4. OpenFrame(th[t])'
    BY <2>3 DEF OpenFrame, Is, g
  <2>5. l \notin Kept
    BY DEF Kept
  <2>6. QED
    BY <1>k, <2>1, <2>3, <2>4, <2>5 DEF Is
<1>9. ASSUME NEW c \in Chans, ChannelClose(t, c) PROVE ReachInv'
  <2> DEFINE q == InSession("idle", "self")
  <2>1. EnterChannelClose(t, q, c) /\ reg' = reg \ {c} /\ UNCHANGED <<ptr, home, conn>> /\ Ready(t)
    BY <1>9 DEF ChannelClose
  <2>2. q.sftp = None /\ q.loop = "no" /\ q.sess = "self"
    BY SessionIs DEF Is
  <2> HIDE DEF q
  <2>3. Is(g, IF ptr[c] THEN "chclose" ELSE "drop", c, None, "no", "self")
    BY <2>1, <2>2, ChannelCloseIs DEF g
  <2>4. OpenFrame(th[t])'
    BY <2>1, <2>3 DEF OpenFrame, Is, g
  <2>5. \A o \in Kept : (o \in reg /\ o \notin reg' /\ ptr[o]) => Closing(g, o)
    BY <2>1, <2>3 DEF Closing, Is
  <2>6. QED
    BY <1>k, <2>1, <2>3, <2>4, <2>5 DEF Is
<1>10. ASSUME NEW s \in Sftps, SftpShutdown(t, s) PROVE ReachInv'
  <2> DEFINE q == InSession("idle", "self")
  <2>1. EnterShutdown(t, q, s) /\ reg' = reg \ {s} /\ UNCHANGED <<ptr, home, conn>> /\ Ready(t)
    BY <1>10 DEF SftpShutdown
  <2>2. q.sess = "self"
    BY SessionIs DEF Is
  <2> HIDE DEF q
  <2>3. IF ptr[s] THEN Is(g, "shut", None, s, "dirs", "self") ELSE Is(g, "drop", s, None, "no", "self")
    BY <2>1, <2>2, EnterShutdownIs DEF g
  <2>4. OpenFrame(th[t])'
    BY <2>1, <2>3 DEF OpenFrame, Is, g
  <2>5. \A o \in Kept : (o \in reg /\ o \notin reg' /\ ptr[o]) => Closing(g, o)
    BY <2>1, <2>3 DEF Closing, Is
  <2>6. QED
    BY <1>k, <2>1, <2>3, <2>4, <2>5 DEF Is
<1>11. ASSUME NEW s \in Sftps, NEW h \in Handles, CloseHandle(t, s, h) PROVE ReachInv'
  <2> DEFINE q == Frame("idle", None, s, "no", "no", FALSE)
  <2>1. EnterDestroy(t, q, h) /\ reg' \subseteq reg /\ reg \ {h} \subseteq reg'
        /\ UNCHANGED <<ptr, home, conn>> /\ Ready(t)
    BY <1>11 DEF CloseHandle
  <2>2. q.sftp = s /\ q.loop = "no" /\ q.sess = "no"
    BY DEF Frame
  <2> HIDE DEF q
  <2>3. Is(g, "hclose", h, s, "no", "no") /\ g.arg = ptr[h]
    BY <2>1, <2>2, DestroyIs DEF g
  <2>4. OpenFrame(th[t])'
    BY <2>1, <2>3 DEF OpenFrame, Is, g
  <2>5. \A o \in Kept : (o \in reg /\ o \notin reg' /\ ptr[o]) => Closing(g, o)
    BY <2>1, <2>3 DEF Closing, Is
  <2>6. QED
    BY <1>k, <2>1, <2>3, <2>4, <2>5 DEF Is
<1>12. CASE OpenLocked(t)
  <2>1. PICK x \in Channels \cup Sftps : New(x) /\ reg' = reg \cup {x}
    BY <1>12 DEF OpenLocked
  <2>2. Is(g, "idle", None, None, "no", "no") /\ f = g /\ UNCHANGED <<home, conn>> /\ conn = "up"
    BY <1>12, <1>r DEF OpenLocked, f, g
  <2>3. ptr' = [ptr EXCEPT ![x] = TRUE] /\ ptr \in [Objects -> BOOLEAN]
    BY <2>1 DEF New, TypeOK, DataOK
  <2>4. OpenFrame(th[t])'
    BY <2>2 DEF OpenFrame, Is, g
  <2>5. Reached(th[t])'
    BY <2>1, <2>2, <2>3 DEF Reached, Closing, Is, f, g, ReachInv, Kept
  <2>6. Drained(th[t])'
    BY <2>2 DEF Drained, Is, g
  <2>7. QED
    BY <2>4, <2>5, <2>6, ReachBy
<1>13. QED
  BY <1>1, <1>2, <1>4, <1>5, <1>6, <1>7, <1>8, <1>9, <1>10, <1>11, <1>12 DEF Invoke
\* A step that opens x, or clears pointers of wrappers that are closed and handles, or neither: the
\* frame goes on with what it was closing.
LEMMA ReachProceed ==
  ASSUME OneThread, TypeOK, SessInv, ReachInv, NEW t \in Threads, Proceed(t)
  PROVE  ReachInv'
<1> USE DEF sessVars, objVars, refVars, logVars
<1> DEFINE f == th[t]
           g == th'[t]
           o == th[t].obj
           s == th[t].sftp
           Alike == g.loop = f.loop /\ g.sftp = s /\ g.sess = f.sess
<1>f. OpenFrame(f) /\ Reached(f) /\ Drained(f) /\ InMethod(f) /\ Shape(f) /\ f \in ThreadState
  BY DEF ReachInv, SessInv, TypeOK, ThreadsOK
<1>p. ptr \in [Objects -> BOOLEAN] /\ home \in [Handles -> Sftps \cup {None}]
  BY DEF TypeOK, DataOK
<1>w. OpenFrame(th[t])' /\ Reached(th[t])' /\ Drained(th[t])' => ReachInv'
  BY ReachBy
<1>a. ASSUME Set(t, After(f))
      PROVE  /\ g.pc \in {"shut", "drop", "sess", "idle"} /\ g.loop \in {f.loop, "no"}
             /\ f.loop # "no" => Is(g, "shut", None, s, f.loop, f.sess)
             /\ s = None => g.loop = "no" /\ g.sftp = None
             /\ g.sess = f.sess
             /\ f.pc \in {"open", "scp", "listen", "startup"} => Is(g, "sess", None, None, "no", "self")
  BY <1>a, <1>f, AfterIs, SetTo, Disjoint DEF Is, Shape, InMethod
<1>d. ASSUME NEW x, Set(t, Dropping(f, x))
      PROVE  Is(g, "drop", x, s, f.loop, f.sess)
  BY <1>d, DroppingIs, SetTo
<1>c. ASSUME NEW x, EnterChannelClose(t, f, x)
      PROVE  Is(g, IF ptr[x] THEN "chclose" ELSE "drop", x, s, f.loop, f.sess)
  BY <1>c, ChannelCloseIs
<1>e. ASSUME NEW x, EnterDestroy(t, f, x)
      PROVE  Is(g, IF x \in Listeners THEN "lcancel" ELSE "hclose", x, s, f.loop, f.sess) /\ g.arg = ptr[x]
  BY <1>e, DestroyIs
<1>x. f.sess # "no" => f.sess \in {"self", "final"} \cup Loops
  BY <1>f DEF ThreadState
\* A frame that goes on.
<1>k. ASSUME UNCHANGED <<ptr, home, conn>>, reg' \subseteq reg, OpenFrame(th[t])', f.pc \notin {"chclose", "hclose"},
             f.loop # "no" => g.loop = f.loop /\ g.sftp = s, f.loop = "no" => g.loop \in {"no", "dirs"},
             g.sess \in {f.sess, "no", "self", "sftps", "final"}, g.pc # "disconnect",
             \A x \in Kept : (x \in reg /\ x \notin reg' /\ ptr[x]) => Closing(g, x)
      PROVE  ReachInv'
  BY <1>k, ReachKeep DEF f, g
<1>1. CASE StartupEnd(t)
  <2>1. Set(t, After(f)) /\ f.pc = "startup" /\ UNCHANGED <<ptr, home, reg>> /\ conn' \in {conn, "up"}
    BY <1>1 DEF StartupEnd, In, f
  <2>2. Is(g, "sess", None, None, "no", "self")
    BY <2>1, <1>a
  <2>3. f.loop = "no"
    BY <2>1, <1>f DEF Shape
  <2>4. OpenFrame(th[t])' /\ Drained(th[t])'
    BY <2>1, <2>2, <1>f DEF OpenFrame, Drained, Is
  <2>5. Reached(th[t])'
    BY <2>1, <2>2, <2>3, <1>f DEF Reached, Closing, Is
  <2>6. QED
    BY <2>4, <2>5, <1>w
<1>2. CASE OpenEnd(t)
  <2>1. Set(t, After(f)) /\ f.pc \in {"open", "scp", "listen"} /\ UNCHANGED conn
    BY <1>2 DEF OpenEnd, In, f
  <2>2. Is(g, "sess", None, None, "no", "self") /\ conn = "up" /\ f.loop = "no"
    BY <2>1, <1>a, <1>f DEF OpenFrame, Shape
  <2>3. OpenFrame(th[t])'
    BY <2>2 DEF OpenFrame, Is
  <2>4. CASE UNCHANGED <<objVars, refVars>>
    BY <2>1, <2>2, <2>3, <2>4, <1>k DEF Is
  <2>5. CASE ~UNCHANGED <<objVars, refVars>>
    <3>1. PICK x \in Channels \cup Listeners : New(x) /\ reg' = reg \cup {x} /\ UNCHANGED home
      BY <1>2, <2>5 DEF OpenEnd
    <3>2. ptr' = [ptr EXCEPT ![x] = TRUE] /\ x \notin Handles
      BY <3>1 DEF New
    <3>3. Reached(th[t])'
      BY <2>1, <2>2, <3>1, <3>2, <1>f, <1>p DEF Reached, Closing, Is, Kept
    <3>4. Drained(th[t])'
      BY <2>1, <2>2 DEF Drained, Is
    <3>5. QED
      BY <2>3, <3>3, <3>4, <1>w
  <2>6. QED
    BY <2>4, <2>5
<1>3. CASE UseEnd(t)
  <2>1. Is(g, "drop", o, s, f.loop, f.sess) /\ f.pc = "use" /\ UNCHANGED <<ptr, home, conn, reg>>
    BY <1>3, <1>d DEF UseEnd, In, f
  <2>2. OpenFrame(th[t])'
    BY <2>1, <1>f DEF OpenFrame, Is, f
  <2>3. f.loop \in {"no", "dirs", "files"}
    BY <1>f DEF ThreadState
  <2>4. OpenFrame(th[t])' /\ Drained(th[t])'
    BY <2>1, <2>2, <1>f DEF Drained, Is
  <2>5. Reached(th[t])'
    BY <2>1, <1>f DEF Reached, Closing, Is, f
  <2>6. QED
    BY <2>4, <2>5, <1>w
<1>4. CASE AcceptEnd(t)
  <2>1. Is(g, "drop", o, s, f.loop, f.sess) /\ f.pc = "accept" /\ UNCHANGED conn
    BY <1>4, <1>d DEF AcceptEnd, In, f
  <2>2. UNCHANGED <<reg, home>> /\ (UNCHANGED ptr \/ \E x \in Accepted : ptr' = [ptr EXCEPT ![x] = TRUE])
    BY <1>4 DEF AcceptEnd, New
  <2>3. \A x \in Kept : x \notin Accepted
    BY Kinds DEF Kept, Chans
  <2>4. /\ \A x \in Kept : ptr'[x] = ptr[x]
        /\ Sftps \subseteq Kept /\ Handles \subseteq Kept
    BY <2>2, <2>3, <1>p DEF Kept
  <2>5. f.loop # "no" => s \in Sftps
    BY <1>f DEF Shape, f
  <2>6. OpenFrame(th[t])'
    BY <2>1, <2>4, <2>5, <1>f DEF OpenFrame, Is, f
  <2>7. Drained(th[t])'
    BY <2>1, <2>2, <2>4, <1>f DEF Drained, Is
  <2>8. Reached(th[t])'
    BY <2>1, <2>2, <2>4, <1>f DEF Reached, Closing, Is, f
  <2>9. QED
    BY <2>6, <2>7, <2>8, <1>w
<1>5. CASE OpenHandleEnd(t)
  <2>1. Is(g, "drop", o, s, f.loop, f.sess) /\ f.pc \in {"openfile", "opendir"} /\ UNCHANGED conn
    BY <1>5, <1>d DEF OpenHandleEnd, In, f
  <2>2. o \in Sftps /\ s = None /\ f.loop = "no" /\ conn = "up"
    BY <2>1, <1>f, Disjoint DEF Shape, OpenFrame, f
  <2>3. OpenFrame(th[t])'
    BY <2>1, <2>2 DEF OpenFrame, Is
  <2>4. CASE UNCHANGED <<objVars, refVars>>
    BY <2>1, <2>2, <2>3, <2>4, <1>k DEF Is
  <2>5. CASE ~UNCHANGED <<objVars, refVars>>
    <3>1. PICK h \in Handles : New(h) /\ home' = [home EXCEPT ![h] = o] /\ reg' = reg \cup {h} /\ ptr[o]
      BY <1>5, <2>5 DEF OpenHandleEnd
    <3>2. ptr' = [ptr EXCEPT ![h] = TRUE] /\ o # h
      BY <3>1, <2>2 DEF New
    <3>3. /\ \A x \in Objects \ {h} : ptr'[x] = ptr[x]
          /\ \A x \in Handles \ {h} : home'[x] = home[x]
          /\ home'[h] = o /\ ptr'[o]
      BY <3>1, <3>2, <2>2, <1>p
    <3>4. \A x \in Handles : ptr'[x] => home'[x] \in Sftps /\ ptr'[home'[x]]
      <4>1. \A x \in Sftps : ptr'[x] = ptr[x]
        BY <3>1, <3>3
      <4>2. QED
        BY <2>2, <3>3, <4>1, <1>f DEF Reached
    <3>5. \A x \in Kept : ptr'[x] => x \in reg'
      <4>1. \A x \in Kept : ptr[x] => x \in reg
        BY <2>1, <2>2, <1>f DEF Reached, Closing
      <4>2. QED
        BY <3>1, <3>3, <4>1 DEF Kept
    <3>6. Reached(th[t])'
      BY <2>1, <2>2, <3>4, <3>5 DEF Reached, Is
    <3>7. h \notin Children
      BY <3>1 DEF Children
    <3>8. Drained(th[t])'
      BY <2>1, <2>2, <3>1, <3>7, <1>f DEF Drained, Is, Children
    <3>9. QED
      BY <2>3, <3>6, <3>8, <1>w
  <2>6. QED
    BY <2>4, <2>5
\* What is closed by one native call: its frame keeps what else it was closing.
<1>z. ASSUME f.pc \in {"chclose", "hclose", "lcancel"}, o \in Objects \ Sftps, Is(g, "drop", o, s, f.loop, f.sess),
             \A x \in Objects \ {o} : ptr'[x] = ptr[x], ptr'[o] = FALSE, UNCHANGED <<home, conn, reg>>
      PROVE  ReachInv'
  <2>1. f.loop # "no" => s \in Sftps /\ s \in Objects \ {o} /\ ptr'[s] = ptr[s]
    BY <1>z, <1>f DEF Shape, f
  <2>2. \A x \in Objects : ptr'[x] => ptr[x] /\ x # o
    BY <1>z
  <2>3. OpenFrame(th[t])'
    BY <1>z, <2>1, <1>f DEF OpenFrame, Is, f
  <2>4. Drained(th[t])'
    BY <1>z, <2>2, <1>f DEF Drained, Is, Kept
  <2>5. \A x \in Kept : ptr'[x] => x \in reg' \/ Closing(g, x)
    BY <1>z, <2>2, <1>f DEF Reached, Closing, Is, Kept, f
  <2>6. \A h \in Handles : ptr'[h] => home'[h] \in Sftps /\ ptr'[home'[h]]
    BY <1>z, <2>2, <1>f DEF Reached
  <2>7. Reached(th[t])'
    BY <1>z, <2>5, <2>6, <1>f DEF Reached, Is, f
  <2>8. QED
    BY <2>3, <2>4, <2>7, <1>w
<1>6. CASE ChannelCloseEnd(t)
  <2>1. Is(g, "drop", o, s, f.loop, f.sess) /\ f.pc = "chclose" /\ UNCHANGED <<home, conn, reg>>
    BY <1>6, <1>d DEF ChannelCloseEnd, In, f
  <2>2. o \in Chans /\ ptr[o]
    BY <2>1, <1>f DEF Shape, OpenFrame, f
  <2>3. ptr' = [ptr EXCEPT ![o] = FALSE]
    BY <1>6, <2>2 DEF ChannelCloseEnd
  <2>4. (\A x \in Objects \ {o} : ptr'[x] = ptr[x]) /\ ptr'[o] = FALSE
    BY <2>2, <2>3, <1>p
  <2>5. o \in Objects \ Sftps
    BY <2>2
  <2>6. QED
    BY <2>1, <2>4, <2>5, <1>z
<1>7. CASE DestroyEnd(t)
  <2>1. Is(g, "drop", o, s, f.loop, f.sess) /\ f.pc \in {"lcancel", "hclose"} /\ UNCHANGED <<home, conn, reg>>
    BY <1>7, <1>d DEF DestroyEnd, In, f
  <2>2. o \in Listeners \cup Handles
    BY <2>1, <1>f DEF Shape, f
  <2>3. ptr' = [ptr EXCEPT ![o] = FALSE]
    BY <1>7 DEF DestroyEnd
  <2>4. (\A x \in Objects \ {o} : ptr'[x] = ptr[x]) /\ ptr'[o] = FALSE
    BY <2>2, <2>3, <1>p
  <2>5. o \in Objects \ Sftps
    BY <2>2
  <2>6. QED
    BY <2>1, <2>4, <2>5, <1>z
<1>8. CASE ShutdownPop(t)
  <2>1. PICK h \in Members(s, Serves(f.loop)) : reg' = reg \ {h} /\ EnterDestroy(t, f, h)
    BY <1>8 DEF ShutdownPop, f
  <2>2. h \in Handles
    BY <2>1 DEF Members, Serves
  <2>3. Is(g, "hclose", h, s, f.loop, f.sess) /\ g.arg = ptr[h]
    BY <2>1, <2>2, <1>e
  <2>4. f.pc = "shut" /\ UNCHANGED <<ptr, home, conn>>
    BY <1>8 DEF ShutdownPop, In, f
  <2>5. OpenFrame(th[t])'
    BY <2>3, <2>4, <1>f DEF OpenFrame, Is, f
  <2>6. \A x \in Kept : (x \in reg /\ x \notin reg' /\ ptr[x]) => Closing(g, x)
    BY <2>1, <2>3 DEF Closing, Is
  <2>7. QED
    BY <2>1, <2>3, <2>4, <2>5, <2>6, <1>k DEF Is
<1>9. CASE ShutdownNextLoop(t)
  <2>1. f.pc = "shut" /\ Members(s, Serves("dirs")) = {} /\ Set(t, InShutdown(f, s, "files"))
        /\ UNCHANGED <<ptr, home, conn, reg>>
    BY <1>9 DEF ShutdownNextLoop, In, f
  <2>2. Is(g, "shut", None, s, "files", f.sess)
    BY <2>1, ShutdownIs, SetTo DEF g
  <2>3. \A d \in reg \cap Dirs : home[d] # s
    BY <2>1 DEF Members, Serves
  <2>4. f.loop # "no"
    BY <2>1, <1>f DEF Shape
  <2>5. OpenFrame(th[t])'
    BY <2>1, <2>2, <2>4, <1>f DEF OpenFrame, Is, f
  <2>6. Reached(th[t])'
    BY <2>1, <2>2, <2>3, <2>4, <1>f DEF Reached, Closing, Is, f
  <2>7. Drained(th[t])'
    BY <2>1, <2>2, <1>f DEF Drained, Is
  <2>8. QED
    BY <2>5, <2>6, <2>7, <1>w
\* Both sets are done: no handle that is open belongs to the subsystem.
<1>10. CASE ShutdownEnd(t)
  <2>1. f.pc = "shut" /\ f.loop = "files" /\ Members(s, Serves("files")) = {} /\ Set(t, DroppingSftp(f, s))
        /\ UNCHANGED <<home, conn, reg>>
    BY <1>10 DEF ShutdownEnd, In, f
  <2>2. Is(g, "drop", s, None, "no", f.sess)
    BY <2>1, ShutdownIs, SetTo DEF g
  <2>3. ptr[s] /\ s \in Sftps /\ o = None
    BY <2>1, <1>f DEF OpenFrame, Shape, f
  <2>4. ptr' = [ptr EXCEPT ![s] = FALSE]
    BY <1>10, <2>3 DEF ShutdownEnd
  <2>5. (\A x \in Objects \ {s} : ptr'[x] = ptr[x]) /\ ptr'[s] = FALSE
    BY <2>3, <2>4, <1>p
  <2>6. \A h \in reg \cap Handles : home[h] # s
    BY <2>1, <1>f DEF Reached, Members, Serves, Handles, f
  <2>7. \A x \in Kept \ {s} : ptr[x] => x \in reg
    BY <2>1, <1>f DEF Reached, Closing, f
  <2>8. \A h \in Handles : ptr[h] => home[h] \in Sftps \ {s} /\ ptr[home[h]]
    BY <2>3, <2>6, <2>7, <1>f DEF Reached, Kept
  <2>9. Reached(th[t])'
    <3>1. \A x \in Kept : ptr'[x] => x \in reg'
      BY <2>1, <2>5, <2>7 DEF Kept
    <3>2. \A h \in Handles : ptr'[h] => home'[h] \in Sftps /\ ptr'[home'[h]]
      BY <2>1, <2>3, <2>5, <2>8
    <3>3. QED
      BY <2>2, <3>1, <3>2 DEF Reached, Is
  <2>10. Drained(th[t])'
    BY <2>1, <2>2, <2>5, <1>f DEF Drained, Is, Kept
  <2>11. OpenFrame(th[t])'
    BY <2>2 DEF OpenFrame, Is
  <2>12. QED
    BY <2>9, <2>10, <2>11, <1>w
<1>y. f.pc = "sess" => o = None /\ s = None /\ f.loop = "no"
  BY <1>f DEF Shape, f
<1>11. CASE ClosePopSftp(t)
  <2>1. PICK x \in reg \cap Sftps : reg' = reg \ {x} /\ EnterShutdown(t, f, x)
    BY <1>11 DEF ClosePopSftp, f
  <2>2. IF ptr[x] THEN Is(g, "shut", None, x, "dirs", f.sess) ELSE Is(g, "drop", x, None, "no", f.sess)
    BY <2>1, EnterShutdownIs DEF g
  <2>3. f.pc = "sess" /\ UNCHANGED <<ptr, home, conn>>
    BY <1>11 DEF ClosePopSftp, InLoop, In, f
  <2>4. OpenFrame(th[t])'
    BY <2>2, <2>3 DEF OpenFrame, Is
  <2>5. \A y \in Kept : (y \in reg /\ y \notin reg' /\ ptr[y]) => Closing(g, y)
    BY <2>1, <2>2 DEF Closing, Is
  <2>6. QED
    BY <2>1, <2>2, <2>3, <2>4, <2>5, <1>k, <1>y DEF Is
<1>12. CASE ClosePopChannel(t)
  <2>1. PICK x \in reg \cap Channels : reg' = reg \ {x} /\ EnterChannelClose(t, f, x)
    BY <1>12 DEF ClosePopChannel, f
  <2>2. Is(g, IF ptr[x] THEN "chclose" ELSE "drop", x, s, f.loop, f.sess)
    BY <2>1, <1>c
  <2>3. f.pc = "sess" /\ UNCHANGED <<ptr, home, conn>>
    BY <1>12 DEF ClosePopChannel, InLoop, In, f
  <2>4. OpenFrame(th[t])'
    BY <2>2, <2>3, <1>y DEF OpenFrame, Is
  <2>5. \A y \in Kept : (y \in reg /\ y \notin reg' /\ ptr[y]) => Closing(g, y)
    BY <2>1, <2>2 DEF Closing, Is
  <2>6. QED
    BY <2>1, <2>2, <2>3, <2>4, <2>5, <1>k, <1>y DEF Is
<1>13. CASE ClosePopListener(t) \/ FinalPop(t)
  <2>1. f.pc = "sess" /\ UNCHANGED <<ptr, home, conn>>
    BY <1>13 DEF ClosePopListener, FinalPop, InLoop, In, f
  <2>2. PICK x \in reg \cap Children : reg' = reg \ {x} /\ Set(t, Dropping(f, x))
    BY <1>13 DEF ClosePopListener, FinalPop, Children, f
  <2>3. x \notin Kept
    <3>1. CASE ClosePopListener(t)
      <4>1. f.sess = "listeners"
        BY <3>1 DEF ClosePopListener, InLoop, f
      <4>2. x \notin Sftps \cup Channels
        BY <2>2, <4>1, <1>f DEF Drained
      <4>3. QED
        BY <2>2, <4>2 DEF Children, Kept
    <3>2. CASE FinalPop(t)
      <4>1. life = "freed" /\ conn # "up"
        BY <3>2 DEF FinalPop, InLoop, SessInv, f
      <4>2. QED
        BY <2>2, <4>1, <1>f DEF Drained
    <3>3. QED
      BY <1>13, <3>1, <3>2
  <2>4. Is(g, "drop", x, s, f.loop, f.sess)
    BY <2>2, <1>d
  <2>5. OpenFrame(th[t])'
    BY <2>1, <2>4, <1>y DEF OpenFrame, Is
  <2>6. QED
    BY <2>1, <2>2, <2>3, <2>4, <2>5, <1>k, <1>y DEF Is
<1>14. CASE CloseNextLoop(t)
  <2>1. f.pc = "sess" /\ UNCHANGED <<ptr, home, conn, reg>>
    BY <1>14 DEF CloseNextLoop, InLoop, In, f
  <2>2. PICK p, e : /\ Set(t, InSession(p, e)) /\ p \in {"sess", "disconnect"} /\ e \in {"channels", "listeners"}
                    /\ reg \cap Sftps = {} /\ (e = "listeners" => reg \cap Channels = {})
                    /\ (p = "disconnect" => reg \cap Listeners = {} /\ e = "listeners")
    <3>1. CASE InLoop(t, "sftps")
      BY <1>14, <3>1 DEF CloseNextLoop, InLoop
    <3>2. CASE InLoop(t, "channels")
      BY <1>14, <3>2, <1>f DEF CloseNextLoop, InLoop, Drained, f
    <3>3. CASE InLoop(t, "listeners")
      BY <1>14, <3>3, <1>f DEF CloseNextLoop, InLoop, Drained, f
    <3>4. QED
      BY <1>14, <3>1, <3>2, <3>3 DEF CloseNextLoop
  <2>3. Is(g, p, None, None, "no", e)
    BY <2>2, SessionIs, SetTo DEF g
  <2>4. OpenFrame(th[t])'
    BY <2>2, <2>3 DEF OpenFrame, Is
  <2>5. Reached(th[t])'
    BY <2>1, <2>3, <1>y, <1>f DEF Reached, Closing, Is, f
  <2>6. Drained(th[t])'
    BY <2>1, <2>2, <2>3, <1>f DEF Drained, Is, Children
  <2>7. QED
    BY <2>4, <2>5, <2>6, <1>w
\* Nothing is open when the peer is told: the sets are empty, and there is no other way to own a channel.
<1>15. CASE DisconnectEnd(t)
  <2>1. f.pc = "disconnect" /\ UNCHANGED <<ptr, home, reg>> /\ conn' = "down"
    BY <1>15 DEF DisconnectEnd, SessionFree, In, f
  <2>2. PICK e \in {"self", "final"} : Set(t, InSession("sess", e))
    BY <1>15 DEF DisconnectEnd, SessionFree
  <2>3. Is(g, "sess", None, None, "no", e)
    BY <2>2, SessionIs, SetTo DEF g
  <2>4. reg \cap Children = {} /\ f.loop = "no"
    BY <2>1, <1>f DEF Drained, Shape
  <2>5. \A x \in Channels \cup Sftps : ~ptr[x]
    BY <2>1, <2>4, <1>f DEF Reached, Closing, Kept, Children
  <2>6. \A x \in Kept : ~ptr[x]
    BY <2>5, <1>f DEF Reached, Kept
  <2>7. OpenFrame(th[t])'
    BY <2>3 DEF OpenFrame, Is
  <2>8. Reached(th[t])'
    BY <2>1, <2>3, <2>6 DEF Reached, Is, Kept
  <2>9. Drained(th[t])'
    BY <2>1, <2>3, <2>4, <2>6 DEF Drained, Is
  <2>10. QED
    BY <2>7, <2>8, <2>9, <1>w
<1>16. CASE Leave(t) \/ FinalEnd(t)
  <2>1. f.pc = "sess" /\ UNCHANGED <<ptr, home, conn, reg>>
    BY <1>16 DEF Leave, FinalEnd, SessionFree, InLoop, In, f
  <2>2. PICK p \in {"idle", "sess"}, e \in {"no", "sftps", "final"} : Set(t, InSession(p, e))
    BY <1>16 DEF Leave, FinalEnd, SessionFree, Idle
  <2>3. Is(g, p, None, None, "no", e)
    BY <2>2, SessionIs, SetTo DEF g
  <2>4. OpenFrame(th[t])'
    BY <2>3 DEF OpenFrame, Is
  <2>5. QED
    BY <2>1, <2>3, <2>4, <1>k, <1>y DEF Is
<1>17. CASE DropShared(t)
  <2>1. Set(t, After(f)) /\ f.pc = "drop" /\ UNCHANGED <<ptr, home, conn, reg>>
    BY <1>17 DEF DropShared, In, f
  <2>2. OpenFrame(th[t])'
    BY <2>1, <1>a, <1>f DEF OpenFrame, Is, f
  <2>3. QED
    BY <2>1, <2>2, <1>a, <1>k DEF Is
<1>18. CASE ChannelDealloc(t)
  <2>1. f.pc = "drop" /\ UNCHANGED <<ptr, home, conn, reg>>
    BY <1>18 DEF ChannelDealloc, Last, In, f
  <2>2. CASE ptr[o]
    <3>1. Is(g, "chclose", o, s, f.loop, f.sess)
      BY <1>18, <2>2, <1>c DEF ChannelDealloc, f
    <3>2. OpenFrame(th[t])'
      BY <2>1, <2>2, <3>1, <1>f DEF OpenFrame, Is, f
    <3>3. QED
      BY <2>1, <3>1, <3>2, <1>k, <1>f DEF Is, ThreadState
  <2>3. CASE ~ptr[o]
    <3>1. Set(t, After(f))
      BY <1>18, <2>3 DEF ChannelDealloc, f
    <3>2. OpenFrame(th[t])'
      BY <2>1, <3>1, <1>a, <1>f DEF OpenFrame, Is, f
    <3>3. QED
      BY <2>1, <3>1, <3>2, <1>a, <1>k DEF Is
  <2>4. QED
    BY <2>2, <2>3
<1>19. CASE ListenerDealloc(t)
  <2>1. f.pc = "drop" /\ UNCHANGED <<ptr, home, conn, reg>> /\ o \in Listeners
    BY <1>19 DEF ListenerDealloc, Last, In, f
  <2>2. CASE ptr[o]
    <3>1. Is(g, "lcancel", o, s, f.loop, f.sess)
      BY <1>19, <2>1, <2>2, <1>e DEF ListenerDealloc, f
    <3>2. OpenFrame(th[t])'
      BY <2>1, <3>1, <1>f DEF OpenFrame, Is, f
    <3>3. QED
      BY <2>1, <3>1, <3>2, <1>k, <1>f DEF Is, ThreadState
  <2>3. CASE ~ptr[o]
    <3>1. Set(t, After(f))
      BY <1>19, <2>3 DEF ListenerDealloc, f
    <3>2. OpenFrame(th[t])'
      BY <2>1, <3>1, <1>a, <1>f DEF OpenFrame, Is, f
    <3>3. QED
      BY <2>1, <3>1, <3>2, <1>a, <1>k DEF Is
  <2>4. QED
    BY <2>2, <2>3
\* Handles that are deallocated.
<1>h. ASSUME NEW S, S \subseteq Handles, NEW G, HandlesDealloc(S, G), f.pc = "drop", Set(t, After(f)),
             UNCHANGED <<home, conn>>, reg' \subseteq reg, \A x \in Kept : (x \in reg /\ ptr[x]) => x \in reg'
      PROVE  ReachInv'
  <2>1. \A x \in Objects : (ptr'[x] => ptr[x]) /\ (x \notin Handles => ptr'[x] = ptr[x])
    BY <1>h, <1>p DEF HandlesDealloc
  <2>2. f.loop # "no" => s \in Sftps
    BY <1>f DEF Shape, f
  <2>3. OpenFrame(th[t])'
    BY <1>h, <2>1, <2>2, <1>a, <1>f DEF OpenFrame, Is, f
  <2>4. Drained(th[t])'
    BY <1>h, <2>1, <1>a, <1>f DEF Drained, Kept
  <2>5. \A x \in Kept : ptr'[x] => x \in reg' \/ Closing(g, x)
    <3>1. \A x \in Kept : ptr[x] => x \in reg \/ (f.loop # "no" /\ s = x)
      BY <1>h, <1>f DEF Reached, Closing, f
    <3>2. QED
      BY <1>h, <2>1, <3>1, <1>a DEF Closing, Is, Kept
  <2>6. \A h \in Handles : ptr'[h] => home'[h] \in Sftps /\ ptr'[home'[h]]
    BY <1>h, <2>1, <1>f DEF Reached
  <2>7. g.loop = "files" => \A d \in reg \cap Dirs : home[d] # g.sftp
    BY <1>h, <1>a, <1>f DEF Reached, Is, f
  <2>8. Reached(th[t])'
    BY <1>h, <2>5, <2>6, <2>7 DEF Reached
  <2>9. QED
    BY <2>3, <2>4, <2>8, <1>w
<1>20. CASE HandleDealloc(t)
  <2>1. o \in Handles /\ HandlesDealloc({o}, {}) /\ f.pc = "drop" /\ Set(t, After(f)) /\ UNCHANGED <<home, conn, reg>>
    BY <1>20 DEF HandleDealloc, Last, In, f
  <2>2. {o} \subseteq Handles
    BY <2>1
  <2>3. QED
    BY <2>1, <2>2, <1>h
\* An open subsystem still has an owner.
<1>21. CASE SftpDeallocOpen(t)
  <2>1. f.pc = "drop" /\ o \in Sftps /\ ptr[o] /\ o \notin reg
    BY <1>21 DEF SftpDeallocOpen, Last, In, Owned, f
  <2>2. s = None
    BY <2>1, <1>f DEF Shape, f
  <2>3. QED
    BY <2>1, <2>2, <1>f DEF Reached, Closing, Kept, f
<1>22. CASE SftpDealloc(t)
  <2> DEFINE left == Members(o, Handles)
             S == {h \in left : h \notin user /\ \A u \in Threads : h \notin Held(u)}
  <2>1. ~ptr[o] /\ reg' = reg \ left /\ HandlesDealloc(S, {o}) /\ f.pc = "drop" /\ Set(t, After(f))
        /\ UNCHANGED <<home, conn>>
    BY <1>22 DEF SftpDealloc, Last, In, f
  <2>2. S \subseteq Handles
    BY DEF Members
  <2>3. \A x \in left : ~ptr[x]
    BY <2>1, <1>f DEF Members, Reached
  <2> HIDE DEF left, S
  <2>4. QED
    BY <2>1, <2>2, <2>3, <1>h
<1>23. CASE UseAgain(t)
  <2>1. UNCHANGED <<th, ptr, home, conn, reg>>
    BY <1>23 DEF UseAgain
  <2>2. QED
    BY <2>1 DEF ReachInv, OpenFrame, Reached, Drained, Closing
<1>24. QED
  BY <1>23, <1>1, <1>2, <1>3, <1>4, <1>5, <1>6, <1>7, <1>8, <1>9, <1>10, <1>11, <1>12, <1>13, <1>14, <1>15, <1>16,
     <1>17, <1>18, <1>19, <1>20, <1>21, <1>22 DEF Proceed

LEMMA ReachStep ==
  ASSUME OneThread, TypeOK, SessInv, ReachInv, [Next]_vars
  PROVE  ReachInv'
<1>1. CASE UNCHANGED vars
  BY <1>1 DEF vars, sessVars, objVars, refVars, ReachInv, OpenFrame, Reached, Drained, Closing
<1>2. QED
  BY <1>1, ReachInvoke, ReachProceed DEF Next

-----------------------------------------------------------------------------
(* An object and its wrapper are opened and closed together *)

\* An object and its wrapper are opened and closed together, unless the native close fails.
Matched(o) == \/ py[o] = "none" /\ ~ptr[o] /\ native[o] = "none"
              \/ py[o] # "none" /\ ptr[o] /\ native[o] = "live"
              \/ py[o] # "none" /\ ~ptr[o] /\ (native[o] = "dead" \/ (o \in Failing /\ native[o] = "live"))

MatchInv == \A o \in Kept : Matched(o)

\* What a step does to one wrapper and the object behind it. An object whose close failed may still end.
Stays(o)   == \/ native'[o] = native[o]
              \/ o \in Failing /\ ~ptr[o] /\ native[o] = "live" /\ native'[o] = "dead"
EndsOne(o) == native'[o] = "dead" \/ (o \in Failing /\ native'[o] = native[o])
Same(o) == /\ py'[o] = "none" <=> py[o] = "none"
           /\ ptr'[o] = ptr[o] /\ Stays(o)
OpensOne(o) == py[o] = "none" /\ py'[o] # "none" /\ ptr'[o] /\ native'[o] = "live"
ClosesOne(o) == ptr[o] /\ py'[o] # "none" /\ ~ptr'[o] /\ EndsOne(o)

\* What a step does to all of them.
AllSame == \A o \in Kept : Same(o)
OneChanges == \E o \in Kept : /\ OpensOne(o) \/ ClosesOne(o)
                              /\ \A x \in Kept \ {o} : Same(x)

LEMMA SameBy == UNCHANGED <<py, ptr, native>> => AllSame
BY DEF AllSame, Same, Stays

LEMMA NewChanges ==
  ASSUME TypeOK, NEW o \in Objects, New(o)
  PROVE  AllSame \/ OneChanges
<1>1. /\ py[o] = "none" /\ py'[o] = "alive" /\ ptr'[o] = TRUE /\ native'[o] = "live"
      /\ \A x \in Objects \ {o} : py'[x] = py[x] /\ ptr'[x] = ptr[x] /\ native'[x] = native[x]
  BY DEF New, TypeOK, DataOK
<1>2. CASE o \in Kept
  BY <1>1, <1>2 DEF OneChanges, OpensOne, Same, Stays, Kept
<1>3. CASE o \notin Kept
  BY <1>1, <1>3 DEF AllSame, Same, Stays, Kept
<1>4. QED
  BY <1>2, <1>3

\* A native object of the wrapper o is destroyed, and its pointer cleared.
LEMMA CloseChanges ==
  ASSUME TypeOK, MatchInv, NEW o \in Objects, ptr[o], UNCHANGED py,
         ptr'[o] = FALSE, EndsOne(o),
         \A x \in Objects \ {o} : ptr'[x] = ptr[x] /\ Stays(x)
  PROVE  AllSame \/ OneChanges
<1>1. CASE o \in Kept
  BY <1>1 DEF OneChanges, ClosesOne, Same, Kept, MatchInv, Matched
<1>2. CASE o \notin Kept
  BY <1>2 DEF AllSame, Same, Kept
<1>3. QED
  BY <1>1, <1>2

LEMMA PromiseInvoke ==
  ASSUME TypeOK, NEW t \in Threads, Invoke(t)
  PROVE  AllSame \/ OneChanges
<1> USE DEF objVars
<1>1. CASE OpenLocked(t)
  BY <1>1, NewChanges DEF OpenLocked
<1>2. CASE ~OpenLocked(t)
  <2>1. UNCHANGED <<py, ptr, native>>
    BY <1>2 DEF Invoke, StartupBegin, SessionClose, UserDropSession, OpenBegin, UseBegin, AcceptBegin,
       ForwardCancel, ChannelClose, SftpShutdown, OpenHandleBegin, CloseHandle,
         UserDrop
  <2>2. QED
    BY <2>1, SameBy
<1>3. QED
  BY <1>1, <1>2

LEMMA PromiseProceed ==
  ASSUME OneThread, TypeOK, SessInv, AliveInv, ReachInv, MatchInv, NEW t \in Threads, Proceed(t)
  PROVE  AllSame \/ OneChanges
<1> USE DEF objVars
<1> DEFINE f == th[t]
           o == th[t].obj
           s == th[t].sftp
<1>f. OpenFrame(f) /\ Reached(f) /\ Drained(f) /\ Shape(f) /\ f \in ThreadState /\ None \notin Objects
  BY DEF ReachInv, TypeOK, ThreadsOK
<1>p. /\ ptr \in [Objects -> BOOLEAN] /\ native \in [Objects -> {"none", "live", "dead"}]
      /\ py \in [Objects -> {"none", "alive", "gone", "leaked"}]
  BY DEF TypeOK, DataOK
<1>e. ASSUME NEW x \in Objects, Ends(x), ptr' = [ptr EXCEPT ![x] = FALSE]
      PROVE  ptr'[x] = FALSE /\ EndsOne(x) /\ \A y \in Objects \ {x} : ptr'[y] = ptr[y] /\ Stays(y)
  BY <1>e, <1>p DEF Ends, EndsOne, Stays
<1>m. \A x \in Kept : native[x] = "live" => ptr[x] \/ (x \in Failing /\ ~ptr[x])
  BY DEF MatchInv, Matched
<1>1. CASE OpenEnd(t)
  BY <1>1, NewChanges, SameBy DEF OpenEnd
<1>2. CASE AcceptEnd(t)
  BY <1>2, NewChanges, SameBy DEF AcceptEnd
<1>3. CASE OpenHandleEnd(t)
  BY <1>3, NewChanges, SameBy DEF OpenHandleEnd
<1>4. CASE ChannelCloseEnd(t)
  <2>1. f.pc = "chclose"
    BY <1>4 DEF ChannelCloseEnd, In
  <2>2. o \in Chans /\ ptr[o]
    BY <2>1, <1>f DEF Shape, OpenFrame
  <2>3. ptr' = [ptr EXCEPT ![o] = FALSE] /\ Ends(o) /\ UNCHANGED py
    BY <1>4, <2>2 DEF ChannelCloseEnd
  <2>4. QED
    BY <2>2, <2>3, <1>e, CloseChanges
<1>5. CASE DestroyEnd(t)
  <2>1. f.pc \in {"lcancel", "hclose"} /\ ptr' = [ptr EXCEPT ![o] = FALSE] /\ UNCHANGED py
        /\ IF f.arg THEN Ends(o) ELSE UNCHANGED native
    BY <1>5 DEF DestroyEnd, In
  <2>2. o \in Listeners \cup Handles /\ (o \in Handles => f.arg = ptr[o])
    BY <2>1, <1>f DEF Shape, OpenFrame
  <2>3. CASE o \in Handles /\ f.arg
    BY <2>1, <2>2, <2>3, <1>e, CloseChanges
  <2>4. CASE o \in Handles /\ ~f.arg
    BY <2>1, <2>2, <2>4, <1>p DEF AllSame, Same, Stays, Kept
  <2>5. CASE o \in Listeners
    <3>1. \A x \in Objects \ {o} : ptr'[x] = ptr[x] /\ native'[x] = native[x] /\ py'[x] = py[x]
      BY <2>1, <1>p DEF Ends
    <3>2. \A x \in Kept : x \in Objects \ {o}
      BY <2>5, Kinds DEF Kept, Chans
    <3>3. QED
      BY <3>1, <3>2 DEF AllSame, Same, Stays
  <2>6. QED
    BY <2>2, <2>3, <2>4, <2>5
\* No open handle is left in the subsystem, so libssh2_sftp_shutdown ends nothing but the subsystem.
<1>6. CASE ShutdownEnd(t)
  <2>1. f.pc = "shut" /\ f.loop = "files" /\ Members(s, Serves("files")) = {} /\ UNCHANGED py
    BY <1>6 DEF ShutdownEnd, In
  <2>2. ptr[s] /\ s \in Sftps /\ o = None
    BY <2>1, <1>f DEF OpenFrame, Shape
  <2>3. /\ ptr' = [ptr EXCEPT ![s] = FALSE]
        /\ \/ native' = [x \in Objects |-> IF x = s \/ (x \in Handles /\ home[x] = s /\ native[x] = "live")
                                               THEN "dead" ELSE native[x]]
           \/ s \in Failing /\ UNCHANGED native
    BY <1>6, <2>2 DEF ShutdownEnd
  <2>4. \A h \in reg \cap Handles : home[h] # s
    BY <2>1, <1>f DEF Reached, Members, Serves, Handles
  <2>5. \A h \in Handles : native[h] = "live" => home[h] # s \/ (h \in Failing /\ ~ptr[h])
    BY <2>1, <2>2, <2>4, <1>f, <1>m DEF Reached, Closing, Kept
  <2>6. s \in Objects /\ ptr'[s] = FALSE /\ EndsOne(s)
    BY <2>2, <2>3, <1>p DEF EndsOne
  <2>7. \A x \in Objects \ {s} : ptr'[x] = ptr[x] /\ Stays(x)
    BY <2>2, <2>3, <2>5, <1>p DEF Stays
  <2>8. QED
    BY <2>1, <2>2, <2>6, <2>7, CloseChanges
\* libssh2_session_free comes when nothing is open any more.
<1>n. ASSUME \A x \in Kept : ~ptr[x], UNCHANGED <<py, ptr>>,
             native' = [x \in Objects |-> IF native[x] = "live" THEN "dead" ELSE native[x]]
      PROVE  AllSame
  BY <1>n, <1>m DEF AllSame, Same, Stays, Kept
<1>7. CASE DisconnectEnd(t)
  <2>1. f.pc = "disconnect" /\ UNCHANGED <<py, ptr>>
    BY <1>7 DEF DisconnectEnd, In
  <2>2. reg \cap Children = {} /\ f.loop = "no"
    BY <2>1, <1>f DEF Drained, Shape
  <2>3. \A x \in Channels \cup Sftps : ~ptr[x]
    BY <2>1, <2>2, <1>f DEF Reached, Closing, Kept, Children
  <2>4. \A x \in Kept : ~ptr[x]
    BY <2>3, <1>f DEF Reached, Kept
  <2>5. CASE UNCHANGED native
    BY <2>1, <2>5, SameBy
  <2>6. CASE SessionFree(t)
    BY <2>1, <2>4, <2>6, <1>n DEF SessionFree
  <2>7. QED
    BY <1>7, <2>5, <2>6 DEF DisconnectEnd
<1>8. CASE Leave(t)
  <2>1. UNCHANGED <<py, ptr>>
    BY <1>8 DEF Leave
  <2>2. CASE UNCHANGED native
    BY <2>1, <2>2, SameBy
  <2>3. CASE SessionFree(t) /\ ~opened
    <3>1. \A x \in Kept : ~ptr[x]
      BY <2>3, <1>f DEF SessInv, Drained
    <3>2. QED
      BY <2>1, <2>3, <3>1, <1>n DEF SessionFree
  <2>4. QED
    BY <1>8, <2>2, <2>3 DEF Leave
<1>g. ASSUME f.pc = "drop", o \in Objects PROVE py[o] = "alive"
  BY <1>g DEF AliveInv, Held
<1>9. CASE ChannelDealloc(t) \/ ListenerDealloc(t)
  <2>1. f.pc = "drop" /\ o \in Objects /\ UNCHANGED <<ptr, native>>
    BY <1>9 DEF ChannelDealloc, ListenerDealloc, Last, In
  <2>2. UNCHANGED py \/ py' = [py EXCEPT ![o] = "gone"]
    BY <1>9 DEF ChannelDealloc, ListenerDealloc
  <2>3. QED
    BY <2>1, <2>2, <1>g, <1>p DEF AllSame, Same, Stays, Kept
\* The handles that are deallocated with their sets, or in the last step of a call, are closed.
<1>h. ASSUME NEW S, S \subseteq Handles, NEW G, HandlesDealloc(S, G), \A h \in S : ~ptr[h],
             \A x \in Objects : x \in S \cup G => py[x] # "none"
      PROVE  AllSame
  BY <1>h, <1>p DEF HandlesDealloc, AllSame, Same, Stays, Kept
<1>10. CASE HandleDealloc(t)
  <2>1. o \in Handles /\ HandlesDealloc({o}, {}) /\ f.pc = "drop" /\ o \notin reg
    BY <1>10 DEF HandleDealloc, Last, In, Owned
  <2>2. ~ptr[o]
    BY <2>1, <1>f DEF Reached, Closing, Kept, Shape
  <2>3. {o} \subseteq Handles /\ py[o] # "none"
    BY <2>1, <1>g
  <2>4. \A x \in Objects : x \in {o} \cup {} => py[x] # "none"
    BY <2>3
  <2>5. QED
    BY <2>1, <2>2, <2>3, <2>4, <1>h
<1>11. CASE SftpDealloc(t)
  <2> DEFINE left == Members(o, Handles)
             S == {h \in left : h \notin user /\ \A u \in Threads : h \notin Held(u)}
  <2>1. ~ptr[o] /\ HandlesDealloc(S, {o}) /\ f.pc = "drop" /\ o \in Sftps
    BY <1>11 DEF SftpDealloc, Last, In
  <2>2. S \subseteq Handles
    BY DEF Members
  <2>3. \A x \in S : ~ptr[x] /\ x \in reg
    BY <2>1, <1>f DEF Members, Reached
  <2>4. \A x \in Objects : x \in S \cup {o} => py[x] # "none"
    BY <2>1, <2>2, <2>3, <1>g DEF AliveInv, Refs
  <2> HIDE DEF left, S
  <2>5. QED
    BY <2>1, <2>2, <2>3, <2>4, <1>h
<1>12. CASE \/ StartupEnd(t) \/ UseAgain(t) \/ UseEnd(t) \/ ShutdownPop(t) \/ ShutdownNextLoop(t) \/ ClosePopSftp(t)
            \/ ClosePopChannel(t) \/ ClosePopListener(t) \/ CloseNextLoop(t)
            \/ FinalPop(t) \/ FinalEnd(t) \/ DropShared(t) \/ SftpDeallocOpen(t)
  <2>1. UNCHANGED <<py, ptr, native>>
    BY <1>12 DEF StartupEnd, UseAgain, UseEnd, ShutdownPop, ShutdownNextLoop, ClosePopSftp, ClosePopChannel,
       ClosePopListener, CloseNextLoop, FinalPop, FinalEnd, DropShared, SftpDeallocOpen
  <2>2. QED
    BY <2>1, SameBy
<1>13. QED
  BY <1>1, <1>2, <1>3, <1>4, <1>5, <1>6, <1>7, <1>8, <1>9, <1>10, <1>11, <1>12 DEF Proceed

\* One step opens at most one wrapper, or closes at most one, each together with its object.
LEMMA PromiseStep ==
  ASSUME OneThread, TypeOK, SessInv, AliveInv, ReachInv, MatchInv, [Next]_vars
  PROVE  AllSame \/ OneChanges
BY PromiseInvoke, PromiseProceed, SameBy DEF Next, vars, objVars

LEMMA MatchStep ==
  ASSUME OneThread, TypeOK, TypeOK', SessInv, AliveInv, ReachInv, MatchInv, [Next]_vars
  PROVE  MatchInv'
<1>1. \A o \in Kept : Same(o) \/ OpensOne(o) \/ ClosesOne(o)
  BY PromiseStep DEF AllSame, OneChanges
<1>2. \A o \in Kept : ptr'[o] \in BOOLEAN /\ ptr[o] \in BOOLEAN
  BY DEF TypeOK, DataOK, Kept
<1>3. QED
  BY <1>1, <1>2 DEF MatchInv, Matched, Same, Stays, OpensOne, ClosesOne, EndsOne

LEMMA SerialInit == Init => ReachInv /\ MatchInv
<1> SUFFICES ASSUME Init PROVE ReachInv /\ MatchInv
  OBVIOUS
<1>1. Is(Idle, "idle", None, None, "no", "no")
  BY IdleIs
<1>2. \A t \in Threads : th[t] = Idle
  BY DEF Init
<1>3. ReachInv
  BY <1>1, <1>2 DEF Is, Init, ReachInv, OpenFrame, Reached, Drained, Kept
<1>4. MatchInv
  BY DEF Init, MatchInv, Matched, Kept
<1>5. QED
  BY <1>3, <1>4

\* The invariant of one thread, and the ones of any number of threads that it needs.
SerialInv == TypeOK /\ SessInv /\ AliveInv /\ ReachInv /\ MatchInv

\* One thread: what is open can be reached from a set or is being closed, together with its object.
LEMMA SerialCorrect ==
  ASSUME OneThread
  PROVE  Spec => []SerialInv
<1>1. Init => ReachInv /\ MatchInv
  BY SerialInit
<1>2. TypeOK /\ TypeOK' /\ SessInv /\ AliveInv /\ ReachInv /\ MatchInv /\ [Next]_vars => ReachInv' /\ MatchInv'
  BY ReachStep, MatchStep
<1>3. QED
  BY <1>1, <1>2, SessionLife, OwnedAlive, TypeCorrect, PTL DEF Spec, SerialInv

LEMMA PromiseInit == Init => Promise!Init
<1> SUFFICES ASSUME Init PROVE Promise!Init
  OBVIOUS
<1>1. \A o \in Promised : py[o] = "none" /\ native[o] = "none"
  BY DEF Init, Promised
<1>2. QED
  BY <1>1 DEF Promise!Init

LEMMA PromiseNext ==
  ASSUME OneThread, SerialInv, [Next]_vars
  PROVE  [Promise!Next]_(Promise!vars)
<1> DEFINE W == [o \in Promised |-> IF py[o] = "none" THEN "none" ELSE IF ptr[o] THEN "open" ELSE "closed"]
           N == [o \in Promised |-> native[o]]
           V == [o \in Promised |-> IF py'[o] = "none" THEN "none" ELSE IF ptr'[o] THEN "open" ELSE "closed"]
           M == [o \in Promised |-> native'[o]]
<1>m. \A o \in Promised : Matched(o) /\ o \in Objects
  BY DEF SerialInv, MatchInv, Promised, Kept
<1>k. Promised = Kept \ Failing
  BY DEF Promised, Kept
<1>s. ASSUME NEW o \in Promised, Same(o) PROVE W[o] = V[o] /\ N[o] = M[o]
  BY <1>s, <1>k DEF Same, Stays
<1>1. CASE AllSame
  <2>1. W = V /\ N = M
    BY <1>1, <1>s, <1>k DEF AllSame
  <2>2. QED
    BY <2>1 DEF Promise!vars
<1>2. CASE OneChanges
  <2>1. PICK o \in Kept : (OpensOne(o) \/ ClosesOne(o)) /\ \A x \in Kept \ {o} : Same(x)
    BY <1>2 DEF OneChanges
  <2>2. \A x \in Promised \ {o} : W[x] = V[x] /\ N[x] = M[x]
    BY <2>1, <1>s, <1>k
  <2>3. CASE OpensOne(o) /\ o \in Promised
    <3>1. W[o] = "none" /\ N[o] = "none" /\ V[o] = "open" /\ M[o] = "live"
      BY <2>3, <1>m DEF OpensOne, Matched
    <3>2. V = [W EXCEPT ![o] = "open"] /\ M = [N EXCEPT ![o] = "live"]
      BY <2>2, <2>3, <3>1
    <3> HIDE DEF W, N, V, M
    <3>3. Promise!Open(o)
      BY <3>1, <3>2 DEF Promise!Open, W, N, V, M
    <3>4. QED
      BY <2>3, <3>3 DEF Promise!Next
  <2>4. CASE ClosesOne(o) /\ o \in Promised
    <3>1. W[o] = "open" /\ N[o] = "live" /\ V[o] = "closed" /\ M[o] = "dead"
      BY <2>4, <1>m, <1>k DEF ClosesOne, EndsOne, Matched
    <3>2. V = [W EXCEPT ![o] = "closed"] /\ M = [N EXCEPT ![o] = "dead"]
      BY <2>2, <2>4, <3>1
    <3> HIDE DEF W, N, V, M
    <3>3. Promise!Close(o)
      BY <3>1, <3>2 DEF Promise!Close, W, N, V, M
    <3>4. QED
      BY <2>4, <3>3 DEF Promise!Next
  <2>5. CASE o \notin Promised
    <3>1. W = V /\ N = M
      BY <2>2, <2>5
    <3>2. QED
      BY <3>1 DEF Promise!vars
  <2>6. QED
    BY <2>1, <2>3, <2>4, <2>5
<1>3. QED
  BY <1>1, <1>2, PromiseStep DEF SerialInv

\* The wrappers and objects of one thread that libssh2 does close when asked implement OwnedHandles,
\* whatever becomes of the closes of the others: each is opened once and closed once, wrapper and
\* object in the same step, and no step ends two or ends one by another's call.
THEOREM KeepsPromiseCorrect ==
  ASSUME OneThread
  PROVE  Spec => KeepsPromise
<1>1. Init => Promise!Init
  BY PromiseInit
<1>2. SerialInv /\ [Next]_vars => [Promise!Next]_(Promise!vars)
  BY PromiseNext
<1>3. QED
  BY <1>1, <1>2, SerialCorrect, PTL DEF Spec, KeepsPromise, Promise!Spec

-----------------------------------------------------------------------------
(* libssh2 is not called on a dead object *)

StaleInv == OnlyUnownedStale /\ OnlyUncheckedNulls

\* A call on the objects of S: the wrappers the session owns among them are open.
LEMMA StaleBy ==
  ASSUME StaleInv, MatchInv, NEW S, \A o \in S : o \in Objects /\ (o \in Kept => ptr[o]),
         stale' \subseteq stale \cup DeadOnes(S), nulls' \subseteq nulls \cup Listeners \cup Handles
  PROVE  StaleInv'
<1>1. \A o \in Kept : ptr[o] => native[o] # "dead"
  BY DEF MatchInv, Matched
<1>2. \A o \in Objects : o \in Kept \/ o \in Accepted \cup Listeners
  BY DEF Kept, Objects, Chans
<1>3. QED
  BY <1>1, <1>2 DEF StaleInv, OnlyUnownedStale, OnlyUncheckedNulls, DeadOnes

LEMMA StaleCall ==
  ASSUME StaleInv, MatchInv, NEW o \in Objects, Call(o), ptr[o] \/ o \in Listeners \cup Handles
  PROVE  StaleInv'
<1> DEFINE S == IF ptr[o] THEN {o} ELSE {}
<1>1. \A x \in S : x \in Objects /\ (x \in Kept => ptr[x])
  OBVIOUS
<1>2. stale' \subseteq stale \cup DeadOnes(S) /\ nulls' \subseteq nulls \cup Listeners \cup Handles
  BY DEF Call
<1> HIDE DEF S
<1>3. QED
  BY <1>1, <1>2, StaleBy

LEMMA StaleSame == StaleInv /\ UNCHANGED <<stale, nulls>> => StaleInv'
BY DEF StaleInv, OnlyUnownedStale, OnlyUncheckedNulls

LEMMA StaleClose ==
  ASSUME StaleInv, MatchInv, NEW t, NEW q, NEW c \in Objects, EnterChannelClose(t, q, c)
  PROVE  StaleInv'
BY StaleCall, StaleSame DEF EnterChannelClose

LEMMA StaleInvoke ==
  ASSUME StaleInv, MatchInv, NEW t \in Threads, Invoke(t)
  PROVE  StaleInv'
<1> USE DEF logVars
<1>1. ASSUME NEW o \in Chans \cup Sftps \cup Handles, UseBegin(t, o) PROVE StaleInv'
  BY <1>1, StaleCall DEF UseBegin
<1>2. ASSUME NEW l \in Listeners, AcceptBegin(t, l) \/ ForwardCancel(t, l) PROVE StaleInv'
  BY <1>2, StaleCall DEF AcceptBegin, ForwardCancel, EnterDestroy
<1>3. ASSUME NEW c \in Chans, ChannelClose(t, c) PROVE StaleInv'
  BY <1>3, StaleClose DEF ChannelClose
<1>4. ASSUME NEW s \in Sftps, NEW call \in {"openfile", "opendir"}, OpenHandleBegin(t, s, call) PROVE StaleInv'
  BY <1>4, StaleCall DEF OpenHandleBegin
<1>5. ASSUME NEW s \in Sftps, NEW h \in Handles, CloseHandle(t, s, h) PROVE StaleInv'
  BY <1>5, StaleCall DEF CloseHandle, EnterDestroy
<1>6. ASSUME UNCHANGED logVars PROVE StaleInv'
  BY <1>6, StaleSame
<1>7. QED
  BY <1>1, <1>2, <1>3, <1>4, <1>5, <1>6 DEF Invoke, StartupBegin, OpenLocked, SessionClose, UserDropSession,
     OpenBegin, SftpShutdown, UserDrop

LEMMA StaleProceed ==
  ASSUME TypeOK, ReachInv, MatchInv, StaleInv, NEW t \in Threads, Proceed(t)
  PROVE  StaleInv'
<1> USE DEF logVars
<1> DEFINE f == th[t]
           o == th[t].obj
           s == th[t].sftp
<1>f. OpenFrame(f) /\ Shape(f) /\ f \in ThreadState
  BY DEF ReachInv, TypeOK, ThreadsOK
\* The object a call was made on may have died under it, unless its wrapper is open.
<1>u. ASSUME stale' \subseteq stale \cup DeadOnes({o}), o \in Objects, o \in Kept => ptr[o],
             nulls' \subseteq nulls \cup Listeners \cup Handles
      PROVE  StaleInv'
  <2> DEFINE S == {o}
  <2>1. (\A x \in S : x \in Objects /\ (x \in Kept => ptr[x])) /\ stale' \subseteq stale \cup DeadOnes(S)
    BY <1>u
  <2> HIDE DEF S
  <2>2. QED
    BY <1>u, <2>1, StaleBy
<1>1. CASE UseEnd(t) \/ OpenHandleEnd(t)
  <2>1. f.pc \in {"use", "openfile", "opendir"} /\ stale' = stale \cup DeadOnes({o}) /\ UNCHANGED nulls
    BY <1>1 DEF UseEnd, OpenHandleEnd, In
  <2>2. ptr[o] /\ o \in Objects
    BY <2>1, <1>f DEF OpenFrame, Shape
  <2>3. QED
    BY <2>1, <2>2, <1>u
<1>14. CASE UseAgain(t)
  <2>1. f.pc = "use" /\ o \in Dirs /\ stale' = stale \cup DeadOnes({o}) /\ nulls' \subseteq nulls \cup {o}
    BY <1>14 DEF UseAgain, In
  <2>2. ptr[o] /\ o \in Objects
    BY <2>1, <1>f DEF OpenFrame, Shape
  <2>3. QED
    BY <2>1, <2>2, <1>u
<1>2. CASE AcceptEnd(t)
  <2>1. f.pc = "accept" /\ stale' \subseteq stale \cup DeadOnes({o}) /\ UNCHANGED nulls
    BY <1>2 DEF AcceptEnd, In
  <2>2. o \in Listeners /\ o \notin Kept
    BY <2>1, <1>f, Kinds DEF Shape, Kept, Chans
  <2>3. QED
    BY <2>1, <2>2, <1>u
<1>3. CASE ChannelCloseEnd(t)
  <2>1. f.pc = "chclose"
    BY <1>3 DEF ChannelCloseEnd, In
  <2>2. ptr[o] /\ o \in Objects
    BY <2>1, <1>f DEF OpenFrame, Shape
  <2>3. stale' = stale \cup DeadOnes({o}) /\ UNCHANGED nulls
    BY <1>3, <2>2 DEF ChannelCloseEnd
  <2>4. QED
    BY <2>2, <2>3, <1>u
<1>4. CASE DestroyEnd(t)
  <2>1. f.pc \in {"lcancel", "hclose"} /\ UNCHANGED nulls
    BY <1>4 DEF DestroyEnd, In
  <2>2. o \in Listeners \cup Handles /\ (o \in Handles => f.arg = ptr[o]) /\ (o \in Listeners => o \notin Kept)
    BY <2>1, <1>f, Kinds DEF OpenFrame, Shape, Kept, Chans
  <2>3. CASE f.arg
    <3>1. stale' = stale \cup DeadOnes({o})
      BY <1>4, <2>3 DEF DestroyEnd
    <3>2. QED
      BY <2>1, <2>2, <2>3, <3>1, <1>u
  <2>4. CASE ~f.arg
    BY <1>4, <2>1, <2>4, StaleSame DEF DestroyEnd
  <2>5. QED
    BY <2>3, <2>4
<1>5. CASE ShutdownPop(t)
  <2>1. PICK h \in Members(s, Serves(f.loop)) : EnterDestroy(t, f, h)
    BY <1>5 DEF ShutdownPop
  <2>2. h \in Handles /\ Call(h)
    BY <2>1 DEF Members, Serves, EnterDestroy
  <2>3. QED
    BY <2>2, StaleCall
<1>6. CASE ShutdownEnd(t)
  <2>1. f.loop = "files" /\ Call(s) /\ f.pc = "shut"
    BY <1>6 DEF ShutdownEnd, In
  <2>2. ptr[s] /\ s \in Objects
    BY <2>1, <1>f DEF OpenFrame, Shape
  <2>3. QED
    BY <2>1, <2>2, StaleCall
<1>7. CASE ClosePopChannel(t) \/ ChannelDealloc(t)
  BY <1>7, StaleClose, StaleSame DEF ClosePopChannel, ChannelDealloc
<1>8. CASE ListenerDealloc(t)
  BY <1>8, StaleCall, StaleSame DEF ListenerDealloc, EnterDestroy
<1>9. ASSUME NEW S, S \subseteq Handles, NEW G, HandlesDealloc(S, G), UNCHANGED nulls PROVE StaleInv'
  <2> DEFINE T == {x \in S : ptr[x]}
  <2>1. (\A x \in T : x \in Objects /\ (x \in Kept => ptr[x])) /\ stale' \subseteq stale \cup DeadOnes(T)
    BY <1>9 DEF HandlesDealloc
  <2> HIDE DEF T
  <2>2. QED
    BY <1>9, <2>1, StaleBy
<1>10. CASE HandleDealloc(t)
  <2>1. {o} \subseteq Handles /\ HandlesDealloc({o}, {}) /\ UNCHANGED nulls
    BY <1>10 DEF HandleDealloc
  <2>2. QED
    BY <2>1, <1>9
<1>11. CASE SftpDealloc(t)
  <2> DEFINE S == {h \in Members(o, Handles) : h \notin user /\ \A u \in Threads : h \notin Held(u)}
  <2>1. S \subseteq Handles /\ HandlesDealloc(S, {o}) /\ UNCHANGED nulls
    BY <1>11 DEF SftpDealloc, Members
  <2> HIDE DEF S
  <2>2. QED
    BY <2>1, <1>9
<1>12. CASE UNCHANGED logVars
  BY <1>12, StaleSame
<1>15. QED
  BY <1>1, <1>2, <1>3, <1>4, <1>5, <1>6, <1>7, <1>8, <1>10, <1>11, <1>12, <1>14 DEF Proceed, StartupEnd, OpenEnd,
     ShutdownNextLoop, ClosePopSftp, ClosePopListener, CloseNextLoop, DisconnectEnd, Leave, FinalPop, FinalEnd,
     DropShared, SftpDeallocOpen

LEMMA StaleStep ==
  ASSUME SerialInv, StaleInv, [Next]_vars
  PROVE  StaleInv'
BY StaleInvoke, StaleProceed, StaleSame DEF SerialInv, Next, vars, logVars

LEMMA StaleCorrect ==
  ASSUME OneThread
  PROVE  Spec => []StaleInv
<1>1. Init => StaleInv
  BY DEF Init, StaleInv, OnlyUnownedStale, OnlyUncheckedNulls
<1>2. SerialInv /\ StaleInv /\ [Next]_vars => StaleInv'
  BY StaleStep
<1>3. QED
  BY <1>1, <1>2, SerialCorrect, PTL DEF Spec

\* In whatever order one thread closes, drops and uses things, no channel the session opened, no
\* subsystem, file or directory is handed to libssh2 after its object has ended.
THEOREM OnlyUnownedStaleCorrect ==
  ASSUME OneThread
  PROVE  Spec => []OnlyUnownedStale
<1>1. StaleInv => OnlyUnownedStale
  BY DEF StaleInv
<1>2. QED
  BY <1>1, StaleCorrect, PTL

\* Nor is a NULL pointer, but by forward_cancel, accept, close_file and close_dir, which do not test theirs.
THEOREM OnlyUncheckedNullsCorrect ==
  ASSUME OneThread
  PROVE  Spec => []OnlyUncheckedNulls
<1>1. StaleInv => OnlyUncheckedNulls
  BY DEF StaleInv
<1>2. QED
  BY <1>1, StaleCorrect, PTL

\* After the disconnect of Session.close nothing that one thread opened is left open, and nothing live
\* but what libssh2 would not close.
THEOREM ClosedReleasesAllCorrect ==
  ASSUME OneThread
  PROVE  Spec => []ClosedReleasesAll
<1>1. SerialInv => ClosedReleasesAll
  <2> SUFFICES ASSUME SerialInv, conn = "down", NEW o \in Channels \cup Sftps \cup Handles
               PROVE  ~ptr[o] /\ (native[o] = "live" => o \in Failing)
    BY DEF ClosedReleasesAll
  <2>1. PICK t \in Threads : TRUE
    BY DEF OneThread
  <2>2. Drained(th[t]) /\ Matched(o)
    BY DEF SerialInv, ReachInv, MatchInv, Kept
  <2>3. QED
    BY <2>2 DEF Drained, Matched, Kept
<1>2. QED
  BY <1>1, SerialCorrect, PTL
=============================================================================
