--------------------------- MODULE LifetimeProofs ---------------------------
(* Theorems about the wrappers of Lifetime, for every set of threads and of     *)
(* objects: who owns a wrapper, that nothing is given back twice or deallocated *)
(* under an owner, and what the sets of the session and of its subsystems hold. *)
EXTENDS Lifetime, TLAPS

\* The kinds of wrappers, without their definitions.
LEMMA Subsets ==
  /\ Chans \subseteq Objects /\ Listeners \subseteq Objects /\ Sftps \subseteq Objects
  /\ Handles \subseteq Objects /\ Channels \subseteq Chans /\ Accepted \subseteq Chans
  /\ Files \subseteq Handles /\ Dirs \subseteq Handles
  /\ Chans \subseteq Freeable /\ Sftps \subseteq Freeable
BY DEF Objects, Chans, Handles, Freeable

LEMMA Disjoint ==
  /\ None \notin Objects
  /\ \A c \in Chans : c \notin Listeners \cup Sftps \cup Handles
  /\ \A l \in Listeners : l \notin Sftps \cup Handles
  /\ \A s \in Sftps : s \notin Handles
BY Kinds

USE Subsets, Disjoint

-----------------------------------------------------------------------------
(* Frames *)

Good(r) == r \in ThreadState /\ Shape(r)

LEMMA IdleGood == Good(Idle)
BY DEF Good, Shape, ThreadState, Idle, InSession, Frame, Running, Windows, Loops

LEMMA InSessionGood ==
  ASSUME NEW p \in {"sess", "startup", "open", "scp", "listen", "disconnect"},
         NEW e \in {"self", "final"} \cup Loops
  PROVE  Good(InSession(p, e))
BY DEF Good, Shape, ThreadState, InSession, Frame, Running, Windows, Loops

LEMMA InShutdownGood ==
  ASSUME NEW r \in ThreadState, NEW s \in Sftps, NEW l \in {"dirs", "files"}
  PROVE  Good(InShutdown(r, s, l))
BY DEF Good, Shape, ThreadState, InShutdown, Frame, Running, Windows, Loops

LEMMA DroppingSftpGood ==
  ASSUME NEW r \in ThreadState, NEW s \in Sftps
  PROVE  Good(DroppingSftp(r, s))
BY DEF Good, Shape, ThreadState, DroppingSftp, Frame, Running, Windows, Loops

LEMMA GivingGood ==
  ASSUME NEW r \in ThreadState, NEW o \in Objects, NEW a \in BOOLEAN,
         NEW p \in {"use", "drop", "accept", "openfile", "opendir", "chclose", "hclose", "lcancel"},
         r.loop # "no" => r.sftp \in Sftps,
         o \in Sftps => r.sftp = None,
         p = "chclose" => o \in Chans,
         p \in {"lcancel", "accept"} => o \in Listeners,
         p = "hclose" => o \in Handles,
         p \in {"openfile", "opendir"} => o \in Sftps
  PROVE  Good(Giving(r, o, p, a))
BY DEF Good, Shape, ThreadState, Giving, Frame, Running, Windows, Loops

LEMMA AfterGood ==
  ASSUME NEW r, Good(r)
  PROVE  Good(After(r))
<1>1. CASE r.sftp # None /\ r.loop # "no"
  BY <1>1, InShutdownGood DEF After, Good, Shape, ThreadState
<1>2. CASE r.sftp # None /\ r.loop = "no"
  BY <1>2, DroppingSftpGood DEF After, Good, Shape, ThreadState
<1>3. CASE r.sftp = None /\ r.sess # "no"
  BY <1>3, InSessionGood DEF After, Good, ThreadState
<1>4. CASE r.sftp = None /\ r.sess = "no"
  BY <1>4, IdleGood DEF After
<1>5. QED
  BY <1>1, <1>2, <1>3, <1>4

LEMMA SetGood ==
  ASSUME ThreadsOK, NEW t \in Threads, NEW r, Good(r), Set(t, r)
  PROVE  ThreadsOK'
BY DEF ThreadsOK, Set, Good

\* A thread's own frame, by where it is.
LEMMA OwnFrame ==
  ASSUME ThreadsOK, NEW t \in Threads
  PROVE  /\ Good(th[t])
         /\ th[t].pc = "chclose" => th[t].obj \in Chans
         /\ th[t].pc \in {"lcancel", "accept"} => th[t].obj \in Listeners
         /\ th[t].pc = "hclose" => th[t].obj \in Handles
         /\ th[t].pc \in {"openfile", "opendir"} => th[t].obj \in Sftps
         /\ th[t].pc \in {"use", "drop"} => th[t].obj \in Objects
         /\ th[t].pc = "shut" => th[t].sftp \in Sftps
         /\ th[t].loop # "no" => th[t].sftp \in Sftps
         /\ th[t].obj \in Sftps => th[t].sftp = None
         /\ th[t].pc = "sess" => th[t].obj = None /\ th[t].sftp = None /\ th[t].loop = "no"
         /\ th[t] \in ThreadState
BY DEF ThreadsOK, Good, Shape

-----------------------------------------------------------------------------
(* Type correctness *)

LEMMA ThreadsStep == TypeOK /\ [Next]_vars => ThreadsOK'
<1> SUFFICES ASSUME ThreadsOK, DataOK, [Next]_vars PROVE ThreadsOK'
  BY DEF TypeOK
<1>1. CASE UNCHANGED vars
  BY <1>1 DEF vars, ThreadsOK
<1>2. ASSUME NEW t \in Threads, Invoke(t) PROVE ThreadsOK'
  <2> USE IdleGood
  <2>i. Idle \in ThreadState /\ Idle.loop = "no" /\ Idle.sftp = None
    BY DEF Good, Idle, InSession, Frame
  <2>s. InSession("idle", "self") \in ThreadState
    BY DEF ThreadState, InSession, Frame, Running, Windows, Loops
  <2>f. \A s \in Sftps : LET r == Frame("idle", None, s, "no", "no", FALSE) IN r \in ThreadState /\ r.loop = "no"
    BY DEF ThreadState, Frame
  <2>p. \A o \in Objects : ptr[o] \in BOOLEAN
    BY DEF DataOK
  <2>1. CASE StartupBegin(t)
    BY <2>1, InSessionGood, SetGood DEF StartupBegin
  <2>2. CASE OpenLocked(t)
    BY <2>2 DEF OpenLocked, ThreadsOK
  <2>3. CASE SessionClose(t)
    BY <2>3, InSessionGood, SetGood DEF SessionClose, Loops
  <2>4. CASE UserDropSession(t)
    BY <2>4, InSessionGood, SetGood DEF UserDropSession
  <2>5. ASSUME NEW call \in {"open", "scp", "listen"}, OpenBegin(t, call) PROVE ThreadsOK'
    BY <2>5, InSessionGood, SetGood DEF OpenBegin
  <2>6. ASSUME NEW o \in Chans \cup Sftps \cup Handles, UseBegin(t, o) PROVE ThreadsOK'
    BY <2>6, <2>i, GivingGood, SetGood DEF UseBegin
  <2>7. ASSUME NEW l \in Listeners, AcceptBegin(t, l) PROVE ThreadsOK'
    BY <2>7, <2>i, <2>p, GivingGood, SetGood DEF AcceptBegin
  <2>8. ASSUME NEW l \in Listeners, ForwardCancel(t, l) PROVE ThreadsOK'
    BY <2>8, <2>s, <2>p, GivingGood, SetGood DEF ForwardCancel, EnterDestroy, InSession, Frame
  <2>9. ASSUME NEW c \in Chans, ChannelClose(t, c) PROVE ThreadsOK'
    BY <2>9, <2>s, GivingGood, SetGood DEF ChannelClose, EnterChannelClose, Dropping, InSession, Frame
  <2>10. ASSUME NEW s \in Sftps, SftpShutdown(t, s) PROVE ThreadsOK'
    BY <2>10, <2>s, InShutdownGood, DroppingSftpGood, SetGood DEF SftpShutdown, EnterShutdown
  <2>11. ASSUME NEW s \in Sftps, NEW call \in {"openfile", "opendir"}, OpenHandleBegin(t, s, call) PROVE ThreadsOK'
    BY <2>11, <2>i, GivingGood, SetGood DEF OpenHandleBegin
  <2>12. ASSUME NEW s \in Sftps, NEW h \in Handles, CloseHandle(t, s, h) PROVE ThreadsOK'
    BY <2>12, <2>f, <2>p, GivingGood, SetGood DEF CloseHandle, EnterDestroy
  <2>13. ASSUME NEW o \in Objects, UserDrop(t, o) PROVE ThreadsOK'
    BY <2>13, <2>i, GivingGood, SetGood DEF UserDrop, Dropping
  <2>14. QED
    BY <1>2, <2>1, <2>2, <2>3, <2>4, <2>5, <2>6, <2>7, <2>8, <2>9, <2>10, <2>11, <2>12, <2>13 DEF Invoke
<1>3. ASSUME NEW t \in Threads, Proceed(t) PROVE ThreadsOK'
  <2> USE OwnFrame DEF In, InLoop
  <2>a. Good(After(th[t]))
    BY AfterGood
  <2>p. \A o \in Objects : ptr[o] \in BOOLEAN
    BY DEF DataOK
  <2>d. th[t].obj \in Objects => Good(Dropping(th[t], th[t].obj))
    BY GivingGood DEF Dropping
  <2>1. CASE StartupEnd(t)
    BY <2>1, <2>a, SetGood DEF StartupEnd
  <2>2. CASE OpenEnd(t)
    BY <2>2, <2>a, SetGood DEF OpenEnd
  <2>3. CASE UseEnd(t)
    BY <2>3, <2>d, SetGood DEF UseEnd
  <2>4. CASE AcceptEnd(t)
    BY <2>4, <2>d, SetGood DEF AcceptEnd
  <2>5. CASE OpenHandleEnd(t)
    BY <2>5, <2>d, SetGood DEF OpenHandleEnd
  <2>6. CASE ChannelCloseEnd(t)
    BY <2>6, <2>d, SetGood DEF ChannelCloseEnd
  <2>7. CASE DestroyEnd(t)
    BY <2>7, <2>d, SetGood DEF DestroyEnd
  <2>8. CASE ShutdownPop(t)
    <3>1. PICK h \in Members(th[t].sftp, Serves(th[t].loop)) : EnterDestroy(t, th[t], h)
      BY <2>8 DEF ShutdownPop
    <3>2. h \in Handles
      BY <3>1 DEF Members, Serves
    <3>3. QED
      BY <2>8, <2>p, <3>1, <3>2, GivingGood, SetGood DEF ShutdownPop, EnterDestroy
  <2>9. CASE ShutdownNextLoop(t)
    BY <2>9, InShutdownGood, SetGood DEF ShutdownNextLoop
  <2>10. CASE ShutdownEnd(t)
    BY <2>10, DroppingSftpGood, SetGood DEF ShutdownEnd
  <2>11. CASE ClosePopSftp(t)
    BY <2>11, InShutdownGood, DroppingSftpGood, SetGood DEF ClosePopSftp, EnterShutdown
  <2>12. CASE ClosePopChannel(t)
    BY <2>12, GivingGood, SetGood DEF ClosePopChannel, EnterChannelClose, Dropping
  <2>13. CASE ClosePopListener(t)
    BY <2>13, GivingGood, SetGood DEF ClosePopListener, Dropping
  <2>14. CASE CloseNextLoop(t)
    BY <2>14, InSessionGood, SetGood DEF CloseNextLoop, Loops
  <2>15. CASE DisconnectEnd(t)
    BY <2>15, InSessionGood, SetGood DEF DisconnectEnd, SessionFree
  <2>16. CASE Leave(t)
    BY <2>16, IdleGood, InSessionGood, SetGood DEF Leave, SessionFree, Loops
  <2>17. CASE FinalPop(t)
    <3>1. PICK o \in Objects : Set(t, Dropping(th[t], o))
      BY <2>17 DEF FinalPop, Children, DataOK
    <3>2. QED
      BY <2>17, <3>1, GivingGood, SetGood DEF FinalPop, Dropping
  <2>18. CASE FinalEnd(t)
    BY <2>18, IdleGood, SetGood DEF FinalEnd
  <2>19. CASE DropShared(t)
    BY <2>19, <2>a, SetGood DEF DropShared
  <2>20. CASE ChannelDealloc(t)
    BY <2>20, <2>a, GivingGood, SetGood DEF ChannelDealloc, Last, EnterChannelClose, Dropping
  <2>21. CASE ListenerDealloc(t)
    BY <2>21, <2>a, <2>p, GivingGood, SetGood DEF ListenerDealloc, Last, EnterDestroy
  <2>22. CASE HandleDealloc(t)
    BY <2>22, <2>a, SetGood DEF HandleDealloc
  <2>23. CASE SftpDeallocOpen(t)
    BY <2>23, InShutdownGood, SetGood DEF SftpDeallocOpen, Last, EnterShutdown
  <2>24. CASE SftpDealloc(t)
    BY <2>24, <2>a, SetGood DEF SftpDealloc
  <2>25. CASE UseAgain(t)
    BY <2>25 DEF UseAgain, ThreadsOK
  <2>26. QED
    BY <1>3, <2>25, <2>1, <2>2, <2>3, <2>4, <2>5, <2>6, <2>7, <2>8, <2>9, <2>10, <2>11, <2>12, <2>13, <2>14, <2>15,
       <2>16, <2>17, <2>18, <2>19, <2>20, <2>21, <2>22, <2>23, <2>24 DEF Proceed
<1>4. QED
  BY <1>1, <1>2, <1>3 DEF Next

LEMMA NewType ==
  ASSUME DataOK, NEW o \in Objects, New(o)
  PROVE  /\ py' \in [Objects -> {"none", "alive", "gone", "leaked"}] /\ ptr' \in [Objects -> BOOLEAN]
         /\ native' \in [Objects -> {"none", "live", "dead"}] /\ user' \subseteq Objects
BY DEF New, DataOK

LEMMA CallType ==
  ASSUME DataOK, NEW o \in Objects, Call(o)
  PROVE  stale' \subseteq Objects /\ nulls' \subseteq Objects
BY DEF Call, DeadOnes, DataOK

LEMMA FreedType ==
  ASSUME DataOK, NEW o \in Freeable, CountFree(o)
  PROVE  freed' \in [Freeable -> Nat]
<1>1. freed \in [Freeable -> Nat] /\ freed[o] + 1 \in Nat
  BY DEF DataOK
<1>2. QED
  BY <1>1 DEF CountFree

LEMMA SessionFreeType ==
  ASSUME DataOK, NEW t, SessionFree(t)
  PROVE  life' = "freed" /\ native' \in [Objects -> {"none", "live", "dead"}]
BY DEF SessionFree, DataOK

LEMMA DataStep == TypeOK /\ [Next]_vars => DataOK'
<1> SUFFICES ASSUME ThreadsOK, DataOK, [Next]_vars PROVE DataOK'
  BY DEF TypeOK
<1> USE DEF DataOK, sessVars, objVars, refVars, logVars
<1>1. CASE UNCHANGED vars
  BY <1>1 DEF vars
<1>2. ASSUME NEW t \in Threads, Invoke(t) PROVE DataOK'
  <2>1. CASE StartupBegin(t) \/ SessionClose(t) \/ \E call \in {"open", "scp", "listen"} : OpenBegin(t, call)
    BY <2>1 DEF StartupBegin, SessionClose, OpenBegin
  <2>2. CASE OpenLocked(t)
    BY <2>2 DEF OpenLocked, New
  <2>3. CASE UserDropSession(t)
    BY <2>3 DEF UserDropSession
  <2>4. ASSUME NEW o \in Chans \cup Sftps \cup Handles, UseBegin(t, o) PROVE DataOK'
    BY <2>4 DEF UseBegin, Call, DeadOnes
  <2>5. ASSUME NEW l \in Listeners, AcceptBegin(t, l) PROVE DataOK'
    BY <2>5 DEF AcceptBegin, Call, DeadOnes
  <2>6. ASSUME NEW l \in Listeners, ForwardCancel(t, l) PROVE DataOK'
    BY <2>6 DEF ForwardCancel, EnterDestroy, Call, DeadOnes
  <2>7. ASSUME NEW c \in Chans, ChannelClose(t, c) PROVE DataOK'
    BY <2>7 DEF ChannelClose, EnterChannelClose, Call, DeadOnes
  <2>8. ASSUME NEW s \in Sftps, SftpShutdown(t, s) PROVE DataOK'
    BY <2>8 DEF SftpShutdown
  <2>9. ASSUME NEW s \in Sftps, NEW call \in {"openfile", "opendir"}, OpenHandleBegin(t, s, call) PROVE DataOK'
    BY <2>9 DEF OpenHandleBegin, Call, DeadOnes
  <2>10. ASSUME NEW s \in Sftps, NEW h \in Handles, CloseHandle(t, s, h) PROVE DataOK'
    BY <2>10 DEF CloseHandle, EnterDestroy, Call, DeadOnes
  <2>11. ASSUME NEW o \in Objects, UserDrop(t, o) PROVE DataOK'
    BY <2>11 DEF UserDrop
  <2>12. QED
    BY <1>2, <2>1, <2>2, <2>3, <2>4, <2>5, <2>6, <2>7, <2>8, <2>9, <2>10, <2>11 DEF Invoke
<1>3. ASSUME NEW t \in Threads, Proceed(t) PROVE DataOK'
  <2> USE OwnFrame DEF In, InLoop
  <2>1. CASE StartupEnd(t)
    BY <2>1 DEF StartupEnd
  <2>2. CASE OpenEnd(t)
    <3>1. CASE \E o \in Objects : New(o) /\ reg' = reg \cup {o}
             /\ pinned' \in {pinned, pinned \cup {o}} /\ UNCHANGED home
      BY <2>2, <3>1, NewType DEF OpenEnd
    <3>2. CASE UNCHANGED <<objVars, refVars>>
      BY <2>2, <3>2 DEF OpenEnd
    <3>3. QED
      BY <2>2, <3>1, <3>2 DEF OpenEnd
  <2>3. CASE UseEnd(t)
    BY <2>3 DEF UseEnd, DeadOnes
  <2>4. CASE AcceptEnd(t)
    <3>1. CASE \E a \in Accepted : New(a) /\ UNCHANGED <<home, reg, pinned>>
      BY <2>4, <3>1, NewType DEF AcceptEnd, DeadOnes
    <3>2. CASE UNCHANGED <<objVars, refVars>>
      BY <2>4, <3>2 DEF AcceptEnd, DeadOnes
    <3>3. QED
      BY <2>4, <3>1, <3>2 DEF AcceptEnd
  <2>5. CASE OpenHandleEnd(t)
    <3> DEFINE s == th[t].obj
    <3>0. s \in Sftps
      BY <2>5 DEF OpenHandleEnd
    <3>1. CASE \E h \in Handles : New(h) /\ home' = [home EXCEPT ![h] = s] /\ reg' = reg \cup {h} /\ UNCHANGED pinned
      BY <2>5, <3>0, <3>1, NewType DEF OpenHandleEnd, DeadOnes
    <3>2. CASE UNCHANGED <<objVars, refVars>>
      BY <2>5, <3>0, <3>2 DEF OpenHandleEnd, DeadOnes
    <3>3. QED
      BY <2>5, <3>1, <3>2 DEF OpenHandleEnd
  <2>6. CASE ChannelCloseEnd(t)
    <3>1. CASE ptr[th[t].obj]
      <4>1. native' \in [Objects -> {"none", "live", "dead"}]
        BY <2>6, <3>1 DEF ChannelCloseEnd, Ends
      <4>2. ptr' \in [Objects -> BOOLEAN]
        BY <2>6, <3>1 DEF ChannelCloseEnd
      <4>3. stale' \subseteq Objects
        BY <2>6, <3>1 DEF ChannelCloseEnd, DeadOnes
      <4>4. nulls' \subseteq Objects
        BY <2>6, <3>1 DEF ChannelCloseEnd
      <4>5. CountFree(th[t].obj)
        BY <2>6, <3>1 DEF ChannelCloseEnd
      <4>6. freed' \in [Freeable -> Nat]
        BY <2>6, <4>5, FreedType DEF ChannelCloseEnd
      <4>7. UNCHANGED <<sessVars, py, home, refVars>>
        BY <2>6 DEF ChannelCloseEnd
      <4>8. QED
        BY <4>1, <4>2, <4>3, <4>4, <4>6, <4>7
    <3>2. CASE ~ptr[th[t].obj]
      BY <2>6, <3>2 DEF ChannelCloseEnd, DeadOnes
    <3>3. QED
      BY <3>1, <3>2
  <2>7. CASE DestroyEnd(t)
    BY <2>7 DEF DestroyEnd, DeadOnes, Ends
  <2>8. CASE ShutdownPop(t)
    BY <2>8 DEF ShutdownPop, Members, EnterDestroy, Call, DeadOnes
  <2>9. CASE ShutdownEnd(t)
    <3>1. stale' \subseteq Objects /\ nulls' \subseteq Objects
      BY <2>9, CallType DEF ShutdownEnd
    <3>2. CASE ptr[th[t].sftp]
      <4>1. native' \in [Objects -> {"none", "live", "dead"}]
        BY <2>9, <3>2 DEF ShutdownEnd
      <4>2. ptr' \in [Objects -> BOOLEAN]
        BY <2>9, <3>2 DEF ShutdownEnd
      <4>3. CountFree(th[t].sftp)
        BY <2>9, <3>2 DEF ShutdownEnd
      <4>4. freed' \in [Freeable -> Nat]
        BY <2>9, <4>3, FreedType DEF ShutdownEnd
      <4>5. UNCHANGED <<sessVars, py, home, refVars>>
        BY <2>9 DEF ShutdownEnd
      <4>6. QED
        BY <3>1, <4>1, <4>2, <4>4, <4>5
    <3>3. CASE ~ptr[th[t].sftp]
      BY <2>9, <3>1, <3>3 DEF ShutdownEnd
    <3>4. QED
      BY <3>2, <3>3
  <2>10. CASE ClosePopSftp(t) \/ ClosePopListener(t) \/ FinalPop(t)
    BY <2>10 DEF ClosePopSftp, ClosePopListener, FinalPop
  <2>11. CASE ClosePopChannel(t)
    <3>1. PICK c \in Channels : reg' = reg \ {c} /\ EnterChannelClose(t, th[t], c)
      BY <2>11 DEF ClosePopChannel
    <3>2. stale' \subseteq Objects /\ nulls' \subseteq Objects
      BY <3>1, CallType DEF EnterChannelClose
    <3>3. QED
      BY <2>11, <3>1, <3>2 DEF ClosePopChannel
  <2>12. CASE ShutdownNextLoop(t) \/ CloseNextLoop(t) \/ DropShared(t) \/ SftpDeallocOpen(t)
    BY <2>12 DEF ShutdownNextLoop, CloseNextLoop, DropShared, SftpDeallocOpen
  <2>13. CASE DisconnectEnd(t)
    BY <2>13, SessionFreeType DEF DisconnectEnd
  <2>14. CASE Leave(t)
    BY <2>14, SessionFreeType DEF Leave
  <2>15. CASE FinalEnd(t)
    BY <2>15 DEF FinalEnd
  <2>16. CASE ChannelDealloc(t)
    <3>1. stale' \subseteq Objects /\ nulls' \subseteq Objects
      BY <2>16, CallType DEF ChannelDealloc, Last, EnterChannelClose
    <3>2. QED
      BY <2>16, <3>1 DEF ChannelDealloc, Last
  <2>17. CASE ListenerDealloc(t)
    BY <2>17 DEF ListenerDealloc, Last, EnterDestroy, Call, DeadOnes
  <2>18. CASE HandleDealloc(t)
    BY <2>18 DEF HandleDealloc, Last, HandlesDealloc, DeadOnes
  <2>19. CASE SftpDealloc(t)
    BY <2>19 DEF SftpDealloc, Last, HandlesDealloc, Members, DeadOnes
  <2>20. CASE UseAgain(t)
    BY <2>20 DEF UseAgain, DeadOnes
  <2>21. QED
    BY <1>3, <2>1, <2>2, <2>3, <2>4, <2>5, <2>6, <2>7, <2>8, <2>9, <2>10, <2>11, <2>12, <2>13, <2>14, <2>15,
       <2>16, <2>17, <2>18, <2>19, <2>20 DEF Proceed
<1>4. QED
  BY <1>1, <1>2, <1>3 DEF Next

\* The values the wrappers and the threads can take.
THEOREM TypeCorrect == Spec => []TypeOK
<1>1. Init => TypeOK
  <2>1. Init => ThreadsOK
    BY IdleGood DEF Init, ThreadsOK, Good
  <2>2. Init => DataOK
    <3>1. [o \in Freeable |-> 0] \in [Freeable -> Nat]
      OBVIOUS
    <3>2. QED
      BY <3>1 DEF Init, DataOK
  <2>3. QED
    BY <2>1, <2>2 DEF TypeOK
<1>2. TypeOK /\ [Next]_vars => TypeOK'
  BY ThreadsStep, DataStep DEF TypeOK
<1>3. QED
  BY <1>1, <1>2, PTL DEF Spec

-----------------------------------------------------------------------------
(* No native object is given back twice *)

\* The three things a step can do to pointers: open one, give one back, or clear some.
Opens  == UNCHANGED freed /\ \E o \in Objects : New(o)
Frees  == UNCHANGED py /\ \E o \in Freeable : ptr[o] /\ CountFree(o) /\ ptr' = [ptr EXCEPT ![o] = FALSE]
Clears == UNCHANGED freed /\ \A o \in Objects : (ptr'[o] => ptr[o]) /\ (py'[o] = "none" => py[o] = "none")

LEMMA HandlesDeallocClears ==
  ASSUME DataOK, NEW S, NEW G, HandlesDealloc(S, G), UNCHANGED freed
  PROVE  Clears
BY DEF HandlesDealloc, Clears, DataOK

LEMMA DropClears ==
  ASSUME DataOK, NEW o \in Objects, UNCHANGED <<ptr, freed>>,
         py' = py \/ py' = [py EXCEPT ![o] = "gone"]
  PROVE  Clears
BY DEF Clears, DataOK

LEMMA PointerStep ==
  ASSUME TypeOK, [Next]_vars
  PROVE  Opens \/ Frees \/ Clears
<1> USE DEF TypeOK, objVars, logVars
<1>c. ASSUME UNCHANGED <<py, ptr, freed>> PROVE Clears
  BY <1>c DEF Clears
<1>1. CASE UNCHANGED vars
  BY <1>1, <1>c DEF vars
<1>2. ASSUME NEW t \in Threads, Invoke(t) PROVE Opens \/ Clears
  <2>1. CASE OpenLocked(t)
    BY <2>1 DEF OpenLocked, Opens
  <2>2. CASE ~OpenLocked(t)
    <3>1. UNCHANGED <<py, ptr, freed>>
      BY <1>2, <2>2 DEF Invoke, StartupBegin, SessionClose, UserDropSession, OpenBegin, UseBegin, AcceptBegin,
         ForwardCancel, ChannelClose, SftpShutdown, OpenHandleBegin, CloseHandle, UserDrop
    <3>2. QED
      BY <3>1, <1>c
  <2>3. QED
    BY <2>1, <2>2
<1>3. ASSUME NEW t \in Threads, Proceed(t) PROVE Opens \/ Frees \/ Clears
  <2> USE OwnFrame DEF In
  <2>1. CASE OpenEnd(t)
    BY <2>1, <1>c DEF OpenEnd, Opens
  <2>2. CASE AcceptEnd(t)
    BY <2>2, <1>c DEF AcceptEnd, Opens
  <2>3. CASE OpenHandleEnd(t)
    BY <2>3, <1>c DEF OpenHandleEnd, Opens
  <2>4. CASE ChannelCloseEnd(t)
    BY <2>4, <1>c DEF ChannelCloseEnd, Frees
  <2>5. CASE DestroyEnd(t)
    BY <2>5 DEF DestroyEnd, Clears, DataOK
  <2>6. CASE ShutdownEnd(t)
    <3>1. CASE ptr[th[t].sftp]
      BY <2>6, <3>1 DEF ShutdownEnd, Frees
    <3>2. CASE ~ptr[th[t].sftp]
      BY <2>6, <3>2, <1>c DEF ShutdownEnd
    <3>3. QED
      BY <3>1, <3>2
  <2>7. CASE ChannelDealloc(t)
    BY <2>7, DropClears DEF ChannelDealloc, Last
  <2>8. CASE ListenerDealloc(t)
    BY <2>8, DropClears DEF ListenerDealloc, Last
  <2>9. CASE HandleDealloc(t)
    BY <2>9, HandlesDeallocClears DEF HandleDealloc
  <2>10. CASE SftpDealloc(t)
    BY <2>10, HandlesDeallocClears DEF SftpDealloc
  <2>11. CASE StartupEnd(t) \/ UseAgain(t) \/ UseEnd(t) \/ ShutdownPop(t) \/ ShutdownNextLoop(t) \/ ClosePopSftp(t)
              \/ ClosePopChannel(t) \/ ClosePopListener(t) \/ CloseNextLoop(t) \/ DisconnectEnd(t) \/ Leave(t)
              \/ FinalPop(t) \/ FinalEnd(t) \/ DropShared(t) \/ SftpDeallocOpen(t)
    <3>1. UNCHANGED <<py, ptr, freed>>
      BY <2>11 DEF StartupEnd, UseAgain, UseEnd, ShutdownPop, ShutdownNextLoop, ClosePopSftp, ClosePopChannel,
         ClosePopListener, CloseNextLoop, DisconnectEnd, Leave, FinalPop, FinalEnd, DropShared, SftpDeallocOpen
    <3>2. QED
      BY <3>1, <1>c
  <2>12. QED
    BY <1>3, <2>1, <2>2, <2>3, <2>4, <2>5, <2>6, <2>7, <2>8, <2>9, <2>10, <2>11 DEF Proceed
<1>4. QED
  BY <1>1, <1>2, <1>3 DEF Next

\* What makes it inductive: an open pointer was never given back.
FreeInv == \A o \in Freeable : /\ freed[o] \in {0, 1}
                               /\ ptr[o] => freed[o] = 0
                               /\ py[o] = "none" => ~ptr[o] /\ freed[o] = 0

LEMMA FreeStep ==
  ASSUME TypeOK, FreeInv, [Next]_vars
  PROVE  FreeInv'
<1> Freeable \subseteq Objects
  BY DEF Freeable
<1> USE DEF FreeInv
<1>1. CASE Opens
  BY <1>1 DEF Opens, New, TypeOK, DataOK
<1>2. CASE Frees
  <2>1. PICK o \in Freeable : ptr[o] /\ CountFree(o) /\ ptr' = [ptr EXCEPT ![o] = FALSE] /\ UNCHANGED py
    BY <1>2 DEF Frees
  <2>2. freed[o] = 0
    BY <2>1
  <2>3. freed' = [freed EXCEPT ![o] = 1]
    BY <2>1, <2>2 DEF CountFree
  <2>4. QED
    BY <2>1, <2>3 DEF TypeOK, DataOK
<1>3. CASE Clears
  BY <1>3 DEF Clears
<1>4. QED
  BY <1>1, <1>2, <1>3, PointerStep

\* Channel_close and Sftp_shutdown pass a native object to its destructor once, however many
\* threads close, drop or shut down its wrapper at the same time.
THEOREM FreedOnceCorrect == Spec => []FreedOnce
<1>1. Init => FreeInv
  BY DEF Init, FreeInv, Freeable
<1>2. TypeOK /\ FreeInv /\ [Next]_vars => FreeInv'
  BY FreeStep
<1>3. FreeInv => FreedOnce
  BY DEF FreeInv, FreedOnce
<1>4. QED
  BY <1>1, <1>2, <1>3, TypeCorrect, PTL DEF Spec

-----------------------------------------------------------------------------
(* No wrapper is deallocated under an owner *)

Refs == reg \cup user \cup pinned

\* What makes it inductive: whatever owns a wrapper, the wrapper is alive; and nothing but the
\* channels of scp_recv is pinned.
AliveInv ==
  /\ pinned \subseteq Channels
  /\ \A o \in Objects : o \in Refs => py[o] = "alive"
  /\ \A t \in Threads : \A o \in Objects : o \in Held(t) => py[o] = "alive"

LEMMA HeldByAfter ==
  ASSUME NEW r
  PROVE  After(r).obj \in {r.sftp, None} /\ After(r).sftp \in {r.sftp, None}
BY DEF After, InShutdown, DroppingSftp, Idle, InSession, Frame

LEMMA HeldByFrames ==
  /\ \A p, e : InSession(p, e).obj = None /\ InSession(p, e).sftp = None
  /\ \A r, s, l : InShutdown(r, s, l).obj = None /\ InShutdown(r, s, l).sftp = s
  /\ \A r, o, p, a : Giving(r, o, p, a).obj = o /\ Giving(r, o, p, a).sftp = r.sftp
  /\ \A r, s : DroppingSftp(r, s).obj = s /\ DroppingSftp(r, s).sftp = None
  /\ Idle.obj = None /\ Idle.sftp = None
  /\ \A s : Frame("idle", None, s, "no", "no", FALSE).sftp = s
BY DEF InSession, InShutdown, Giving, DroppingSftp, Idle, Frame

\* A step that deallocates nothing: the new frame and the new owners own what is alive.
LEMMA AliveKeep ==
  ASSUME TypeOK, AliveInv, NEW t \in Threads, NEW r, Set(t, r), pinned' \subseteq Channels,
         \A o \in Objects : py[o] = "alive" => py'[o] = "alive",
         r.obj \in Objects => py'[r.obj] = "alive",
         r.sftp \in Objects => py'[r.sftp] = "alive",
         \A o \in Objects : o \in Refs' => o \in Refs \/ py'[o] = "alive"
  PROVE  AliveInv'
<1>1. \A u \in Threads \ {t} : th'[u] = th[u]
  BY DEF Set, TypeOK, ThreadsOK
<1>2. th'[t] = r
  BY DEF Set, TypeOK, ThreadsOK
<1>3. ASSUME NEW u \in Threads, NEW o \in Objects, o \in Held(u)' PROVE py'[o] = "alive"
  BY <1>1, <1>2, <1>3 DEF Held, AliveInv
<1>4. QED
  BY <1>3 DEF AliveInv

\* A step that deallocates the wrappers D: nothing owns them any more.
LEMMA AliveDrop ==
  ASSUME TypeOK, AliveInv, NEW t \in Threads, NEW r, Set(t, r), NEW D,
         reg' \subseteq reg, UNCHANGED <<user, pinned>>,
         \A o \in Objects \ D : py'[o] = py[o],
         \A o \in D : o \notin Refs',
         \A o \in D : \A u \in Threads \ {t} : o \notin Held(u),
         r.obj \notin D, r.sftp \notin D,
         r.obj \in Held(t) \cup {None}, r.sftp \in Held(t) \cup {None}
  PROVE  AliveInv'
<1>1. \A u \in Threads \ {t} : th'[u] = th[u]
  BY DEF Set, TypeOK, ThreadsOK
<1>2. th'[t] = r
  BY DEF Set, TypeOK, ThreadsOK
<1>3. ASSUME NEW u \in Threads, NEW o \in Objects, o \in Held(u)' PROVE py'[o] = "alive"
  <2>1. CASE u = t
    BY <1>2, <1>3, <2>1 DEF Held, AliveInv
  <2>2. CASE u # t
    BY <1>1, <1>3, <2>2 DEF Held, AliveInv
  <2>3. QED
    BY <2>1, <2>2
<1>4. ASSUME NEW o \in Objects, o \in Refs' PROVE py'[o] = "alive"
  BY <1>4 DEF Refs, AliveInv
<1>5. QED
  BY <1>3, <1>4 DEF AliveInv

\* The case of one wrapper, the one the frame of t held.
LEMMA DropOne ==
  ASSUME TypeOK, AliveInv, NEW t \in Threads, NEW r, Set(t, r), NEW o,
         UNCHANGED refVars, \A x \in Objects \ {o} : py'[x] = py[x],
         o \notin Refs, \A u \in Threads \ {t} : o \notin Held(u),
         r.obj # o, r.sftp # o, r.obj \in Held(t) \cup {None}, r.sftp \in Held(t) \cup {None}
  PROVE  AliveInv'
<1> DEFINE D == {o}
<1>1. /\ \A x \in Objects \ D : py'[x] = py[x]
      /\ \A x \in D : x \notin Refs' /\ \A u \in Threads \ {t} : x \notin Held(u)
      /\ r.obj \notin D /\ r.sftp \notin D
  BY DEF Refs, refVars
<1>2. reg' \subseteq reg /\ UNCHANGED <<user, pinned>>
  BY DEF refVars
<1> HIDE DEF D
<1>3. QED
  BY <1>1, <1>2, AliveDrop

LEMMA DroppingHeld ==
  ASSUME NEW r, NEW o
  PROVE  Dropping(r, o).obj = o /\ Dropping(r, o).sftp = r.sftp
BY DEF Dropping, Giving, Frame

LEMMA EnterChannelCloseFrame ==
  ASSUME NEW t, NEW q, NEW c, EnterChannelClose(t, q, c)
  PROVE  \E r : Set(t, r) /\ r.obj = c /\ r.sftp = q.sftp
<1>1. CASE ptr[c]
  <2> DEFINE f == Giving(q, c, "chclose", TRUE)
  <2>1. f.obj = c /\ f.sftp = q.sftp
    BY DEF Giving, Frame
  <2>2. Set(t, f)
    BY <1>1 DEF EnterChannelClose
  <2> HIDE DEF f
  <2>3. QED
    BY <2>1, <2>2
<1>2. CASE ~ptr[c]
  BY <1>2, DroppingHeld DEF EnterChannelClose
<1>3. QED
  BY <1>1, <1>2

LEMMA NewAlive ==
  ASSUME TypeOK, NEW x \in Objects, New(x)
  PROVE  py'[x] = "alive" /\ \A o \in Objects : py[o] = "alive" => py'[o] = "alive"
BY DEF New, TypeOK, DataOK

LEMMA AliveInvoke ==
  ASSUME TypeOK, AliveInv, NEW t \in Threads, Invoke(t)
  PROVE  AliveInv'
<1> USE HeldByFrames DEF refVars, objVars, Refs
<1>a. pinned \subseteq Channels /\ \A o \in Objects : o \in user => py[o] = "alive"
  BY DEF AliveInv
<1>1. CASE StartupBegin(t)
  BY <1>1, <1>a, AliveKeep DEF StartupBegin
<1>2. CASE OpenLocked(t)
  <2>1. PICK x \in Channels \cup Sftps : New(x) /\ reg' = reg \cup {x}
    BY <1>2 DEF OpenLocked
  <2>2. py'[x] = "alive" /\ (\A o \in Objects : py[o] = "alive" => py'[o] = "alive") /\ user' = user \cup {x}
    BY <2>1, NewAlive DEF New
  <2>3. UNCHANGED <<th, pinned>>
    BY <1>2 DEF OpenLocked
  <2>4. QED
    BY <2>1, <2>2, <2>3 DEF AliveInv, Held
<1>3. CASE SessionClose(t)
  BY <1>3, <1>a, AliveKeep DEF SessionClose
<1>4. CASE UserDropSession(t)
  BY <1>4, <1>a, AliveKeep DEF UserDropSession
<1>5. ASSUME NEW call \in {"open", "scp", "listen"}, OpenBegin(t, call) PROVE AliveInv'
  BY <1>5, <1>a, AliveKeep DEF OpenBegin
<1>6. ASSUME NEW o \in Chans \cup Sftps \cup Handles, UseBegin(t, o) PROVE AliveInv'
  <2> DEFINE f == Giving(Idle, o, "use", TRUE)
  <2>1. f.obj = o /\ f.sftp = None
    BY DEF Giving, Idle, InSession, Frame
  <2>2. Set(t, f) /\ o \in user /\ UNCHANGED <<py, refVars>>
    BY <1>6 DEF UseBegin
  <2> HIDE DEF f
  <2>3. QED
    BY <1>a, <2>1, <2>2, AliveKeep
<1>7. ASSUME NEW l \in Listeners, AcceptBegin(t, l) PROVE AliveInv'
  BY <1>7, <1>a, AliveKeep DEF AcceptBegin
<1>8. ASSUME NEW l \in Listeners, ForwardCancel(t, l) PROVE AliveInv'
  BY <1>8, <1>a, AliveKeep DEF ForwardCancel, EnterDestroy
<1>9. ASSUME NEW c \in Chans, ChannelClose(t, c) PROVE AliveInv'
  <2> DEFINE f == InSession("idle", "self")
  <2>1. EnterChannelClose(t, f, c) /\ c \in user /\ UNCHANGED <<py, user, pinned>> /\ reg' \subseteq reg
    BY <1>9 DEF ChannelClose
  <2>2. f.sftp = None
    OBVIOUS
  <2> HIDE DEF f
  <2>3. PICK r : Set(t, r) /\ r.obj = c /\ r.sftp = None
    BY <2>1, <2>2, EnterChannelCloseFrame
  <2>4. QED
    BY <1>a, <2>1, <2>3, AliveKeep
<1>10. ASSUME NEW s \in Sftps, SftpShutdown(t, s) PROVE AliveInv'
  <2>1. \E r : Set(t, r) /\ r.obj \in {s, None} /\ r.sftp \in {s, None}
    BY <1>10 DEF SftpShutdown, EnterShutdown
  <2>2. QED
    BY <1>10, <1>a, <2>1, AliveKeep DEF SftpShutdown
<1>11. ASSUME NEW s \in Sftps, NEW call \in {"openfile", "opendir"}, OpenHandleBegin(t, s, call) PROVE AliveInv'
  <2> DEFINE f == Giving(Idle, s, call, TRUE)
  <2>1. f.obj = s /\ f.sftp = None
    BY DEF Giving, Idle, InSession, Frame
  <2>2. Set(t, f) /\ s \in user /\ UNCHANGED <<py, refVars>>
    BY <1>11 DEF OpenHandleBegin
  <2> HIDE DEF f
  <2>3. QED
    BY <1>a, <2>1, <2>2, AliveKeep
<1>12. ASSUME NEW s \in Sftps, NEW h \in Handles, CloseHandle(t, s, h) PROVE AliveInv'
  <2> DEFINE f == Frame("idle", None, s, "no", "no", FALSE)
  <2>f. f.sftp = s
    BY DEF Frame
  <2>e. EnterDestroy(t, f, h)
    BY <1>12 DEF CloseHandle
  <2> HIDE DEF f
  <2>1. PICK r : Set(t, r) /\ r.obj = h /\ r.sftp = s
    BY <2>e, <2>f DEF EnterDestroy
  <2>2. py'[h] = "alive" /\ py'[s] = "alive" /\ UNCHANGED <<py, pinned, user>> /\ reg' \subseteq reg
    BY <1>12, <1>a DEF CloseHandle
  <2>3. \A o \in Objects : o \in Refs' => o \in Refs
    BY <2>2
  <2>5. py'[r.obj] = "alive" /\ py'[r.sftp] = "alive"
    BY <2>1, <2>2
  <2>6. pinned' \subseteq Channels /\ \A o \in Objects : py[o] = "alive" => py'[o] = "alive"
    BY <2>2, <1>a
  <2>4. QED
    BY <2>1, <2>3, <2>5, <2>6, AliveKeep
<1>13. ASSUME NEW o \in Objects, UserDrop(t, o) PROVE AliveInv'
  <2>1. o \in user /\ Set(t, Dropping(Idle, o)) /\ UNCHANGED <<py, pinned>> /\ Refs' \subseteq Refs
    BY <1>13 DEF UserDrop
  <2>2. QED
    BY <1>a, <2>1, DroppingHeld, AliveKeep
<1>14. QED
  BY <1>1, <1>2, <1>3, <1>4, <1>5, <1>6, <1>7, <1>8, <1>9, <1>10, <1>11, <1>12, <1>13 DEF Invoke


LEMMA AliveProceed ==
  ASSUME TypeOK, AliveInv, NEW t \in Threads, Proceed(t)
  PROVE  AliveInv'
<1> USE HeldByFrames, OwnFrame DEF refVars, objVars, Refs, TypeOK, In, InLoop
<1> DEFINE o == th[t].obj
           s == th[t].sftp
           a == After(th[t])
           d == Dropping(th[t], th[t].obj)
\* What the frame holds is alive; and the frames it can leave behind.
<1>h. /\ pinned \subseteq Channels
      /\ o \in Objects => py[o] = "alive"
      /\ s \in Objects => py[s] = "alive"
      /\ \A x \in Objects : x \in Refs => py[x] = "alive"
  BY DEF AliveInv, Held
<1>a. a.obj \in {s, None} /\ a.sftp \in {s, None}
  BY HeldByAfter
<1>b. a.obj \in Held(t) \cup {None} /\ a.sftp \in Held(t) \cup {None}
  BY <1>a DEF Held
<1>d. d.obj = o /\ d.sftp = s
  BY DroppingHeld
<1> HIDE DEF a, d
<1>1. CASE StartupEnd(t)
  <2>1. Set(t, a) /\ UNCHANGED <<py, refVars>>
    BY <1>1 DEF StartupEnd, a
  <2>2. QED
    BY <2>1, <1>h, <1>a, AliveKeep
<1>2. CASE OpenEnd(t)
  <2>1. Set(t, a)
    BY <1>2 DEF OpenEnd, a
  <2>2. CASE UNCHANGED <<objVars, refVars>>
    BY <2>1, <2>2, <1>h, <1>a, AliveKeep
  <2>3. CASE ~UNCHANGED <<objVars, refVars>>
    <3>1. PICK x \in Objects : New(x) /\ reg' = reg \cup {x} /\ pinned' \subseteq pinned \cup ({x} \cap Channels)
      BY <1>2, <2>3 DEF OpenEnd
    <3>2. py'[x] = "alive" /\ (\A y \in Objects : py[y] = "alive" => py'[y] = "alive") /\ user' = user \cup {x}
      BY <3>1, NewAlive DEF New
    <3>3. QED
      BY <2>1, <3>1, <3>2, <1>h, <1>a, AliveKeep
  <2>4. QED
    BY <2>2, <2>3
<1>3. CASE UseEnd(t)
  <2>1. Set(t, d) /\ UNCHANGED <<py, refVars>>
    BY <1>3 DEF UseEnd, d
  <2>2. QED
    BY <2>1, <1>h, <1>d, AliveKeep
<1>4. CASE AcceptEnd(t)
  <2>1. Set(t, d)
    BY <1>4 DEF AcceptEnd, d
  <2>2. CASE UNCHANGED <<objVars, refVars>>
    BY <2>1, <2>2, <1>h, <1>d, AliveKeep
  <2>3. CASE ~UNCHANGED <<objVars, refVars>>
    <3>1. PICK x \in Objects : New(x) /\ UNCHANGED <<reg, pinned>>
      BY <1>4, <2>3 DEF AcceptEnd
    <3>2. py'[x] = "alive" /\ (\A y \in Objects : py[y] = "alive" => py'[y] = "alive") /\ user' = user \cup {x}
      BY <3>1, NewAlive DEF New
    <3>3. QED
      BY <2>1, <3>1, <3>2, <1>h, <1>d, AliveKeep
  <2>4. QED
    BY <2>2, <2>3
<1>5. CASE OpenHandleEnd(t)
  <2>1. Set(t, d)
    BY <1>5 DEF OpenHandleEnd, d
  <2>2. CASE UNCHANGED <<objVars, refVars>>
    BY <2>1, <2>2, <1>h, <1>d, AliveKeep
  <2>3. CASE ~UNCHANGED <<objVars, refVars>>
    <3>1. PICK x \in Objects : New(x) /\ reg' = reg \cup {x} /\ UNCHANGED pinned
      BY <1>5, <2>3 DEF OpenHandleEnd
    <3>2. py'[x] = "alive" /\ (\A y \in Objects : py[y] = "alive" => py'[y] = "alive") /\ user' = user \cup {x}
      BY <3>1, NewAlive DEF New
    <3>3. QED
      BY <2>1, <3>1, <3>2, <1>h, <1>d, AliveKeep
  <2>4. QED
    BY <2>2, <2>3
<1>6. CASE ChannelCloseEnd(t)
  <2>1. Set(t, d) /\ UNCHANGED <<py, refVars>>
    BY <1>6 DEF ChannelCloseEnd, d
  <2>2. QED
    BY <2>1, <1>h, <1>d, AliveKeep
<1>7. CASE DestroyEnd(t)
  <2>1. Set(t, d) /\ UNCHANGED <<py, refVars>>
    BY <1>7 DEF DestroyEnd, d
  <2>2. QED
    BY <2>1, <1>h, <1>d, AliveKeep
<1>8. CASE ShutdownPop(t)
  <2>1. PICK h \in Members(s, Serves(th[t].loop)) : EnterDestroy(t, th[t], h)
    BY <1>8 DEF ShutdownPop
  <2>2. h \in reg /\ h \in Objects
    BY <2>1 DEF Members, Serves
  <2>3. PICK r : Set(t, r) /\ r.obj = h /\ r.sftp = s
    BY <2>1 DEF EnterDestroy
  <2>4. UNCHANGED <<py, user, pinned>> /\ reg' \subseteq reg
    BY <1>8 DEF ShutdownPop
  <2>5. QED
    BY <2>2, <2>3, <2>4, <1>h, AliveKeep
<1>9. CASE ShutdownNextLoop(t)
  BY <1>9, <1>h, AliveKeep DEF ShutdownNextLoop
<1>10. CASE ShutdownEnd(t)
  BY <1>10, <1>h, AliveKeep DEF ShutdownEnd
<1>11. CASE ClosePopSftp(t)
  <2>1. PICK x \in reg \cap Sftps : EnterShutdown(t, th[t], x)
    BY <1>11 DEF ClosePopSftp
  <2>2. PICK r : Set(t, r) /\ r.obj \in {x, None} /\ r.sftp \in {x, None}
    BY <2>1 DEF EnterShutdown
  <2>3. UNCHANGED <<py, user, pinned>> /\ reg' \subseteq reg
    BY <1>11 DEF ClosePopSftp
  <2>4. QED
    BY <2>1, <2>2, <2>3, <1>h, AliveKeep
<1>12. CASE ClosePopChannel(t)
  <2>1. PICK x \in reg \cap Channels : EnterChannelClose(t, th[t], x)
    BY <1>12 DEF ClosePopChannel
  <2>2. PICK r : Set(t, r) /\ r.obj = x /\ r.sftp = s
    BY <2>1, EnterChannelCloseFrame
  <2>3. UNCHANGED <<py, user, pinned>> /\ reg' \subseteq reg
    BY <1>12 DEF ClosePopChannel
  <2>4. QED
    BY <2>1, <2>2, <2>3, <1>h, AliveKeep
<1>13. CASE ClosePopListener(t)
  <2>1. PICK x \in reg \cap Listeners : Set(t, Dropping(th[t], x))
    BY <1>13 DEF ClosePopListener
  <2>2. UNCHANGED <<py, user, pinned>> /\ reg' \subseteq reg
    BY <1>13 DEF ClosePopListener
  <2>3. QED
    BY <2>1, <2>2, <1>h, DroppingHeld, AliveKeep
<1>14. CASE CloseNextLoop(t)
  BY <1>14, <1>h, AliveKeep DEF CloseNextLoop
<1>15. CASE DisconnectEnd(t)
  BY <1>15, <1>h, AliveKeep DEF DisconnectEnd, SessionFree
<1>16. CASE Leave(t)
  <2>1. UNCHANGED <<py, refVars>>
    BY <1>16 DEF Leave
  <2>2. Set(t, Idle) \/ Set(t, InSession("sess", "sftps")) \/ Set(t, InSession("sess", "final"))
    BY <1>16 DEF Leave, SessionFree
  <2>3. QED
    BY <2>1, <2>2, <1>h, AliveKeep
<1>17. CASE FinalPop(t)
  <2>1. PICK x \in reg \cap Children : Set(t, Dropping(th[t], x))
    BY <1>17 DEF FinalPop
  <2>2. UNCHANGED <<py, user, pinned>> /\ reg' \subseteq reg
    BY <1>17 DEF FinalPop
  <2>3. QED
    BY <2>1, <2>2, <1>h, DroppingHeld, AliveKeep DEF Children
<1>18. CASE FinalEnd(t)
  BY <1>18, <1>h, AliveKeep DEF FinalEnd
<1>19. CASE DropShared(t)
  <2>1. Set(t, a) /\ UNCHANGED <<py, refVars>>
    BY <1>19 DEF DropShared, a
  <2>2. QED
    BY <2>1, <1>h, <1>a, AliveKeep
\* The wrapper at th[t].obj loses its last reference.
<1>L. ASSUME Last(t)
      PROVE  o \in Objects /\ o \notin Refs /\ (\A u \in Threads \ {t} : o \notin Held(u)) /\ o # s
  <2>1. th[t].pc = "drop" /\ ~Owned(o, t)
    BY <1>L DEF Last
  <2>2. o \in Objects
    BY <2>1
  <2>3. o \notin Refs /\ \A u \in Threads \ {t} : o \notin Held(u)
    BY <2>1 DEF Owned
  <2>4. o # s
    <3>1. s \in Sftps \cup {None} /\ (o \in Sftps => s = None)
      BY DEF ThreadState
    <3>2. None \notin Objects
      BY Kinds
    <3>3. QED
      BY <2>2, <3>1, <3>2
  <2>5. QED
    BY <2>2, <2>3, <2>4
<1>20. ASSUME Last(t), Set(t, a), py' = [py EXCEPT ![o] = "gone"], UNCHANGED refVars PROVE AliveInv'
  <2>1. \A x \in Objects \ {o} : py'[x] = py[x]
    BY <1>20 DEF DataOK
  <2>2. a.obj # o /\ a.sftp # o
    BY <1>a, <1>L, <1>20
  <2>3. QED
    BY <1>20, <1>L, <1>b, <2>1, <2>2, DropOne
<1>21. CASE ChannelDealloc(t)
  <2>1. Last(t) /\ UNCHANGED refVars
    BY <1>21 DEF ChannelDealloc
  <2>2. CASE ptr[o]
    <3>1. EnterChannelClose(t, th[t], o) /\ UNCHANGED py
      BY <1>21, <2>2 DEF ChannelDealloc
    <3>2. PICK r : Set(t, r) /\ r.obj = o /\ r.sftp = s
      BY <3>1, EnterChannelCloseFrame
    <3>3. QED
      BY <2>1, <3>1, <3>2, <1>h, AliveKeep
  <2>3. CASE ~ptr[o]
    BY <1>21, <2>1, <2>3, <1>20 DEF ChannelDealloc, a
  <2>4. QED
    BY <2>2, <2>3
<1>22. CASE ListenerDealloc(t)
  <2>1. Last(t) /\ UNCHANGED refVars
    BY <1>22 DEF ListenerDealloc
  <2>2. CASE ptr[o]
    <3>1. EnterDestroy(t, th[t], o) /\ UNCHANGED py
      BY <1>22, <2>2 DEF ListenerDealloc
    <3>2. PICK r : Set(t, r) /\ r.obj = o /\ r.sftp = s
      BY <3>1 DEF EnterDestroy
    <3>3. QED
      BY <2>1, <3>1, <3>2, <1>h, AliveKeep
  <2>3. CASE ~ptr[o]
    BY <1>22, <2>1, <2>3, <1>20 DEF ListenerDealloc, a
  <2>4. QED
    BY <2>2, <2>3
<1>23. CASE HandleDealloc(t)
  <2>1. Last(t) /\ Set(t, a) /\ UNCHANGED refVars
    BY <1>23 DEF HandleDealloc, a
  <2>2. \A x \in Objects \ {o} : py'[x] = py[x]
    BY <1>23 DEF HandleDealloc, HandlesDealloc
  <2>3. a.obj # o /\ a.sftp # o
    BY <1>a, <1>L, <2>1
  <2>4. QED
    BY <2>1, <2>2, <2>3, <1>L, <1>b, DropOne
<1>24. CASE SftpDeallocOpen(t)
  <2>1. PICK r : Set(t, r) /\ r.obj \in {o, None} /\ r.sftp \in {o, None}
    BY <1>24 DEF SftpDeallocOpen, EnterShutdown
  <2>2. UNCHANGED <<py, refVars>>
    BY <1>24 DEF SftpDeallocOpen
  <2>3. QED
    BY <2>1, <2>2, <1>h, AliveKeep
<1>25. CASE SftpDealloc(t)
  <2> DEFINE left == Members(o, Handles)
             S == {h \in left : h \notin user /\ \A u \in Threads : h \notin Held(u)}
  <2>1. Last(t) /\ o \in Sftps /\ Set(t, a) /\ reg' = reg \ left /\ UNCHANGED <<user, pinned>>
    BY <1>25 DEF SftpDealloc, a
  <2>2. \A x \in Objects \ (S \cup {o}) : py'[x] = py[x]
    BY <1>25 DEF SftpDealloc, HandlesDealloc
  <2>3. S \subseteq Handles /\ S \cap reg' = {} /\ S \cap user = {} /\ S \cap pinned = {}
    BY <2>1, <1>h DEF Members
  <2>4. \A x \in S \cup {o} : x \notin Refs'
    BY <2>1, <2>3, <1>L
  <2>5. \A x \in S \cup {o} : \A u \in Threads \ {t} : x \notin Held(u)
    BY <2>1, <1>L
  <2>6. s = None
    BY <2>1
  <2>7. a.obj \notin S \cup {o} /\ a.sftp \notin S \cup {o}
    BY <2>1, <2>3, <2>6, <1>a
  <2> DEFINE D == S \cup {o}
  <2>8. /\ \A x \in Objects \ D : py'[x] = py[x]
        /\ \A x \in D : x \notin Refs' /\ \A u \in Threads \ {t} : x \notin Held(u)
        /\ a.obj \notin D /\ a.sftp \notin D
    BY <2>2, <2>4, <2>5, <2>7
  <2>9. reg' \subseteq reg /\ a.obj \in Held(t) \cup {None} /\ a.sftp \in Held(t) \cup {None}
    BY <2>1, <1>a DEF Held
  <2> HIDE DEF D
  <2>10. QED
    BY <2>1, <2>8, <2>9, AliveDrop
<1>26. CASE UseAgain(t)
  <2>1. UNCHANGED <<th, py, refVars>>
    BY <1>26 DEF UseAgain
  <2>2. QED
    BY <2>1 DEF AliveInv, Refs, Held
<1>27. QED
  BY <1>26, <1>1, <1>2, <1>3, <1>4, <1>5, <1>6, <1>7, <1>8, <1>9, <1>10, <1>11, <1>12, <1>13, <1>14, <1>15, <1>16,
     <1>17, <1>18, <1>19, <1>21, <1>22, <1>23, <1>24, <1>25 DEF Proceed

\* Whatever owns a wrapper finds it alive.
THEOREM OwnedAlive == Spec => []AliveInv
<1>1. Init => AliveInv
  BY HeldByFrames DEF Init, AliveInv, Refs, Held
<1>2. TypeOK /\ AliveInv /\ [Next]_vars => AliveInv'
  <2> SUFFICES ASSUME TypeOK, AliveInv, [Next]_vars PROVE AliveInv'
    OBVIOUS
  <2>1. CASE UNCHANGED vars
    BY <2>1 DEF vars, objVars, refVars, AliveInv, Refs, Held
  <2>2. QED
    BY <2>1, AliveInvoke, AliveProceed DEF Next
<1>3. QED
  BY <1>1, <1>2, TypeCorrect, PTL DEF Spec

-----------------------------------------------------------------------------
(* The children of the session *)

\* A frame that is closing a channel, a listener or a subsystem has taken it out of R.
Away(r, R) == /\ r.pc \in {"chclose", "lcancel"} => r.obj \notin R
              /\ r.loop # "no" => r.sftp \notin R

\* What makes RegisteredOpen inductive: what is being closed is in no set.
RegInv == /\ \A o \in reg \cap Children : ptr[o]
          /\ \A t \in Threads : Away(th[t], reg)

LEMMA SessionAway ==
  ASSUME NEW p, NEW e, NEW R, p \notin {"chclose", "lcancel"}
  PROVE  Away(InSession(p, e), R)
BY DEF Away, InSession, Frame

LEMMA GivingAway ==
  ASSUME NEW r, NEW o, NEW p, NEW a, NEW R, Away(r, R), p \in {"chclose", "lcancel"} => o \notin R
  PROVE  Away(Giving(r, o, p, a), R)
BY DEF Away, Giving, Frame

LEMMA DroppingAway ==
  ASSUME NEW r, NEW o, NEW R, Away(r, R)
  PROVE  Away(Dropping(r, o), R)
<1> DEFINE p == "drop"
<1>1. p \notin {"chclose", "lcancel"}
  OBVIOUS
<1> HIDE DEF p
<1>2. \A a : Away(Giving(r, o, p, a), R)
  BY <1>1, GivingAway
<1>3. QED
  BY <1>2 DEF Dropping, p

LEMMA AfterAway ==
  ASSUME NEW r, NEW R, Away(r, R)
  PROVE  Away(After(r), R)
BY DEF Away, After, InShutdown, DroppingSftp, Idle, InSession, Frame

LEMMA ChannelCloseAway ==
  ASSUME NEW t, NEW q, NEW c, NEW R, EnterChannelClose(t, q, c), c \notin R, Away(q, R)
  PROVE  \E r : Set(t, r) /\ Away(r, R)
<1>1. CASE ptr[c]
  <2> DEFINE f == Giving(q, c, "chclose", TRUE)
  <2>1. Away(f, R)
    BY DEF Away, Giving, Frame
  <2>2. Set(t, f)
    BY <1>1 DEF EnterChannelClose
  <2> HIDE DEF f
  <2>3. QED
    BY <2>1, <2>2
<1>2. CASE ~ptr[c]
  BY <1>2, DroppingAway DEF EnterChannelClose
<1>3. QED
  BY <1>1, <1>2

LEMMA DestroyAway ==
  ASSUME NEW t, NEW q, NEW o, NEW R, EnterDestroy(t, q, o), o \in Listeners => o \notin R, Away(q, R)
  PROVE  \E r : Set(t, r) /\ Away(r, R)
<1> DEFINE p == IF o \in Listeners THEN "lcancel" ELSE "hclose"
<1>1. p \in {"chclose", "lcancel"} => o \notin R
  OBVIOUS
<1>2. Set(t, Giving(q, o, p, ptr[o]))
  BY DEF EnterDestroy
<1> HIDE DEF p
<1>3. QED
  BY <1>1, <1>2, GivingAway

LEMMA ShutdownAway ==
  ASSUME NEW t, NEW q, NEW s, NEW R, EnterShutdown(t, q, s), s \notin R
  PROVE  \E r : Set(t, r) /\ Away(r, R)
<1>1. Away(InShutdown(q, s, "dirs"), R)
  BY DEF Away, InShutdown, Frame
<1>2. Away(DroppingSftp(q, s), R)
  BY DEF Away, DroppingSftp, Frame
<1>3. QED
  BY <1>1, <1>2 DEF EnterShutdown

\* A step that registers nothing, and closes nothing that stays registered.
LEMMA RegKeep ==
  ASSUME TypeOK, RegInv, NEW t \in Threads, \E r : Set(t, r) /\ Away(r, reg'),
         reg' \subseteq reg, \A o \in reg' \cap Children : ptr[o] => ptr'[o]
  PROVE  RegInv'
<1>1. PICK r : Set(t, r) /\ Away(r, reg')
  OBVIOUS
<1>2. th'[t] = r /\ \A u \in Threads \ {t} : th'[u] = th[u]
  BY <1>1 DEF Set, TypeOK, ThreadsOK
<1>3. ASSUME NEW u \in Threads PROVE Away(th'[u], reg')
  <2>1. CASE u = t
    BY <1>1, <1>2, <2>1
  <2>2. CASE u # t
    BY <1>2, <2>2 DEF RegInv, Away
  <2>3. QED
    BY <2>1, <2>2
<1>4. QED
  BY <1>3 DEF RegInv

\* A step that opens x and may register it: no frame is closing x, which did not exist.
LEMMA RegOpen ==
  ASSUME TypeOK, AliveInv, RegInv, NEW t \in Threads, NEW r, th' = th \/ (Set(t, r) /\ Away(r, reg)),
         r.obj \in Held(t) \cup {None}, r.sftp \in Held(t) \cup {None},
         NEW x \in Objects, New(x), reg' \subseteq reg \cup {x}
  PROVE  RegInv'
<1>1. py[x] = "none" /\ ptr'[x] /\ \A o \in Objects : ptr[o] => ptr'[o]
  BY DEF New, TypeOK, DataOK
<1>2. \A u \in Threads : x \notin Held(u)
  BY <1>1 DEF AliveInv
<1>3. x # None
  BY Kinds
<1>4. ASSUME NEW u \in Threads PROVE Away(th'[u], reg')
  <2>1. CASE th'[u] = th[u]
    BY <2>1, <1>2 DEF RegInv, Away, Held
  <2>2. CASE th'[u] # th[u]
    <3>1. u = t /\ Set(t, r) /\ Away(r, reg)
      BY <2>2 DEF Set, TypeOK, ThreadsOK
    <3>2. th'[u] = r
      BY <3>1 DEF Set, TypeOK, ThreadsOK
    <3>3. r.obj # x /\ r.sftp # x
      BY <1>2, <1>3
    <3>4. QED
      BY <3>1, <3>2, <3>3 DEF Away
  <2>3. QED
    BY <2>1, <2>2
<1>5. \A o \in reg' \cap Children : ptr'[o]
  BY <1>1 DEF RegInv, Children, TypeOK, DataOK
<1>6. QED
  BY <1>4, <1>5 DEF RegInv

LEMMA RegInvoke ==
  ASSUME TypeOK, AliveInv, RegInv, NEW t \in Threads, Invoke(t)
  PROVE  RegInv'
<1> USE DEF objVars, refVars, logVars
<1>i. \A R : Away(Idle, R)
  BY DEF Away, Idle, InSession, Frame
<1>k. ASSUME UNCHANGED <<reg, ptr>>, \E r : Set(t, r) /\ Away(r, reg') PROVE RegInv'
  BY <1>k, RegKeep DEF RegInv
<1>1. ASSUME StartupBegin(t) \/ SessionClose(t) \/ UserDropSession(t)
             \/ \E call \in {"open", "scp", "listen"} : OpenBegin(t, call)
      PROVE  RegInv'
  <2>1. UNCHANGED <<reg, ptr>>
    BY <1>1 DEF StartupBegin, SessionClose, UserDropSession, OpenBegin
  <2>2. \E p, e : Set(t, InSession(p, e)) /\ p \notin {"chclose", "lcancel"}
    <3>1. CASE StartupBegin(t)
      BY <3>1 DEF StartupBegin
    <3>2. CASE SessionClose(t)
      BY <3>2 DEF SessionClose
    <3>3. CASE UserDropSession(t)
      BY <3>3 DEF UserDropSession
    <3>4. ASSUME NEW call \in {"open", "scp", "listen"}, OpenBegin(t, call)
          PROVE  \E p, e : Set(t, InSession(p, e)) /\ p \notin {"chclose", "lcancel"}
      BY <3>4 DEF OpenBegin
    <3>5. QED
      BY <1>1, <3>1, <3>2, <3>3, <3>4
  <2>3. QED
    BY <1>k, <2>1, <2>2, SessionAway
<1>2. CASE OpenLocked(t)
  <2>1. PICK x \in Channels \cup Sftps : New(x) /\ reg' = reg \cup {x}
    BY <1>2 DEF OpenLocked
  <2>2. th' = th
    BY <1>2 DEF OpenLocked
  <2>3. th[t].obj \in Held(t) /\ th[t].sftp \in Held(t)
    BY DEF Held
  <2>4. QED
    BY <2>1, <2>2, <2>3, RegOpen
<1>3. ASSUME NEW o \in Objects, NEW p \in {"use", "accept", "openfile", "opendir"}, NEW a,
             Set(t, Giving(Idle, o, p, a)), UNCHANGED <<reg, ptr>>
      PROVE  RegInv'
  BY <1>3, <1>i, <1>k, GivingAway
<1>4. ASSUME NEW o \in Chans \cup Sftps \cup Handles, UseBegin(t, o) PROVE RegInv'
  BY <1>3, <1>4 DEF UseBegin
<1>5. ASSUME NEW l \in Listeners, AcceptBegin(t, l) PROVE RegInv'
  BY <1>3, <1>5 DEF AcceptBegin
<1>6. ASSUME NEW s \in Sftps, NEW call \in {"openfile", "opendir"}, OpenHandleBegin(t, s, call) PROVE RegInv'
  BY <1>3, <1>6 DEF OpenHandleBegin
<1>7. ASSUME NEW l \in Listeners, ForwardCancel(t, l) PROVE RegInv'
  <2> DEFINE q == InSession("idle", "self")
  <2>1. Away(q, reg')
    BY SessionAway
  <2>2. EnterDestroy(t, q, l) /\ reg' = reg \ {l} /\ UNCHANGED ptr
    BY <1>7 DEF ForwardCancel
  <2> HIDE DEF q
  <2>3. \E r : Set(t, r) /\ Away(r, reg')
    BY <2>1, <2>2, DestroyAway
  <2>4. QED
    BY <2>2, <2>3, RegKeep
<1>8. ASSUME NEW c \in Chans, ChannelClose(t, c) PROVE RegInv'
  <2> DEFINE q == InSession("idle", "self")
  <2>1. Away(q, reg')
    BY SessionAway
  <2>2. EnterChannelClose(t, q, c) /\ reg' = reg \ {c} /\ UNCHANGED ptr
    BY <1>8 DEF ChannelClose
  <2> HIDE DEF q
  <2>3. \E r : Set(t, r) /\ Away(r, reg')
    BY <2>1, <2>2, ChannelCloseAway
  <2>4. QED
    BY <2>2, <2>3, RegKeep
<1>9. ASSUME NEW s \in Sftps, SftpShutdown(t, s) PROVE RegInv'
  <2>1. EnterShutdown(t, InSession("idle", "self"), s) /\ reg' = reg \ {s} /\ UNCHANGED ptr
    BY <1>9 DEF SftpShutdown
  <2>2. \E r : Set(t, r) /\ Away(r, reg')
    BY <2>1, ShutdownAway
  <2>3. QED
    BY <2>1, <2>2, RegKeep
<1>10. ASSUME NEW s \in Sftps, NEW h \in Handles, CloseHandle(t, s, h) PROVE RegInv'
  <2> DEFINE q == Frame("idle", None, s, "no", "no", FALSE)
  <2>1. Away(q, reg')
    BY DEF Away, Frame
  <2>2. EnterDestroy(t, q, h) /\ reg' \subseteq reg /\ UNCHANGED ptr /\ h \notin Listeners
    BY <1>10 DEF CloseHandle
  <2> HIDE DEF q
  <2>3. \E r : Set(t, r) /\ Away(r, reg')
    BY <2>1, <2>2, DestroyAway
  <2>4. QED
    BY <2>2, <2>3, RegKeep
<1>11. ASSUME NEW o \in Objects, UserDrop(t, o) PROVE RegInv'
  <2>1. Set(t, Dropping(Idle, o)) /\ UNCHANGED <<reg, ptr>>
    BY <1>11 DEF UserDrop
  <2>2. QED
    BY <2>1, <1>i, <1>k, DroppingAway
<1>12. QED
  BY <1>1, <1>2, <1>4, <1>5, <1>6, <1>7, <1>8, <1>9, <1>10, <1>11 DEF Invoke

LEMMA RegProceed ==
  ASSUME TypeOK, AliveInv, RegInv, NEW t \in Threads, Proceed(t)
  PROVE  RegInv'
<1> USE DEF objVars, refVars, logVars
<1> DEFINE o == th[t].obj
           s == th[t].sftp
           a == After(th[t])
           d == Dropping(th[t], th[t].obj)
<1>w. /\ Away(th[t], reg)
      /\ \A R : R \subseteq reg => Away(th[t], R)
  BY DEF RegInv, Away
<1>a. \A R : R \subseteq reg => Away(a, R)
  BY <1>w, AfterAway
<1>d. \A R : R \subseteq reg => Away(d, R)
  BY <1>w, DroppingAway
<1>o. ThreadsOK /\ DataOK /\ Good(th[t])
  BY OwnFrame DEF TypeOK
<1>f. /\ a.obj \in Held(t) \cup {None} /\ a.sftp \in Held(t) \cup {None}
      /\ d.obj \in Held(t) \cup {None} /\ d.sftp \in Held(t) \cup {None}
  BY HeldByAfter, DroppingHeld DEF Held
<1> HIDE DEF a, d
<1>k. ASSUME UNCHANGED <<reg, ptr>>, \E r : Set(t, r) /\ Away(r, reg) PROVE RegInv'
  BY <1>k, RegKeep
<1>1. CASE StartupEnd(t) \/ DropShared(t)
  <2>1. Set(t, a) /\ UNCHANGED <<reg, ptr>>
    BY <1>1 DEF StartupEnd, DropShared, a
  <2>2. QED
    BY <2>1, <1>a, <1>k
<1>2. CASE OpenEnd(t)
  <2>1. Set(t, a)
    BY <1>2 DEF OpenEnd, a
  <2>2. CASE UNCHANGED <<objVars, refVars>>
    BY <2>1, <2>2, <1>a, <1>k
  <2>3. CASE ~UNCHANGED <<objVars, refVars>>
    <3>1. PICK x \in Objects : New(x) /\ reg' = reg \cup {x}
      BY <1>2, <2>3 DEF OpenEnd
    <3>2. QED
      BY <2>1, <3>1, <1>a, <1>f, RegOpen
  <2>4. QED
    BY <2>2, <2>3
<1>3. CASE UseEnd(t)
  <2>1. Set(t, d) /\ UNCHANGED <<reg, ptr>>
    BY <1>3 DEF UseEnd, d
  <2>2. QED
    BY <2>1, <1>d, <1>k
<1>4. CASE AcceptEnd(t)
  <2>1. Set(t, d)
    BY <1>4 DEF AcceptEnd, d
  <2>2. CASE UNCHANGED <<objVars, refVars>>
    BY <2>1, <2>2, <1>d, <1>k
  <2>3. CASE ~UNCHANGED <<objVars, refVars>>
    <3>1. PICK x \in Objects : New(x) /\ UNCHANGED reg
      BY <1>4, <2>3 DEF AcceptEnd
    <3>2. QED
      BY <2>1, <3>1, <1>d, <1>f, RegOpen
  <2>4. QED
    BY <2>2, <2>3
<1>5. CASE OpenHandleEnd(t)
  <2>1. Set(t, d)
    BY <1>5 DEF OpenHandleEnd, d
  <2>2. CASE UNCHANGED <<objVars, refVars>>
    BY <2>1, <2>2, <1>d, <1>k
  <2>3. CASE ~UNCHANGED <<objVars, refVars>>
    <3>1. PICK x \in Objects : New(x) /\ reg' = reg \cup {x}
      BY <1>5, <2>3 DEF OpenHandleEnd
    <3>2. QED
      BY <2>1, <3>1, <1>d, <1>f, RegOpen
  <2>4. QED
    BY <2>2, <2>3
<1>6. CASE ChannelCloseEnd(t)
  <2>1. Set(t, d) /\ UNCHANGED reg
    BY <1>6 DEF ChannelCloseEnd, d
  <2>2. o \notin reg
    BY <1>6, <1>w DEF ChannelCloseEnd, In, Away
  <2>3. \A x \in Objects \ {o} : ptr'[x] = ptr[x]
    BY <1>6, <1>o DEF ChannelCloseEnd, DataOK
  <2>4. QED
    BY <2>1, <2>2, <2>3, <1>d, RegKeep DEF Children
<1>7. CASE DestroyEnd(t)
  <2>1. Set(t, d) /\ UNCHANGED reg
    BY <1>7 DEF DestroyEnd, d
  <2>2. o \notin reg \cap Children
    <3>1. CASE th[t].pc = "lcancel"
      BY <3>1, <1>w DEF Away
    <3>2. CASE th[t].pc = "hclose"
      BY <3>2, <1>o, OwnFrame, Kinds DEF Children, Chans
    <3>3. QED
      BY <1>7, <3>1, <3>2 DEF DestroyEnd, In
  <2>3. \A x \in Objects \ {o} : ptr'[x] = ptr[x]
    BY <1>7, <1>o DEF DestroyEnd, DataOK
  <2>4. QED
    BY <2>1, <2>2, <2>3, <1>d, RegKeep DEF Children
<1>8. CASE ShutdownPop(t)
  <2>1. PICK h \in Members(s, Serves(th[t].loop)) : reg' = reg \ {h} /\ EnterDestroy(t, th[t], h)
    BY <1>8 DEF ShutdownPop
  <2>2. UNCHANGED ptr
    BY <1>8 DEF ShutdownPop
  <2>3. \E r : Set(t, r) /\ Away(r, reg')
    BY <2>1, <1>w, DestroyAway
  <2>4. QED
    BY <2>1, <2>2, <2>3, RegKeep
<1>9. CASE ShutdownNextLoop(t)
  <2>1. Set(t, InShutdown(th[t], s, "files")) /\ UNCHANGED <<reg, ptr>> /\ th[t].loop = "dirs"
    BY <1>9 DEF ShutdownNextLoop
  <2>2. Away(InShutdown(th[t], s, "files"), reg)
    BY <2>1, <1>w DEF Away, InShutdown, Frame
  <2>3. QED
    BY <2>1, <2>2, <1>k
<1>10. CASE ShutdownEnd(t)
  <2>1. Set(t, DroppingSftp(th[t], s)) /\ UNCHANGED reg /\ th[t].loop = "files"
    BY <1>10 DEF ShutdownEnd
  <2>2. Away(DroppingSftp(th[t], s), reg)
    BY DEF Away, DroppingSftp, Frame
  <2>3. s \notin reg
    BY <2>1, <1>w DEF Away
  <2>4. \A x \in Objects \ {s} : ptr'[x] = ptr[x]
    BY <1>10, <1>o DEF ShutdownEnd, DataOK
  <2>5. QED
    BY <2>1, <2>2, <2>3, <2>4, RegKeep DEF Children
<1>11. CASE ClosePopSftp(t)
  <2>1. PICK x \in reg \cap Sftps : reg' = reg \ {x} /\ EnterShutdown(t, th[t], x)
    BY <1>11 DEF ClosePopSftp
  <2>2. UNCHANGED ptr
    BY <1>11 DEF ClosePopSftp
  <2>3. \E r : Set(t, r) /\ Away(r, reg')
    BY <2>1, ShutdownAway
  <2>4. QED
    BY <2>1, <2>2, <2>3, RegKeep
<1>12. CASE ClosePopChannel(t)
  <2>1. PICK x \in reg \cap Channels : reg' = reg \ {x} /\ EnterChannelClose(t, th[t], x)
    BY <1>12 DEF ClosePopChannel
  <2>2. UNCHANGED ptr
    BY <1>12 DEF ClosePopChannel
  <2>3. \E r : Set(t, r) /\ Away(r, reg')
    BY <2>1, <1>w, ChannelCloseAway
  <2>4. QED
    BY <2>1, <2>2, <2>3, RegKeep
<1>13. CASE ClosePopListener(t) \/ FinalPop(t)
  <2>1. PICK x \in reg : reg' = reg \ {x} /\ Set(t, Dropping(th[t], x)) /\ UNCHANGED ptr
    BY <1>13 DEF ClosePopListener, FinalPop
  <2>2. Away(Dropping(th[t], x), reg')
    BY <2>1, <1>w, DroppingAway
  <2>3. QED
    BY <2>1, <2>2, RegKeep
<1>14. CASE CloseNextLoop(t) \/ DisconnectEnd(t) \/ Leave(t) \/ FinalEnd(t)
  <2>1. UNCHANGED <<reg, ptr>>
    BY <1>14 DEF CloseNextLoop, DisconnectEnd, Leave, FinalEnd
  <2>2. \E p \in {"sess", "disconnect", "idle"} : \E e : Set(t, InSession(p, e))
    <3>1. CASE CloseNextLoop(t)
      BY <3>1 DEF CloseNextLoop
    <3>2. CASE DisconnectEnd(t)
      BY <3>2 DEF DisconnectEnd, SessionFree
    <3>3. CASE Leave(t)
      BY <3>3 DEF Leave, SessionFree, Idle
    <3>4. CASE FinalEnd(t)
      BY <3>4 DEF FinalEnd, Idle
    <3>5. QED
      BY <1>14, <3>1, <3>2, <3>3, <3>4
  <2>3. QED
    BY <2>1, <2>2, <1>k, SessionAway
\* The wrapper at th[t].obj has lost its last reference: it is in no set.
<1>L. ASSUME Last(t) PROVE o \notin reg
  BY <1>L DEF Last, Owned
<1>15. CASE ChannelDealloc(t)
  <2>1. UNCHANGED <<reg, ptr>> /\ Last(t)
    BY <1>15 DEF ChannelDealloc
  <2>2. Set(t, a) \/ EnterChannelClose(t, th[t], o)
    BY <1>15 DEF ChannelDealloc, a
  <2>3. \E r : Set(t, r) /\ Away(r, reg)
    BY <2>1, <2>2, <1>L, <1>a, <1>w, ChannelCloseAway
  <2>4. QED
    BY <2>1, <2>3, <1>k
<1>16. CASE ListenerDealloc(t)
  <2>1. UNCHANGED <<reg, ptr>> /\ Last(t)
    BY <1>16 DEF ListenerDealloc
  <2>2. Set(t, a) \/ EnterDestroy(t, th[t], o)
    BY <1>16 DEF ListenerDealloc, a
  <2>3. \E r : Set(t, r) /\ Away(r, reg)
    BY <2>1, <2>2, <1>L, <1>a, <1>w, DestroyAway
  <2>4. QED
    BY <2>1, <2>3, <1>k
<1>h. ASSUME NEW S, NEW G, S \subseteq Handles, HandlesDealloc(S, G)
      PROVE  \A x \in Children : ptr[x] => ptr'[x]
  <2>1. Children \subseteq Objects /\ Children \cap Handles = {}
    BY Kinds DEF Children, Objects, Chans
  <2>2. QED
    BY <1>h, <2>1 DEF HandlesDealloc
<1>17. CASE HandleDealloc(t)
  <2>1. Set(t, a) /\ UNCHANGED reg
    BY <1>17 DEF HandleDealloc, a
  <2>2. \A x \in Children : ptr[x] => ptr'[x]
    BY <1>17, <1>h DEF HandleDealloc
  <2>3. QED
    BY <2>1, <2>2, <1>a, RegKeep
<1>18. CASE SftpDeallocOpen(t)
  <2>1. UNCHANGED <<reg, ptr>> /\ Last(t) /\ EnterShutdown(t, th[t], o)
    BY <1>18 DEF SftpDeallocOpen
  <2>2. \E r : Set(t, r) /\ Away(r, reg)
    BY <2>1, <1>L, ShutdownAway
  <2>3. QED
    BY <2>1, <2>2, <1>k
<1>19. CASE SftpDealloc(t)
  <2>1. Set(t, a) /\ reg' \subseteq reg
    BY <1>19 DEF SftpDealloc, a
  <2>2. PICK S, G : S \subseteq Handles /\ HandlesDealloc(S, G)
    BY <1>19 DEF SftpDealloc, Members
  <2>3. \A x \in Children : ptr[x] => ptr'[x]
    BY <2>2, <1>h
  <2>4. QED
    BY <2>1, <2>3, <1>a, RegKeep
<1>20. CASE UseAgain(t)
  <2>1. UNCHANGED <<th, reg, ptr>>
    BY <1>20 DEF UseAgain
  <2>2. QED
    BY <2>1 DEF RegInv
<1>21. QED
  BY <1>1, <1>2, <1>3, <1>4, <1>5, <1>6, <1>7, <1>8, <1>9, <1>10, <1>11, <1>12, <1>13, <1>14, <1>15, <1>16,
     <1>17, <1>18, <1>19, <1>20 DEF Proceed

\* A channel, a subsystem or a listener in the set of its session is open, so that its hash is the
\* one it was added with.
THEOREM RegisteredOpenCorrect == Spec => []RegisteredOpen
<1>1. Init => RegInv
  <2>1. Away(Idle, {})
    BY DEF Away, Idle, InSession, Frame
  <2>2. QED
    BY <2>1 DEF Init, RegInv
<1>2. TypeOK /\ AliveInv /\ RegInv /\ [Next]_vars => RegInv'
  <2> SUFFICES ASSUME TypeOK, AliveInv, RegInv, [Next]_vars PROVE RegInv'
    OBVIOUS
  <2>1. CASE UNCHANGED vars
    BY <2>1 DEF vars, objVars, refVars, RegInv, Away
  <2>2. QED
    BY <2>1, RegInvoke, RegProceed DEF Next
<1>3. AliveInv /\ RegInv => RegisteredOpen
  BY DEF AliveInv, RegInv, RegisteredOpen, Refs, Children
<1>4. QED
  BY <1>1, <1>2, <1>3, TypeCorrect, OwnedAlive, PTL DEF Spec

-----------------------------------------------------------------------------
(* The files of a subsystem *)

\* FilesDrained, with the fact that gives it a meaning.
FileInv == \A f \in reg \cap Files : home[f] \in Sftps /\ ptr[home[f]]

LEMMA FileKeep ==
  ASSUME FileInv, UNCHANGED home, reg' \cap Files \subseteq reg, \A s \in Sftps : ptr[s] => ptr'[s]
  PROVE  FileInv'
BY DEF FileInv

LEMMA FileStep ==
  ASSUME TypeOK, FileInv, [Next]_vars
  PROVE  FileInv'
<1> USE DEF objVars, refVars, logVars
<1>k. ASSUME UNCHANGED <<home, ptr>>, reg' \subseteq reg PROVE FileInv'
  BY <1>k, FileKeep
<1>n. ASSUME NEW x \in Objects, New(x) PROVE \A s \in Sftps : ptr[s] => ptr'[s]
  BY <1>n DEF New, TypeOK, DataOK
<1>h. ASSUME NEW S, NEW G, S \subseteq Handles, HandlesDealloc(S, G), UNCHANGED home, reg' \subseteq reg
      PROVE  FileInv'
  <2>1. \A s \in Sftps : ptr[s] => ptr'[s]
    BY <1>h DEF HandlesDealloc
  <2>2. QED
    BY <1>h, <2>1, FileKeep
<1>1. CASE UNCHANGED vars
  BY <1>1, <1>k DEF vars
<1>2. ASSUME NEW t \in Threads, Invoke(t) PROVE FileInv'
  <2>1. CASE OpenLocked(t)
    <3>1. PICK x \in Channels \cup Sftps : New(x) /\ reg' = reg \cup {x} /\ UNCHANGED home
      BY <2>1 DEF OpenLocked
    <3>2. QED
      BY <3>1, <1>n, FileKeep
  <2>2. CASE ~OpenLocked(t)
    <3>1. UNCHANGED <<home, ptr>> /\ reg' \subseteq reg
      BY <1>2, <2>2 DEF Invoke, StartupBegin, SessionClose, UserDropSession, OpenBegin, UseBegin, AcceptBegin,
         ForwardCancel, ChannelClose, SftpShutdown, OpenHandleBegin, CloseHandle, UserDrop
    <3>2. QED
      BY <3>1, <1>k
  <2>3. QED
    BY <2>1, <2>2
<1>3. ASSUME NEW t \in Threads, Proceed(t) PROVE FileInv'
  <2>o. ThreadsOK /\ DataOK
    BY DEF TypeOK
  <2>1. CASE OpenEnd(t)
    <3>1. CASE UNCHANGED <<objVars, refVars>>
      BY <3>1, <1>k
    <3>2. CASE ~UNCHANGED <<objVars, refVars>>
      <4>1. PICK x \in Channels \cup Listeners : New(x) /\ reg' = reg \cup {x} /\ UNCHANGED home
        BY <2>1, <3>2 DEF OpenEnd
      <4>2. QED
        BY <4>1, <1>n, FileKeep
    <3>3. QED
      BY <3>1, <3>2
  <2>2. CASE AcceptEnd(t)
    <3>1. CASE UNCHANGED <<objVars, refVars>>
      BY <3>1, <1>k
    <3>2. CASE ~UNCHANGED <<objVars, refVars>>
      <4>1. PICK x \in Accepted : New(x) /\ UNCHANGED <<reg, home>>
        BY <2>2, <3>2 DEF AcceptEnd
      <4>2. QED
        BY <4>1, <1>n, FileKeep
    <3>3. QED
      BY <3>1, <3>2
  \* The subsystem is read again after the call: it is open when the file is registered.
  <2>3. CASE OpenHandleEnd(t)
    <3>1. CASE UNCHANGED <<objVars, refVars>>
      BY <3>1, <1>k
    <3>2. CASE ~UNCHANGED <<objVars, refVars>>
      <4> DEFINE s == th[t].obj
      <4>1. s \in Sftps
        BY <2>3, <2>o, OwnFrame DEF OpenHandleEnd, In
      <4>2. PICK h \in Handles : New(h) /\ home' = [home EXCEPT ![h] = s] /\ reg' = reg \cup {h} /\ ptr[s]
        BY <2>3, <3>2 DEF OpenHandleEnd
      <4>3. \A x \in Sftps : ptr[x] => ptr'[x]
        BY <4>2, <1>n
      <4>4. home'[h] = s /\ \A f \in Handles \ {h} : home'[f] = home[f]
        BY <4>2, <2>o DEF DataOK
      <4>5. QED
        BY <4>1, <4>2, <4>3, <4>4 DEF FileInv
    <3>3. QED
      BY <3>1, <3>2
  <2>4. CASE ChannelCloseEnd(t)
    <3>1. th[t].obj \in Chans
      BY <2>4, <2>o, OwnFrame DEF ChannelCloseEnd, In
    <3>2. \A s \in Sftps : ptr'[s] = ptr[s]
      BY <2>4, <2>o, <3>1 DEF ChannelCloseEnd, DataOK
    <3>3. QED
      BY <2>4, <3>2, FileKeep DEF ChannelCloseEnd
  <2>5. CASE DestroyEnd(t)
    <3>1. th[t].obj \in Listeners \cup Handles
      BY <2>5, <2>o, OwnFrame DEF DestroyEnd, In
    <3>2. \A s \in Sftps : ptr'[s] = ptr[s]
      BY <2>5, <2>o, <3>1 DEF DestroyEnd, DataOK
    <3>3. QED
      BY <2>5, <3>2, FileKeep DEF DestroyEnd
  \* No file of the subsystem is left when its pointer is cleared.
  <2>6. CASE ShutdownEnd(t)
    <3> DEFINE s == th[t].sftp
    <3>1. \A x \in Sftps \ {s} : ptr'[x] = ptr[x]
      BY <2>6, <2>o DEF ShutdownEnd, DataOK
    <3>2. \A f \in reg \cap Files : home[f] # s
      BY <2>6 DEF ShutdownEnd, Members, Serves
    <3>3. UNCHANGED <<home, reg>>
      BY <2>6 DEF ShutdownEnd
    <3>4. QED
      BY <3>1, <3>2, <3>3 DEF FileInv
  <2>7. CASE HandleDealloc(t)
    BY <2>7, <1>h DEF HandleDealloc
  <2>8. CASE SftpDealloc(t)
    <3>1. PICK S, G : S \subseteq Handles /\ HandlesDealloc(S, G) /\ reg' \subseteq reg /\ UNCHANGED home
      BY <2>8 DEF SftpDealloc, Members
    <3>2. QED
      BY <3>1, <1>h
  <2>9. CASE StartupEnd(t) \/ UseAgain(t) \/ UseEnd(t) \/ ShutdownPop(t) \/ ShutdownNextLoop(t) \/ ClosePopSftp(t)
              \/ ClosePopChannel(t) \/ ClosePopListener(t) \/ CloseNextLoop(t) \/ DisconnectEnd(t) \/ Leave(t)
              \/ FinalPop(t) \/ FinalEnd(t) \/ DropShared(t) \/ ChannelDealloc(t) \/ ListenerDealloc(t)
              \/ SftpDeallocOpen(t)
    <3>1. UNCHANGED <<home, ptr>> /\ reg' \subseteq reg
      BY <2>9 DEF StartupEnd, UseAgain, UseEnd, ShutdownPop, ShutdownNextLoop, ClosePopSftp, ClosePopChannel,
         ClosePopListener, CloseNextLoop, DisconnectEnd, Leave, FinalPop, FinalEnd, DropShared, ChannelDealloc,
         ListenerDealloc, SftpDeallocOpen
    <3>2. QED
      BY <3>1, <1>k
  <2>10. QED
    BY <1>3, <2>1, <2>2, <2>3, <2>4, <2>5, <2>6, <2>7, <2>8, <2>9 DEF Proceed
<1>4. QED
  BY <1>1, <1>2, <1>3 DEF Next

\* A file that is registered belongs to a subsystem that is open, whoever opens files while it is
\* being shut down.
THEOREM FilesDrainedCorrect == Spec => []FilesDrained
<1>1. Init => FileInv
  BY DEF Init, FileInv
<1>2. TypeOK /\ FileInv /\ [Next]_vars => FileInv'
  BY FileStep
<1>3. FileInv => FilesDrained
  BY DEF FileInv, FilesDrained
<1>4. QED
  BY <1>1, <1>2, <1>3, TypeCorrect, PTL DEF Spec

-----------------------------------------------------------------------------
(* The frame a step leaves *)

\* The fields of a frame, but for arg.
Is(r, p, o, s, l, e) == r.pc = p /\ r.obj = o /\ r.sftp = s /\ r.loop = l /\ r.sess = e

LEMMA SetTo ==
  ASSUME TypeOK, NEW t \in Threads, NEW r, Set(t, r)
  PROVE  th'[t] = r
BY DEF Set, TypeOK, ThreadsOK

LEMMA SessionIs == \A p, e : Is(InSession(p, e), p, None, None, "no", e)
BY DEF Is, InSession, Frame

LEMMA GivingIs ==
  ASSUME NEW r, NEW o, NEW p, NEW a
  PROVE  Is(Giving(r, o, p, a), p, o, r.sftp, r.loop, r.sess) /\ Giving(r, o, p, a).arg = a
BY DEF Is, Giving, Frame

LEMMA DroppingIs == \A r, o : Is(Dropping(r, o), "drop", o, r.sftp, r.loop, r.sess)
BY DEF Is, Dropping, Giving, Frame

LEMMA ShutdownIs ==
  /\ \A r, s, l : Is(InShutdown(r, s, l), "shut", None, s, l, r.sess)
  /\ \A r, s : Is(DroppingSftp(r, s), "drop", s, None, "no", r.sess)
BY DEF Is, InShutdown, DroppingSftp, Frame

LEMMA IdleIs == Is(Idle, "idle", None, None, "no", "no")
BY SessionIs DEF Idle

LEMMA AfterIs ==
  ASSUME NEW r
  PROVE  \/ r.sftp # None /\ r.loop # "no" /\ Is(After(r), "shut", None, r.sftp, r.loop, r.sess)
         \/ r.sftp # None /\ r.loop = "no" /\ Is(After(r), "drop", r.sftp, None, "no", r.sess)
         \/ r.sftp = None /\ r.sess # "no" /\ Is(After(r), "sess", None, None, "no", r.sess)
         \/ r.sftp = None /\ r.sess = "no" /\ Is(After(r), "idle", None, None, "no", "no")
BY SessionIs, ShutdownIs, IdleIs DEF After

LEMMA ChannelCloseIs ==
  ASSUME TypeOK, NEW t \in Threads, NEW q, NEW c, EnterChannelClose(t, q, c)
  PROVE  Is(th'[t], IF ptr[c] THEN "chclose" ELSE "drop", c, q.sftp, q.loop, q.sess)
<1>1. CASE ptr[c]
  <2> DEFINE b == TRUE
  <2>1. Set(t, Giving(q, c, "chclose", b))
    BY <1>1 DEF EnterChannelClose
  <2> HIDE DEF b
  <2>2. QED
    BY <1>1, <2>1, GivingIs, SetTo
<1>2. CASE ~ptr[c]
  BY <1>2, DroppingIs, SetTo DEF EnterChannelClose
<1>3. QED
  BY <1>1, <1>2

LEMMA DestroyIs ==
  ASSUME TypeOK, NEW t \in Threads, NEW q, NEW o, EnterDestroy(t, q, o)
  PROVE  /\ Is(th'[t], IF o \in Listeners THEN "lcancel" ELSE "hclose", o, q.sftp, q.loop, q.sess)
         /\ th'[t].arg = ptr[o]
BY GivingIs, SetTo DEF EnterDestroy

LEMMA EnterShutdownIs ==
  ASSUME TypeOK, NEW t \in Threads, NEW q, NEW s, EnterShutdown(t, q, s)
  PROVE  IF ptr[s] THEN Is(th'[t], "shut", None, s, "dirs", q.sess)
                   ELSE Is(th'[t], "drop", s, None, "no", q.sess)
BY ShutdownIs, SetTo DEF EnterShutdown

-----------------------------------------------------------------------------
(* Every wrapper has an owner *)

\* Every wrapper that is alive has an owner, and so has the subsystem of a registered handle.
OwnedInv ==
  /\ \A o \in Objects : py[o] = "alive" => o \in Refs \/ \E t \in Threads : o \in Held(t)
  /\ reg \subseteq Children \cup Handles
  /\ \A h \in reg \cap Handles : home[h] \in Sftps /\ py[home[h]] = "alive"

\* A step of t after which what the old frame and the sets owned is owned by the new frame or the
\* sets, or is deallocated.
LEMMA OwnedKeep ==
  ASSUME TypeOK, OwnedInv, NEW t \in Threads, NEW r, Set(t, r),
         \A o \in Objects : py'[o] = "alive" => py[o] = "alive" \/ o \in user',
         \A o \in Objects : (py'[o] = "alive" /\ (o \in Held(t) \/ (o \in Refs /\ o \notin Refs'))) =>
           o \in Refs' \/ o = r.obj \/ o = r.sftp \/ \E u \in Threads \ {t} : o \in Held(u),
         reg' \subseteq reg \cup Children, UNCHANGED home,
         \A h \in reg' \cap Handles : py'[home[h]] = py[home[h]]
  PROVE  OwnedInv'
<1>1. th'[t] = r /\ \A u \in Threads \ {t} : th'[u] = th[u]
  BY DEF Set, TypeOK, ThreadsOK
<1>2. ASSUME NEW o \in Objects, py'[o] = "alive" PROVE o \in Refs' \/ \E u \in Threads : o \in Held(u)'
  <2>1. CASE o \in user' \/ o \in Refs'
    BY <2>1 DEF Refs
  <2>2. CASE o \notin user' /\ o \notin Refs'
    <3>1. o \in Refs \/ \E u \in Threads : o \in Held(u)
      BY <1>2, <2>2 DEF OwnedInv
    <3>2. CASE o = r.obj \/ o = r.sftp
      BY <1>1, <3>2 DEF Held
    <3>3. CASE ~(o = r.obj \/ o = r.sftp)
      <4>1. PICK u \in Threads \ {t} : o \in Held(u)
        BY <1>2, <2>2, <3>1, <3>3
      <4>2. o \in Held(u)'
        BY <1>1, <4>1 DEF Held
      <4>3. QED
        BY <4>2
    <3>4. QED
      BY <3>2, <3>3
  <2>3. QED
    BY <2>1, <2>2
<1>3. \A h \in reg' \cap Handles : h \in reg
  BY Kinds DEF Children, Chans
<1>4. QED
  BY <1>2, <1>3 DEF OwnedInv

\* The same for a step that deallocates nothing and registers nothing.
LEMMA OwnedMove ==
  ASSUME TypeOK, OwnedInv, NEW t \in Threads, NEW r, Set(t, r), UNCHANGED <<py, home>>, reg' \subseteq reg,
         \A o \in Objects : o \in Held(t) \/ (o \in Refs /\ o \notin Refs') =>
           o \in Refs' \/ o = r.obj \/ o = r.sftp \/ \E u \in Threads \ {t} : o \in Held(u)
  PROVE  OwnedInv'
BY OwnedKeep

LEMMA OwnedInvoke ==
  ASSUME TypeOK, OwnedInv, NEW t \in Threads, Invoke(t)
  PROVE  OwnedInv'
<1> USE DEF sessVars, objVars, refVars, logVars
<1>r. Ready(t) => \A o \in Objects : o \notin Held(t)
  BY DEF Ready, TypeOK, ThreadsOK, Shape, Held
\* The frame of a call holds what the step takes out of a set or a variable.
<1>k. ASSUME Ready(t), NEW r, Set(t, r), UNCHANGED <<py, home>>, reg' \subseteq reg,
             \A o \in Objects : o \in Refs /\ o \notin Refs' => o = r.obj \/ o = r.sftp
      PROVE  OwnedInv'
  BY <1>k, <1>r, OwnedMove
<1>1. CASE \/ StartupBegin(t) \/ SessionClose(t) \/ UserDropSession(t)
           \/ \E call \in {"open", "scp", "listen"} : OpenBegin(t, call)
  <2>1. Ready(t) /\ UNCHANGED <<py, home, reg, Refs>> /\ \E r : Set(t, r)
    BY <1>1 DEF StartupBegin, SessionClose, UserDropSession, OpenBegin, Refs
  <2>2. QED
    BY <2>1, <1>k
<1>2. CASE OpenLocked(t)
  <2>1. PICK x \in Channels \cup Sftps : New(x) /\ reg' = reg \cup {x}
    BY <1>2 DEF OpenLocked
  <2>2. UNCHANGED <<th, home, pinned>> /\ x \in Objects /\ x \in Children
    BY <1>2 DEF OpenLocked, Children
  <2>3. /\ py' = [py EXCEPT ![x] = "alive"] /\ user' = user \cup {x}
        /\ py \in [Objects -> {"none", "alive", "gone", "leaked"}]
    BY <2>1 DEF New, TypeOK, DataOK
  <2>4. x \notin Handles
    BY <2>1
  <2>5. QED
    BY <2>1, <2>2, <2>3, <2>4 DEF OwnedInv, Refs, Held
<1>3. CASE \/ \E o \in Chans \cup Sftps \cup Handles : UseBegin(t, o)
           \/ \E l \in Listeners : AcceptBegin(t, l)
           \/ \E s \in Sftps : \E call \in {"openfile", "opendir"} : OpenHandleBegin(t, s, call)
  <2>1. Ready(t) /\ UNCHANGED <<py, home, reg, Refs>> /\ \E r : Set(t, r)
    BY <1>3 DEF UseBegin, AcceptBegin, OpenHandleBegin, Refs
  <2>2. QED
    BY <2>1, <1>k
<1>4. ASSUME NEW l \in Listeners, ForwardCancel(t, l) PROVE OwnedInv'
  <2>1. PICK r : Set(t, r) /\ r.obj = l
    BY <1>4, HeldByFrames DEF ForwardCancel, EnterDestroy
  <2>2. Ready(t) /\ reg' = reg \ {l} /\ UNCHANGED <<py, home, user, pinned>>
    BY <1>4 DEF ForwardCancel
  <2>3. QED
    BY <2>1, <2>2, <1>k DEF Refs
<1>5. ASSUME NEW c \in Chans, ChannelClose(t, c) PROVE OwnedInv'
  <2>1. PICK r : Set(t, r) /\ r.obj = c
    BY <1>5, EnterChannelCloseFrame DEF ChannelClose
  <2>2. Ready(t) /\ reg' = reg \ {c} /\ UNCHANGED <<py, home, user, pinned>>
    BY <1>5 DEF ChannelClose
  <2>3. QED
    BY <2>1, <2>2, <1>k DEF Refs
<1>6. ASSUME NEW s \in Sftps, SftpShutdown(t, s) PROVE OwnedInv'
  <2>1. PICK r : Set(t, r) /\ (r.obj = s \/ r.sftp = s)
    BY <1>6, HeldByFrames DEF SftpShutdown, EnterShutdown
  <2>2. Ready(t) /\ reg' = reg \ {s} /\ UNCHANGED <<py, home, user, pinned>>
    BY <1>6 DEF SftpShutdown
  <2>3. QED
    BY <2>1, <2>2, <1>k DEF Refs
<1>7. ASSUME NEW s \in Sftps, NEW h \in Handles, CloseHandle(t, s, h) PROVE OwnedInv'
  <2> DEFINE q == Frame("idle", None, s, "no", "no", FALSE)
  <2>0. EnterDestroy(t, q, h)
    BY <1>7 DEF CloseHandle
  <2> HIDE DEF q
  <2>1. PICK r : Set(t, r) /\ r.obj = h
    BY <2>0, HeldByFrames DEF EnterDestroy
  <2>2. Ready(t) /\ reg' \subseteq reg /\ reg \ {h} \subseteq reg' /\ UNCHANGED <<py, home, user, pinned>>
    BY <1>7 DEF CloseHandle
  <2>3. QED
    BY <2>1, <2>2, <1>k DEF Refs
<1>8. ASSUME NEW o \in Objects, UserDrop(t, o) PROVE OwnedInv'
  <2>1. Set(t, Dropping(Idle, o)) /\ Ready(t) /\ user' = user \ {o} /\ UNCHANGED <<py, home, reg, pinned>>
    BY <1>8 DEF UserDrop
  <2>2. QED
    BY <2>1, <1>k, DroppingHeld DEF Refs
<1>9. QED
  BY <1>1, <1>2, <1>3, <1>4, <1>5, <1>6, <1>7, <1>8 DEF Invoke

LEMMA OwnedProceed ==
  ASSUME TypeOK, AliveInv, OwnedInv, NEW t \in Threads, Proceed(t)
  PROVE  OwnedInv'
<1> USE HeldByFrames DEF sessVars, objVars, refVars, logVars
<1> DEFINE f == th[t]
           o == th[t].obj
           s == th[t].sftp
<1>f. Shape(f) /\ f \in ThreadState /\ Held(t) = {o, s} /\ None \notin Objects
  BY DEF TypeOK, ThreadsOK, Held
<1>p. /\ py \in [Objects -> {"none", "alive", "gone", "leaked"}] /\ home \in [Handles -> Sftps \cup {None}]
      /\ reg \subseteq Objects
  BY DEF TypeOK, DataOK
<1>a. s \in Objects => After(f).obj = s \/ After(f).sftp = s
  BY <1>f, AfterIs DEF Is
<1>d. \A x : Dropping(f, x).obj = x /\ Dropping(f, x).sftp = s
  BY DroppingHeld
\* The frame moves on; it may give up what has another owner.
<1>k. ASSUME NEW r, Set(t, r), UNCHANGED <<py, home>>, reg' \subseteq reg, UNCHANGED <<user, pinned>>,
             o \in Objects => r.obj = o \/ r.sftp = o \/ Owned(o, t), s \in Objects => r.obj = s \/ r.sftp = s,
             \A x \in Objects : x \in reg /\ x \notin reg' => x = r.obj \/ x = r.sftp
      PROVE  OwnedInv'
  <2>1. \A x \in Objects : x \in Held(t) \/ (x \in Refs /\ x \notin Refs') =>
          x \in Refs' \/ x = r.obj \/ x = r.sftp \/ \E u \in Threads \ {t} : x \in Held(u)
    BY <1>k, <1>f DEF Refs, Owned
  <2>2. QED
    BY <1>k, <2>1, OwnedMove
\* A wrapper is created; its variable owns it.
<1>n. ASSUME NEW r, Set(t, r), NEW x \in Objects, New(x), reg' \subseteq reg \cup ({x} \cap (Children \cup Handles)),
             reg \subseteq reg', pinned \subseteq pinned',
             o \in Objects => r.obj = o, s \in Objects => r.obj = s \/ r.sftp = s,
             \A h \in Handles \ {x} : home'[h] = home[h],
             x \in Handles \cap reg' => home'[x] \in Sftps /\ py[home'[x]] = "alive"
      PROVE  OwnedInv'
  <2>1. py'[x] = "alive" /\ py[x] = "none" /\ (\A y \in Objects \ {x} : py'[y] = py[y]) /\ user' = user \cup {x}
    BY <1>n, <1>p DEF New
  <2>2. th'[t] = r /\ \A u \in Threads \ {t} : th'[u] = th[u]
    BY <1>n DEF Set, TypeOK, ThreadsOK
  <2>3. ASSUME NEW y \in Objects, py'[y] = "alive" PROVE y \in Refs' \/ \E u \in Threads : y \in Held(u)'
    <3>1. CASE y = x \/ y \in Refs
      BY <1>n, <2>1, <3>1 DEF Refs
    <3>2. CASE y # x /\ y \notin Refs
      <4>1. PICK u \in Threads : y \in Held(u)
        BY <2>1, <2>3, <3>2 DEF OwnedInv
      <4>2. y \in Held(u)'
        BY <2>2, <4>1, <1>n, <1>f DEF Held
      <4>3. QED
        BY <4>2
    <3>3. QED
      BY <3>1, <3>2
  <2>4. ASSUME NEW h \in reg' \cap Handles PROVE home'[h] \in Sftps /\ py'[home'[h]] = "alive"
    <3>1. CASE h = x
      BY <1>n, <2>1, <3>1
    <3>2. CASE h # x
      BY <1>n, <2>1, <3>2 DEF OwnedInv
    <3>3. QED
      BY <3>1, <3>2
  <2>5. reg' \subseteq Children \cup Handles
    BY <1>n DEF OwnedInv
  <2>6. QED
    BY <2>3, <2>4, <2>5 DEF OwnedInv
<1>1. CASE StartupEnd(t)
  <2>1. Set(t, After(f)) /\ UNCHANGED <<py, home, reg, user, pinned>> /\ o \notin Objects
    BY <1>1, <1>f DEF StartupEnd, In, Shape
  <2>2. QED
    BY <2>1, <1>a, <1>k
<1>2. CASE OpenEnd(t)
  <2>1. Set(t, After(f)) /\ o \notin Objects /\ s \notin Objects
    BY <1>2, <1>f DEF OpenEnd, In, Shape
  <2>2. CASE UNCHANGED <<objVars, refVars>>
    BY <2>1, <2>2, <1>k
  <2>3. CASE ~UNCHANGED <<objVars, refVars>>
    <3>1. PICK x \in Channels \cup Listeners : New(x) /\ reg' = reg \cup {x}
             /\ UNCHANGED home /\ pinned \subseteq pinned'
      BY <1>2, <2>3 DEF OpenEnd
    <3>2. x \in Objects /\ x \in Children /\ x \notin Handles
      BY <3>1 DEF Children
    <3>3. QED
      BY <2>1, <3>1, <3>2, <1>n
  <2>4. QED
    BY <2>2, <2>3
<1>3. CASE UseEnd(t)
  <2>1. Set(t, Dropping(f, o)) /\ UNCHANGED <<py, home, reg, user, pinned>>
    BY <1>3 DEF UseEnd
  <2>2. QED
    BY <2>1, <1>d, <1>k
<1>4. CASE AcceptEnd(t)
  <2>1. Set(t, Dropping(f, o))
    BY <1>4 DEF AcceptEnd
  <2>2. CASE UNCHANGED <<objVars, refVars>>
    BY <2>1, <2>2, <1>d, <1>k
  <2>3. CASE ~UNCHANGED <<objVars, refVars>>
    <3>1. PICK x \in Accepted : New(x) /\ UNCHANGED <<home, reg, pinned>>
      BY <1>4, <2>3 DEF AcceptEnd
    <3>2. x \in Objects /\ x \notin Handles
      BY <3>1
    <3>3. QED
      BY <2>1, <3>1, <3>2, <1>d, <1>n
  <2>4. QED
    BY <2>2, <2>3
<1>5. CASE OpenHandleEnd(t)
  <2>1. Set(t, Dropping(f, o)) /\ o \in Sftps
    BY <1>5, <1>f DEF OpenHandleEnd, In, Shape
  <2>2. CASE UNCHANGED <<objVars, refVars>>
    BY <2>1, <2>2, <1>d, <1>k
  <2>3. CASE ~UNCHANGED <<objVars, refVars>>
    <3>1. PICK h \in Handles : New(h) /\ home' = [home EXCEPT ![h] = o] /\ reg' = reg \cup {h} /\ UNCHANGED pinned
      BY <1>5, <2>3 DEF OpenHandleEnd
    <3>2. home'[h] = o /\ \A x \in Handles \ {h} : home'[x] = home[x]
      BY <3>1, <1>p
    <3>3. py[o] = "alive"
      BY <2>1, <1>f DEF AliveInv
    <3>4. QED
      BY <2>1, <3>1, <3>2, <3>3, <1>d, <1>n
  <2>4. QED
    BY <2>2, <2>3
<1>6. CASE ChannelCloseEnd(t) \/ DestroyEnd(t)
  <2>1. Set(t, Dropping(f, o)) /\ UNCHANGED <<py, home, reg, user, pinned>>
    BY <1>6 DEF ChannelCloseEnd, DestroyEnd
  <2>2. QED
    BY <2>1, <1>d, <1>k
<1>7. CASE ShutdownPop(t)
  <2>1. PICK h \in Members(s, Serves(f.loop)) : reg' = reg \ {h} /\ EnterDestroy(t, f, h)
    BY <1>7 DEF ShutdownPop
  <2>2. UNCHANGED <<py, home, user, pinned>> /\ o \notin Objects
    BY <1>7, <1>f DEF ShutdownPop, In, Shape
  <2>3. PICK r : Set(t, r) /\ r.obj = h /\ r.sftp = s
    BY <2>1 DEF EnterDestroy
  <2>4. QED
    BY <2>1, <2>2, <2>3, <1>k
<1>8. CASE ShutdownNextLoop(t) \/ ShutdownEnd(t)
  <2>1. UNCHANGED <<py, home, reg, user, pinned>> /\ o \notin Objects
    BY <1>8, <1>f DEF ShutdownNextLoop, ShutdownEnd, In, Shape
  <2>2. Set(t, InShutdown(f, s, "files")) \/ Set(t, DroppingSftp(f, s))
    BY <1>8 DEF ShutdownNextLoop, ShutdownEnd
  <2>3. QED
    BY <2>1, <2>2, <1>k
<1>y. f.pc = "sess" => o \notin Objects /\ s \notin Objects
  BY <1>f DEF Shape
<1>9. CASE ClosePopSftp(t)
  <2>1. PICK x \in reg \cap Sftps : reg' = reg \ {x} /\ EnterShutdown(t, f, x)
    BY <1>9 DEF ClosePopSftp
  <2>2. PICK r : Set(t, r) /\ (r.obj = x \/ r.sftp = x)
    BY <2>1 DEF EnterShutdown
  <2>3. f.pc = "sess" /\ UNCHANGED <<py, home, user, pinned>>
    BY <1>9 DEF ClosePopSftp, InLoop, In
  <2>4. QED
    BY <2>1, <2>2, <2>3, <1>y, <1>k
<1>10. CASE ClosePopChannel(t)
  <2>1. PICK x \in reg \cap Channels : reg' = reg \ {x} /\ EnterChannelClose(t, f, x)
    BY <1>10 DEF ClosePopChannel
  <2>2. PICK r : Set(t, r) /\ r.obj = x
    BY <2>1, EnterChannelCloseFrame
  <2>3. f.pc = "sess" /\ UNCHANGED <<py, home, user, pinned>>
    BY <1>10 DEF ClosePopChannel, InLoop, In
  <2>4. QED
    BY <2>1, <2>2, <2>3, <1>y, <1>k
<1>11. CASE ClosePopListener(t) \/ FinalPop(t)
  <2>1. PICK x \in reg : reg' = reg \ {x} /\ Set(t, Dropping(f, x))
    BY <1>11 DEF ClosePopListener, FinalPop
  <2>2. f.pc = "sess" /\ UNCHANGED <<py, home, user, pinned>>
    BY <1>11 DEF ClosePopListener, FinalPop, InLoop, In
  <2>3. QED
    BY <2>1, <2>2, <1>d, <1>y, <1>k
<1>12. CASE CloseNextLoop(t) \/ DisconnectEnd(t) \/ Leave(t) \/ FinalEnd(t)
  <2>1. \E r : Set(t, r)
    BY <1>12 DEF CloseNextLoop, DisconnectEnd, Leave, FinalEnd, SessionFree
  <2>2. f.pc \in {"sess", "disconnect"} /\ UNCHANGED <<py, home, reg, user, pinned>>
    BY <1>12 DEF CloseNextLoop, DisconnectEnd, Leave, FinalEnd, SessionFree, InLoop, In
  <2>3. o \notin Objects /\ s \notin Objects
    BY <2>2, <1>f DEF Shape
  <2>4. QED
    BY <2>1, <2>2, <2>3, <1>k
<1>13. CASE DropShared(t)
  <2>1. Set(t, After(f)) /\ Owned(o, t) /\ UNCHANGED <<py, home, reg, user, pinned>>
    BY <1>13 DEF DropShared
  <2>2. QED
    BY <2>1, <1>a, <1>k
\* The frame deallocates the wrapper it held.
<1>g. ASSUME o \in Objects, o \notin Sftps, \A x \in Objects \ {o} : py'[x] = py[x], py'[o] # "alive",
             Set(t, After(f)), UNCHANGED <<home, reg, user, pinned>>
      PROVE  OwnedInv'
  <2>1. /\ \A x \in Objects : py'[x] = "alive" => py[x] = "alive" \/ x \in user'
        /\ \A x \in Objects : (py'[x] = "alive" /\ (x \in Held(t) \/ (x \in Refs /\ x \notin Refs'))) =>
             x \in Refs' \/ x = After(f).obj \/ x = After(f).sftp \/ \E u \in Threads \ {t} : x \in Held(u)
    BY <1>g, <1>f, <1>a DEF Refs
  <2>2. \A h \in reg' \cap Handles : py'[home[h]] = py[home[h]]
    BY <1>g DEF OwnedInv
  <2>3. QED
    BY <1>g, <2>1, <2>2, OwnedKeep
<1>14. CASE ChannelDealloc(t)
  <2>1. o \in Chans /\ UNCHANGED <<home, reg, user, pinned>>
    BY <1>14 DEF ChannelDealloc
  <2>2. CASE ptr[o]
    <3>1. EnterChannelClose(t, f, o) /\ UNCHANGED py
      BY <1>14, <2>2 DEF ChannelDealloc
    <3>2. PICK r : Set(t, r) /\ r.obj = o /\ r.sftp = s
      BY <3>1, EnterChannelCloseFrame
    <3>3. QED
      BY <2>1, <3>1, <3>2, <1>k
  <2>3. CASE ~ptr[o]
    <3>1. py' = [py EXCEPT ![o] = "gone"] /\ Set(t, After(f))
      BY <1>14, <2>3 DEF ChannelDealloc
    <3>2. QED
      BY <2>1, <3>1, <1>p, <1>g
  <2>4. QED
    BY <2>2, <2>3
<1>15. CASE ListenerDealloc(t)
  <2>1. o \in Listeners /\ UNCHANGED <<home, reg, user, pinned>>
    BY <1>15 DEF ListenerDealloc
  <2>2. CASE ptr[o]
    <3>1. EnterDestroy(t, f, o) /\ UNCHANGED py
      BY <1>15, <2>2 DEF ListenerDealloc
    <3>2. PICK r : Set(t, r) /\ r.obj = o /\ r.sftp = s
      BY <3>1 DEF EnterDestroy
    <3>3. QED
      BY <2>1, <3>1, <3>2, <1>k
  <2>3. CASE ~ptr[o]
    <3>1. py' = [py EXCEPT ![o] = "gone"] /\ Set(t, After(f))
      BY <1>15, <2>3 DEF ListenerDealloc
    <3>2. QED
      BY <2>1, <3>1, <1>p, <1>g
  <2>4. QED
    BY <2>2, <2>3
<1>16. CASE HandleDealloc(t)
  <2>1. o \in Handles /\ Set(t, After(f)) /\ UNCHANGED <<home, reg, user, pinned>>
    BY <1>16 DEF HandleDealloc
  <2>2. (\A x \in Objects \ {o} : py'[x] = py[x]) /\ py'[o] # "alive"
    BY <1>16, <2>1 DEF HandleDealloc, HandlesDealloc
  <2>3. QED
    BY <2>1, <2>2, <1>g
<1>17. CASE SftpDeallocOpen(t)
  <2>1. EnterShutdown(t, f, o) /\ o \in Sftps /\ f.pc = "drop" /\ UNCHANGED <<py, home, reg, user, pinned>>
    BY <1>17 DEF SftpDeallocOpen, Last, In
  <2>2. PICK r : Set(t, r) /\ (r.obj = o \/ r.sftp = o)
    BY <2>1 DEF EnterShutdown
  <2>3. s \notin Objects
    BY <2>1, <1>f DEF Shape
  <2>4. QED
    BY <2>1, <2>2, <2>3, <1>k
\* The files and directories left in the two sets are deallocated too, but for those in a variable
\* or in use.
<1>18. CASE SftpDealloc(t)
  <2> DEFINE left == Members(o, Handles)
             S == {h \in left : h \notin user /\ \A u \in Threads : h \notin Held(u)}
  <2>1. o \in Sftps /\ f.pc = "drop" /\ Set(t, After(f)) /\ reg' = reg \ left /\ UNCHANGED <<home, user, pinned>>
    BY <1>18 DEF SftpDealloc, Last, In
  <2>2. s \notin Objects
    BY <2>1, <1>f DEF Shape
  <2>3. S \subseteq Handles /\ left = {h \in reg \cap Handles : home[h] = o}
    BY DEF Members
  <2>4. /\ \A x \in Objects \ (S \cup {o}) : py'[x] = py[x]
        /\ \A x \in S \cup {o} : py'[x] # "alive"
    BY <1>18, <2>1, <2>3 DEF SftpDealloc, HandlesDealloc
  <2>5. \A x \in left : x \in S \/ x \in user \/ \E u \in Threads \ {t} : x \in Held(u)
    BY <2>1, <2>2, <2>3, <1>f
  <2> HIDE DEF left, S
  <2>6. \A x \in Objects : py'[x] = "alive" => py[x] = "alive" \/ x \in user'
    BY <2>4
  <2>7. \A x \in Objects : (py'[x] = "alive" /\ (x \in Held(t) \/ (x \in Refs /\ x \notin Refs'))) =>
          x \in Refs' \/ x = After(f).obj \/ x = After(f).sftp \/ \E u \in Threads \ {t} : x \in Held(u)
    BY <2>1, <2>2, <2>4, <2>5, <1>f DEF Refs
  <2>8. ASSUME NEW h \in reg' \cap Handles PROVE py'[home[h]] = py[home[h]]
    <3>1. home[h] \in Sftps \ {o}
      BY <2>1, <2>3, <2>8 DEF OwnedInv
    <3>2. home[h] \in Objects \ (S \cup {o})
      BY <3>1, <2>3
    <3>3. QED
      BY <3>2, <2>4
  <2>9. QED
    BY <2>1, <2>6, <2>7, <2>8, OwnedKeep
<1>19. CASE UseAgain(t)
  <2>1. UNCHANGED <<th, py, home, refVars>>
    BY <1>19 DEF UseAgain
  <2>2. QED
    BY <2>1 DEF OwnedInv, Refs, Held
<1>20. QED
  BY <1>19, <1>1, <1>2, <1>3, <1>4, <1>5, <1>6, <1>7, <1>8, <1>9, <1>10, <1>11, <1>12, <1>13, <1>14, <1>15, <1>16,
     <1>17, <1>18 DEF Proceed

LEMMA OwnedStep ==
  ASSUME TypeOK, AliveInv, OwnedInv, [Next]_vars
  PROVE  OwnedInv'
<1>1. CASE UNCHANGED vars
  BY <1>1 DEF vars, objVars, refVars, OwnedInv, Refs, Held
<1>2. QED
  BY <1>1, OwnedInvoke, OwnedProceed DEF Next

\* A wrapper that is alive is in a set, in a variable, in a frame or pinned, whatever the threads do:
\* none is left behind without the reference that would deallocate it.
THEOREM EveryWrapperOwned == Spec => []OwnedInv
<1>1. Init => OwnedInv
  BY DEF Init, OwnedInv
<1>2. TypeOK /\ AliveInv /\ OwnedInv /\ [Next]_vars => OwnedInv'
  BY OwnedStep
<1>3. QED
  BY <1>1, <1>2, OwnedAlive, TypeCorrect, PTL DEF Spec
=============================================================================
