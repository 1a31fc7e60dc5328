---------------------------- MODULE CallbacksProofs ----------------------------
(* What the callbacks and the agent do to the sessions of the threads, for     *)
(* every number of threads, prompts, messages and identities.                  *)
EXTENDS Callbacks, TLAPS

Somebody  == Threads \cup {Nobody}
Places    == Calls \cup {"python"}
Backs     == MayCallBack \cup {"python"}
Pendings  == {"none", "own", "stray"}
Frames    == [pc : Places, back : Backs, nested : BOOLEAN, runs : Somebody, err : Pendings, kept : BOOLEAN,
              left : 0 .. MaxEvents]
Dialogues == [text : Somebody, prompts : 0 .. MaxPrompts, intruded : BOOLEAN,
              heard : SUBSET (Somebody \X Somebody)]
Agents    == [ids : 0 .. MaxIds, store : 0 .. MaxIds, rc : 0 .. 1, offers : Seq(0 .. MaxIds),
              reached : BOOLEAN, auth : BOOLEAN, outcome : {"unset"} \cup Pendings]

Types ==
  /\ th \in [Threads -> Frames] /\ kbd \in [Threads -> Dialogues] /\ ag \in [Threads -> Agents]
  /\ gil \in Somebody /\ func \in Somebody /\ answer \in [text : Somebody, len : Somebody]
  /\ set \in [Threads -> BOOLEAN]

LEMMA TypesAre == TypeOK <=> Types
BY DEF TypeOK, Types, Frames, Dialogues, Agents, Somebody, Places, Backs, Pendings

-----------------------------------------------------------------------------
(* Where a step leaves the thread that takes it *)

\* The new frame of t; the others have theirs.
Becomes(t, pc, back, nested, err, kept) ==
  /\ th' \in [Threads -> Frames] /\ \A u \in Threads \ {t} : th'[u] = th[u]
  /\ th'[t].pc = pc /\ th'[t].back = back /\ th'[t].nested = nested
  /\ th'[t].err = err /\ th'[t].kept = kept

LEMMA NewFrame ==
  ASSUME Types, NEW t \in Threads, NEW f \in Frames, th' = [th EXCEPT ![t] = f]
  PROVE  Becomes(t, f.pc, f.back, f.nested, f.err, f.kept)
BY DEF Types, Becomes

LEMMA GoToFrame ==
  ASSUME Types, NEW t \in Threads, NEW pc \in Places, GoTo(t, pc)
  PROVE  Becomes(t, pc, th[t].back, th[t].nested, th[t].err, th[t].kept)
<1> DEFINE f == [th[t] EXCEPT !.pc = pc]
<1>1. th[t] \in Frames /\ th' = [th EXCEPT ![t] = f]
  BY DEF Types, GoTo
<1>2. f \in Frames /\ f.pc = pc /\ f.back = th[t].back /\ f.nested = th[t].nested
      /\ f.err = th[t].err /\ f.kept = th[t].kept
  BY <1>1 DEF Frames
<1> HIDE DEF f
<1>3. QED
  BY <1>1, <1>2, NewFrame

LEMMA EnterFrame ==
  ASSUME Types, NEW t \in Threads, NEW pc \in Places, NEW left \in 0 .. MaxEvents, Enter(t, pc, left)
  PROVE  Becomes(t, pc, th[t].back, th[t].nested, th[t].err, th[t].kept)
<1> DEFINE f == [th[t] EXCEPT !.pc = pc, !.left = left]
<1>1. th[t] \in Frames /\ th' = [th EXCEPT ![t] = f]
  BY DEF Types, Enter
<1>2. f \in Frames /\ f.pc = pc /\ f.back = th[t].back /\ f.nested = th[t].nested
      /\ f.err = th[t].err /\ f.kept = th[t].kept
  BY <1>1 DEF Frames
<1> HIDE DEF f
<1>3. QED
  BY <1>1, <1>2, NewFrame

LEMMA PendingFrame ==
  ASSUME Types, NEW t \in Threads, NEW err \in Pendings, th' = [th EXCEPT ![t].err = err]
  PROVE  Becomes(t, th[t].pc, th[t].back, th[t].nested, err, th[t].kept)
<1> DEFINE f == [th[t] EXCEPT !.err = err]
<1>1. th[t] \in Frames /\ th' = [th EXCEPT ![t] = f]
  BY DEF Types
<1>2. f \in Frames /\ f.pc = th[t].pc /\ f.back = th[t].back /\ f.nested = th[t].nested
      /\ f.err = err /\ f.kept = th[t].kept
  BY <1>1 DEF Frames
<1> HIDE DEF f
<1>3. QED
  BY <1>1, <1>2, NewFrame

LEMMA IdleFrame ==
  /\ Idle \in Frames /\ Idle.pc = "python" /\ Idle.back = "python" /\ Idle.nested = FALSE
  /\ Idle.err = "none" /\ Idle.kept = FALSE
<1>1. 0 \in 0 .. MaxEvents
  BY Instance
<1>2. QED
  BY <1>1 DEF Frames, Idle, Places, Backs, Pendings, Somebody

LEMMA LeaveFrame ==
  ASSUME Types, NEW t \in Threads, Leave(t)
  PROVE  Becomes(t, "python", "python", FALSE, th[t].err, FALSE)
<1> DEFINE f == [Idle EXCEPT !.err = th[t].err]
<1>1. th[t] \in Frames /\ th' = [th EXCEPT ![t] = f]
  BY DEF Types, Leave
<1>2. f \in Frames /\ f.pc = "python" /\ f.back = "python" /\ f.nested = FALSE
      /\ f.err = th[t].err /\ f.kept = FALSE
  BY <1>1, IdleFrame DEF Frames
<1> HIDE DEF f
<1>3. QED
  BY <1>1, <1>2, NewFrame

LEMMA GiveUpFrame ==
  ASSUME Types, NEW t \in Threads, GiveUp(t)
  PROVE  Becomes(t, "disconnect", th[t].back, th[t].nested, "own", th[t].kept)
<1> DEFINE f == [th[t] EXCEPT !.pc = "disconnect", !.err = "own"]
<1>1. th[t] \in Frames /\ th' = [th EXCEPT ![t] = f]
  BY DEF Types, GiveUp
<1>2. f \in Frames /\ f.pc = "disconnect" /\ f.back = th[t].back /\ f.nested = th[t].nested
      /\ f.err = "own" /\ f.kept = th[t].kept
  BY <1>1 DEF Frames, Places, Calls, Pendings
<1> HIDE DEF f
<1>3. QED
  BY <1>1, <1>2, NewFrame

LEMMA FinishFrame ==
  ASSUME Types, NEW t \in Threads, NEW err, Finish(t, err)
  PROVE  Becomes(t, "result", "python", FALSE, "none", FALSE)
<1> DEFINE f == [Idle EXCEPT !.pc = "result"]
<1>1. th' = [th EXCEPT ![t] = f]
  BY DEF Finish
<1>2. f \in Frames /\ f.pc = "result" /\ f.back = "python" /\ f.nested = FALSE
      /\ f.err = "none" /\ f.kept = FALSE
  BY IdleFrame DEF Frames, Places, Calls
<1> HIDE DEF f
<1>3. QED
  BY <1>1, <1>2, NewFrame

LEMMA EventFrame ==
  ASSUME Types, NEW t \in Threads, Event(t)
  PROVE  Becomes(t, "ensure", th[t].pc, th[t].nested, th[t].err, th[t].kept)
<1> DEFINE f == [th[t] EXCEPT !.pc = "ensure", !.back = th[t].pc, !.left = th[t].left - 1]
<1>1. th[t] \in Frames /\ th' = [th EXCEPT ![t] = f] /\ th[t].pc \in MayCallBack /\ th[t].left > 0
  BY DEF Types, Event
<1>2. th[t].left - 1 \in 0 .. MaxEvents
  BY <1>1, Instance DEF Frames
<1>3. f \in Frames /\ f.pc = "ensure" /\ f.back = th[t].pc /\ f.nested = th[t].nested
      /\ f.err = th[t].err /\ f.kept = th[t].kept
  BY <1>1, <1>2 DEF Frames, Places, Calls, Backs
<1> HIDE DEF f
<1>4. QED
  BY <1>1, <1>3, NewFrame

LEMMA EnsureFrame ==
  ASSUME Types, NEW t \in Threads, Ensure(t)
  PROVE  Becomes(t, "callback", th[t].back, gil = t, th[t].err, th[t].kept)
<1> DEFINE f == [th[t] EXCEPT !.pc = "callback", !.nested = (gil = t), !.runs = func]
<1>1. th[t] \in Frames /\ th' = [th EXCEPT ![t] = f] /\ func \in Somebody
  BY DEF Types, Ensure
<1>2. f \in Frames /\ f.pc = "callback" /\ f.back = th[t].back /\ f.nested = (gil = t)
      /\ f.err = th[t].err /\ f.kept = th[t].kept
  BY <1>1 DEF Frames, Places, Calls
<1> HIDE DEF f
<1>3. QED
  BY <1>1, <1>2, NewFrame

\* The stub returns to the native call it was called from.
LEMMA BackFrame ==
  ASSUME Types, NEW t \in Threads, NEW err \in Pendings, NEW kept \in BOOLEAN,
         th' = [th EXCEPT ![t] = [Back(t, err) EXCEPT !.kept = kept]]
  PROVE  Becomes(t, th[t].back, "python", FALSE, err, kept)
<1> DEFINE f == [Back(t, err) EXCEPT !.kept = kept]
<1>1. th[t] \in Frames /\ th' = [th EXCEPT ![t] = f]
  BY DEF Types
<1>2. th[t].back \in Places
  BY <1>1 DEF Frames, Backs, Places, Calls, MayCallBack
<1>3. f \in Frames /\ f.pc = th[t].back /\ f.back = "python" /\ f.nested = FALSE
      /\ f.err = err /\ f.kept = kept
  BY <1>1, <1>2 DEF Frames, Back, Backs, Somebody
<1> HIDE DEF f
<1>4. QED
  BY <1>1, <1>3, NewFrame

LEMMA ReturnFrame ==
  ASSUME Types, NEW t \in Threads, NEW err \in Pendings, th' = [th EXCEPT ![t] = Back(t, err)]
  PROVE  Becomes(t, th[t].back, "python", FALSE, err, th[t].kept)
<1>1. th[t] \in Frames
  BY DEF Types
<1>2. Back(t, err) = [Back(t, err) EXCEPT !.kept = th[t].kept] /\ th[t].kept \in BOOLEAN
  BY <1>1 DEF Back, Frames
<1>3. QED
  BY <1>2, BackFrame

-----------------------------------------------------------------------------
(* The invariant *)

Others(t) == Threads \ {t}
OutOfStub == {"native", "prompt"}

\* A thread that has the GIL where it should not, or in a callback under such a place, kept it.
GilInv(t) ==
  /\ (th[t].pc \in {"native", "prompt", "length", "connect", "disconnect"} /\ gil = t) => th[t].kept
  /\ (th[t].pc = "ensure" /\ th[t].back \in OutOfStub /\ gil = t) => th[t].kept
  /\ (th[t].pc = "callback" /\ th[t].back \in OutOfStub /\ th[t].nested) => th[t].kept
  /\ th[t].pc \in {"ensure", "callback"} => th[t].back \in MayCallBack

\* The globals are those of the dialogue under way, unless another call came in between.
KbdInv(t) ==
  /\ ~InDialogue(t) => kbd[t].heard = {}
  /\ ~kbd[t].intruded =>
       /\ kbd[t].heard \subseteq {<<t, t>>}
       /\ InDialogue(t) => answer.text = t /\ answer.len = t
       /\ th[t].pc = "length" => kbd[t].text = t

InAuth(t)  == th[t].pc = "auth" \/ (th[t].pc \in {"ensure", "callback"} /\ th[t].back = "auth")
Offered(t) ==
  /\ Len(ag[t].offers) <= ag[t].ids + 1
  /\ \A i \in 1 .. Len(ag[t].offers) : ag[t].offers[i] = IF i <= ag[t].ids THEN i ELSE ag[t].ids

\* What the loop over the identities has done when, and how it was left.
AgentInv(t) ==
  /\ th[t].err = "own" => th[t].pc = "disconnect" /\ ~ag[t].auth
  /\ th[t].pc = "disconnect" => ag[t].auth \/ th[t].err = "own"
  /\ ag[t].auth => th[t].pc \in {"disconnect", "result"}
  /\ ag[t].outcome # "unset" => th[t].pc = "result"
  /\ ag[t].outcome = "none" => ag[t].auth \/ ~ag[t].reached
  /\ ag[t].outcome = "own" => ~ag[t].auth
  /\ Offered(t)
  /\ th[t].pc = "loop" => ag[t].store = Len(ag[t].offers) /\ ag[t].store <= ag[t].ids
  /\ InAuth(t) => IF ag[t].rc = 1 THEN Len(ag[t].offers) = ag[t].ids + 1
                  ELSE ag[t].store = Len(ag[t].offers) /\ ag[t].store <= ag[t].ids
  /\ (th[t].pc \notin {"loop", "disconnect", "result"} /\ ~InAuth(t)) =>
       ag[t].offers = <<>> /\ ag[t].store = 0 /\ ~ag[t].reached

Inv == Types /\ \A t \in Threads : GilInv(t) /\ KbdInv(t) /\ AgentInv(t)

\* A step that changes the frame, the agent or the dialogue of t alone.
OneFrame(t)    == /\ th' \in [Threads -> Frames] /\ \A u \in Others(t) : th'[u] = th[u]
                  /\ th'[t].pc # "length"
OneAgent(t)    == ag' \in [Threads -> Agents] /\ \A u \in Others(t) : ag'[u] = ag[u]
OneDialogue(t) == kbd' \in [Threads -> Dialogues] /\ \A u \in Others(t) : kbd'[u] = kbd[u]

LEMMA NewAgent ==
  ASSUME Types, NEW t \in Threads, NEW a \in Agents, ag' = [ag EXCEPT ![t] = a]
  PROVE  OneAgent(t) /\ ag'[t] = a
BY DEF Types, OneAgent, Others

LEMMA NewDialogue ==
  ASSUME Types, NEW t \in Threads, NEW k \in Dialogues, kbd' = [kbd EXCEPT ![t] = k]
  PROVE  OneDialogue(t) /\ kbd'[t] = k
BY DEF Types, OneDialogue, Others

\* What is left to show of a step of t.
LEMMA OthersKeep ==
  ASSUME Inv, Types', NEW t \in Threads, GilInv(t)', KbdInv(t)', AgentInv(t)',
         \A u \in Others(t) : /\ th'[u] = th[u] /\ ag'[u] = ag[u] /\ (gil' = u => gil = u)
                              /\ \/ UNCHANGED answer /\ kbd'[u] = kbd[u]
                                 \/ /\ kbd'[u].heard = kbd[u].heard /\ kbd'[u].text = kbd[u].text
                                    /\ kbd'[u].intruded = (kbd[u].intruded \/ InDialogue(u))
  PROVE  Inv'
<1> SUFFICES ASSUME NEW u \in Others(t) PROVE GilInv(u)' /\ KbdInv(u)' /\ AgentInv(u)'
  BY DEF Inv, Others
<1>1. GilInv(u) /\ KbdInv(u) /\ AgentInv(u)
  BY DEF Inv, Others
<1>2. GilInv(u)'
  BY <1>1 DEF GilInv
<1>3. InDialogue(u)' = InDialogue(u)
  BY DEF InDialogue
<1>4. KbdInv(u)'
  <2>1. th'[u] = th[u]
    OBVIOUS
  <2>2. CASE UNCHANGED answer /\ kbd'[u] = kbd[u]
    BY <1>1, <1>3, <2>1, <2>2 DEF KbdInv
  <2>3. CASE /\ kbd'[u].heard = kbd[u].heard /\ kbd'[u].text = kbd[u].text
             /\ kbd'[u].intruded = (kbd[u].intruded \/ InDialogue(u))
    <3>1. th[u].pc = "length" => InDialogue(u)
      BY DEF InDialogue
    <3>2. QED
      BY <1>1, <1>3, <2>1, <2>3, <3>1 DEF KbdInv
  <2>4. QED
    BY <2>2, <2>3
<1>5. AgentInv(u)'
  BY <1>1 DEF AgentInv, Offered, InAuth
<1>6. QED
  BY <1>2, <1>4, <1>5

\* A step that leaves the answers, the callbacks and the agents alone.
LEMMA QuietStep ==
  ASSUME Inv, NEW t \in Threads, NEW pc, NEW back, NEW nested, NEW err, NEW kept,
         Becomes(t, pc, back, nested, err, kept), UNCHANGED <<answer, func, set, kbd, ag>>,
         gil' \in {gil, t, Nobody}, GilInv(t)', AgentInv(t)',
         pc # "length", InDialogue(t)' = InDialogue(t)
  PROVE  Inv'
<1>1. gil' \in Somebody
  BY DEF Inv, Types, Somebody
<1>2. Types'
  BY <1>1 DEF Inv, Types, Becomes
<1>3. KbdInv(t)'
  BY DEF Inv, KbdInv, Becomes
<1>4. \A u \in Others(t) : th'[u] = th[u] /\ ag'[u] = ag[u] /\ (gil' = u => gil = u)
  BY Instance DEF Others, Becomes
<1>5. QED
  BY <1>2, <1>3, <1>4, OthersKeep

\* The same with a new state of the agent of t.
LEMMA AgentStep ==
  ASSUME Inv, NEW t \in Threads, OneFrame(t), OneAgent(t), UNCHANGED <<answer, func, set, kbd>>,
         gil' \in {gil, t, Nobody}, GilInv(t)', AgentInv(t)', InDialogue(t)' <=> InDialogue(t)
  PROVE  Inv'
<1>1. gil' \in Somebody
  BY DEF Inv, Types, Somebody
<1>2. Types'
  BY <1>1 DEF Inv, Types, OneFrame, OneAgent
<1>3. KbdInv(t)'
  BY DEF Inv, KbdInv, OneFrame
<1>4. \A u \in Others(t) : th'[u] = th[u] /\ ag'[u] = ag[u] /\ (gil' = u => gil = u)
  BY Instance DEF Others, OneFrame, OneAgent
<1>5. QED
  BY <1>2, <1>3, <1>4, OthersKeep

\* A step of the dialogue of t.
LEMMA DialogueStep ==
  ASSUME Inv, NEW t \in Threads, th' \in [Threads -> Frames], \A u \in Others(t) : th'[u] = th[u],
         OneDialogue(t), UNCHANGED <<answer, func, set, ag>>,
         gil' \in {gil, t}, GilInv(t)', KbdInv(t)', AgentInv(t)'
  PROVE  Inv'
<1>1. gil' \in Somebody
  BY DEF Inv, Types, Somebody
<1>2. Types'
  BY <1>1 DEF Inv, Types, OneDialogue
<1>3. \A u \in Others(t) : th'[u] = th[u] /\ ag'[u] = ag[u] /\ (gil' = u => gil = u)
  BY Instance DEF Others
<1>4. QED
  BY <1>2, <1>3, OthersKeep DEF OneDialogue

\* A call that writes the globals tells every dialogue under way.
LEMMA AnswerStep ==
  ASSUME Inv, NEW t \in Threads, NEW pc, NEW back, NEW nested, NEW err, NEW kept,
         Becomes(t, pc, back, nested, err, kept), UNCHANGED <<func, set, ag>>,
         kbd' = [u \in Threads |-> [kbd[u] EXCEPT !.intruded = @ \/ InDialogue(u)]],
         answer' \in [text : Somebody, len : Somebody],
         gil' \in {gil, Nobody}, GilInv(t)', AgentInv(t)', kbd[t].heard = {}, pc # "length",
         InDialogue(t)' => answer'.text = t /\ answer'.len = t
  PROVE  Inv'
<1>1. gil' \in Somebody
  BY DEF Inv, Types, Somebody
<1>2. ASSUME NEW u \in Threads
      PROVE  /\ kbd'[u] \in Dialogues /\ kbd'[u].heard = kbd[u].heard /\ kbd'[u].text = kbd[u].text
             /\ kbd'[u].intruded = (kbd[u].intruded \/ InDialogue(u))
  <2> DEFINE b == kbd[u].intruded \/ InDialogue(u)
  <2>1. kbd[u] \in Dialogues /\ b \in BOOLEAN /\ kbd'[u] = [kbd[u] EXCEPT !.intruded = b]
    BY DEF Inv, Types, Dialogues, InDialogue
  <2> HIDE DEF b
  <2>2. /\ kbd'[u] \in Dialogues /\ kbd'[u].heard = kbd[u].heard /\ kbd'[u].text = kbd[u].text
        /\ kbd'[u].intruded = b
    BY <2>1 DEF Dialogues
  <2>3. QED
    BY <2>2 DEF b
<1>3. kbd' \in [Threads -> Dialogues]
  <2> DEFINE e(u) == [kbd[u] EXCEPT !.intruded = @ \/ InDialogue(u)]
  <2>1. kbd' = [u \in Threads |-> e(u)]
    OBVIOUS
  <2>2. \A u \in Threads : e(u) \in Dialogues
    BY <1>2
  <2> HIDE DEF e
  <2>3. QED
    BY <2>1, <2>2
<1>4. Types'
  BY <1>1, <1>3 DEF Inv, Types, Becomes
<1>5. KbdInv(t)'
  BY <1>2 DEF KbdInv, Becomes
<1>6. \A u \in Others(t) : th'[u] = th[u] /\ ag'[u] = ag[u] /\ (gil' = u => gil = u)
  BY Instance DEF Others, Becomes
<1>7. QED
  BY <1>2, <1>4, <1>5, <1>6, OthersKeep DEF Others

LEMMA AgentRest ==
  /\ Agent \in Agents /\ Agent.ids = 0 /\ Agent.store = 0 /\ Agent.offers = <<>> /\ Len(Agent.offers) = 0
  /\ ~Agent.reached /\ ~Agent.auth /\ Agent.outcome = "unset"
<1>1. 0 \in 0 .. MaxIds /\ <<>> \in Seq(0 .. MaxIds)
  BY Instance
<1>2. QED
  BY <1>1 DEF Agent, Agents

LEMMA InvInit == Init => Inv
<1> SUFFICES ASSUME Init PROVE Inv
  OBVIOUS
<1>1. Dialogue \in Dialogues /\ Dialogue.heard = {}
  <2>1. 0 \in 0 .. MaxPrompts
    BY Instance
  <2>2. QED
    BY <2>1 DEF Dialogue, Dialogues, Somebody
<1>2. Types
  BY <1>1, IdleFrame, AgentRest DEF Init, Types, Somebody
<1>3. ASSUME NEW t \in Threads PROVE GilInv(t) /\ KbdInv(t) /\ AgentInv(t)
  <2>1. th[t].pc = "python" /\ th[t].err = "none" /\ kbd[t].heard = {} /\ ag[t] = Agent
    BY <1>1, IdleFrame DEF Init
  <2>2. Offered(t)
    BY <2>1, AgentRest DEF Offered
  <2>3. QED
    BY <2>1, <2>2, AgentRest DEF GilInv, KbdInv, InDialogue, AgentInv, InAuth
<1>4. QED
  BY <1>2, <1>3 DEF Inv

LEMMA InvStep == Inv /\ [Next]_vars => Inv'
<1> SUFFICES ASSUME Inv, [Next]_vars PROVE Inv'
  OBVIOUS
<1>0. /\ Types /\ \A t \in Threads : GilInv(t) /\ KbdInv(t) /\ AgentInv(t) /\ th[t] \in Frames
                                     /\ kbd[t] \in Dialogues /\ ag[t] \in Agents
      /\ \A t \in Threads : t # Nobody
  BY Instance DEF Inv, Types
<1>1. ASSUME NEW t \in Threads, Resume(t) PROVE Inv'
  <2>1. Becomes(t, th[t].pc, th[t].back, th[t].nested, th[t].err, th[t].kept)
    BY <1>0, <1>1, NewFrame DEF Resume, Types, Becomes
  <2>2. GilInv(t)'
    BY <1>0, <1>1, <2>1 DEF Resume, GilInv, Becomes, OutOfStub, Runs, Allow, Regain, MayCallBack
  <2>3. AgentInv(t)'
    BY <1>0, <1>1, <2>1 DEF Resume, AgentInv, Offered, InAuth, Becomes, Runs, MayCallBack
  <2>4. InDialogue(t)' = InDialogue(t) /\ gil' \in {gil, t, Nobody}
    BY <1>0, <1>1, <2>1 DEF Resume, InDialogue, Becomes, Runs, Allow, Regain, MayCallBack
  <2>5. QED
    BY <1>0, <1>1, <2>1, <2>2, <2>3, <2>4, QuietStep DEF Resume, Runs
<1>2. ASSUME NEW t \in Threads, Switch(t) PROVE Inv'
  <2>1. Becomes(t, th[t].pc, th[t].back, th[t].nested, th[t].err, th[t].kept)
    BY <1>0, <1>2, NewFrame DEF Switch, Types, Becomes
  <2>2. GilInv(t)'
    BY <1>0, <1>2, <2>1 DEF Switch, GilInv, Becomes, OutOfStub, Runs, Allow, Regain, MayCallBack
  <2>3. AgentInv(t)'
    BY <1>0, <1>2, <2>1 DEF Switch, AgentInv, Offered, InAuth, Becomes, Runs, MayCallBack
  <2>4. InDialogue(t)' = InDialogue(t) /\ gil' \in {gil, t, Nobody}
    BY <1>0, <1>2, <2>1 DEF Switch, InDialogue, Becomes, Runs, Allow, Regain, MayCallBack
  <2>5. QED
    BY <1>0, <1>2, <2>1, <2>2, <2>3, <2>4, QuietStep DEF Switch, Runs
<1>3. ASSUME NEW t \in Threads, Surface(t) PROVE Inv'
  <2>1. Becomes(t, th[t].pc, th[t].back, th[t].nested, "none", th[t].kept)
    BY <1>0, <1>3, PendingFrame DEF Surface, Pendings
  <2>2. GilInv(t)'
    BY <1>0, <1>3, <2>1 DEF Surface, GilInv, Becomes, OutOfStub, Runs, Allow, Regain, MayCallBack
  <2>3. AgentInv(t)'
    BY <1>0, <1>3, <2>1 DEF Surface, AgentInv, Offered, InAuth, Becomes, Runs, MayCallBack
  <2>4. InDialogue(t)' = InDialogue(t) /\ gil' \in {gil, t, Nobody}
    BY <1>0, <1>3, <2>1 DEF Surface, InDialogue, Becomes, Runs, Allow, Regain, MayCallBack
  <2>5. QED
    BY <1>0, <1>3, <2>1, <2>2, <2>3, <2>4, QuietStep DEF Surface, Runs
<1>4. ASSUME NEW t \in Threads, NativeBegin(t) PROVE Inv'
  <2>1. Becomes(t, "native", th[t].back, th[t].nested, th[t].err, th[t].kept)
    BY <1>0, <1>4, EnterFrame, Instance DEF NativeBegin, Places, Calls
  <2>2. GilInv(t)'
    BY <1>0, <1>4, <2>1 DEF NativeBegin, GilInv, Becomes, OutOfStub, Runs, Allow, Regain, MayCallBack
  <2>3. AgentInv(t)'
    BY <1>0, <1>4, <2>1 DEF NativeBegin, AgentInv, Offered, InAuth, Becomes, Runs, MayCallBack
  <2>4. InDialogue(t)' = InDialogue(t) /\ gil' \in {gil, t, Nobody}
    BY <1>0, <1>4, <2>1 DEF NativeBegin, InDialogue, Becomes, Runs, Allow, Regain, MayCallBack
  <2>5. QED
    BY <1>0, <1>4, <2>1, <2>2, <2>3, <2>4, QuietStep DEF NativeBegin, Runs
<1>5. ASSUME NEW t \in Threads, NativeEnd(t) PROVE Inv'
  <2>1. Becomes(t, "python", "python", FALSE, th[t].err, FALSE)
    BY <1>0, <1>5, LeaveFrame DEF NativeEnd
  <2>2. GilInv(t)'
    BY <1>0, <1>5, <2>1 DEF NativeEnd, GilInv, Becomes, OutOfStub, Runs, Allow, Regain, MayCallBack
  <2>3. AgentInv(t)'
    BY <1>0, <1>5, <2>1 DEF NativeEnd, AgentInv, Offered, InAuth, Becomes, Runs, MayCallBack
  <2>4. InDialogue(t)' = InDialogue(t) /\ gil' \in {gil, t, Nobody}
    BY <1>0, <1>5, <2>1 DEF NativeEnd, InDialogue, Becomes, Runs, Allow, Regain, MayCallBack
  <2>5. QED
    BY <1>0, <1>5, <2>1, <2>2, <2>3, <2>4, QuietStep DEF NativeEnd, Runs
<1>6. ASSUME NEW t \in Threads, CallbackSetNothing(t) PROVE Inv'
  <2>1. Becomes(t, th[t].pc, th[t].back, th[t].nested, "stray", th[t].kept)
    BY <1>0, <1>6, PendingFrame DEF CallbackSetNothing, Pendings
  <2>2. GilInv(t)'
    BY <1>0, <1>6, <2>1 DEF CallbackSetNothing, GilInv, Becomes, OutOfStub, Runs, Allow, Regain, MayCallBack
  <2>3. AgentInv(t)'
    BY <1>0, <1>6, <2>1 DEF CallbackSetNothing, AgentInv, Offered, InAuth, Becomes, Runs, MayCallBack
  <2>4. InDialogue(t)' = InDialogue(t) /\ gil' \in {gil, t, Nobody}
    BY <1>0, <1>6, <2>1 DEF CallbackSetNothing, InDialogue, Becomes, Runs, Allow, Regain, MayCallBack
  <2>5. QED
    BY <1>0, <1>6, <2>1, <2>2, <2>3, <2>4, QuietStep DEF CallbackSetNothing, Runs
<1>7. ASSUME NEW t \in Threads, Event(t) PROVE Inv'
  <2>1. Becomes(t, "ensure", th[t].pc, th[t].nested, th[t].err, th[t].kept)
    BY <1>0, <1>7, EventFrame DEF Event
  <2>2. GilInv(t)'
    BY <1>0, <1>7, <2>1 DEF Event, GilInv, Becomes, OutOfStub, Runs, Allow, Regain, MayCallBack
  <2>3. AgentInv(t)'
    BY <1>0, <1>7, <2>1 DEF Event, AgentInv, Offered, InAuth, Becomes, Runs, MayCallBack
  <2>4. InDialogue(t)' = InDialogue(t) /\ gil' \in {gil, t, Nobody}
    BY <1>0, <1>7, <2>1 DEF Event, InDialogue, Becomes, Runs, Allow, Regain, MayCallBack
  <2>5. QED
    BY <1>0, <1>7, <2>1, <2>2, <2>3, <2>4, QuietStep DEF Event, Runs
\* The GIL was there already: only a thread that kept it is in a native call that released it.
<1>8. ASSUME NEW t \in Threads, Ensure(t) PROVE Inv'
  <2>1. Becomes(t, "callback", th[t].back, gil = t, th[t].err, th[t].kept)
    BY <1>0, <1>8, EnsureFrame DEF Ensure
  <2>2. GilInv(t)'
    BY <1>0, <1>8, <2>1 DEF Ensure, GilInv, Becomes, OutOfStub, Runs, Allow, Regain, MayCallBack
  <2>3. AgentInv(t)'
    BY <1>0, <1>8, <2>1 DEF Ensure, AgentInv, Offered, InAuth, Becomes, Runs, MayCallBack
  <2>4. InDialogue(t)' = InDialogue(t) /\ gil' \in {gil, t, Nobody}
    BY <1>0, <1>8, <2>1 DEF Ensure, InDialogue, Becomes, Runs, Allow, Regain, MayCallBack
  <2>5. QED
    BY <1>0, <1>8, <2>1, <2>2, <2>3, <2>4, QuietStep DEF Ensure, Runs
<1>9. ASSUME NEW t \in Threads, AgentBegin(t) PROVE Inv'
  <2>1. Becomes(t, "connect", th[t].back, th[t].nested, th[t].err, th[t].kept)
    BY <1>0, <1>9, EnterFrame, Instance DEF AgentBegin, Places, Calls
  <2>2. GilInv(t)'
    BY <1>0, <1>9, <2>1 DEF AgentBegin, GilInv, Becomes, OutOfStub, Runs, Allow, Regain, MayCallBack
  <2>3. AgentInv(t)'
    BY <1>0, <1>9, <2>1 DEF AgentBegin, AgentInv, Offered, InAuth, Becomes, Runs, MayCallBack
  <2>4. InDialogue(t)' = InDialogue(t) /\ gil' \in {gil, t, Nobody}
    BY <1>0, <1>9, <2>1 DEF AgentBegin, InDialogue, Becomes, Runs, Allow, Regain, MayCallBack
  <2>5. QED
    BY <1>0, <1>9, <2>1, <2>2, <2>3, <2>4, QuietStep DEF AgentBegin, Runs
<1>10. ASSUME NEW t \in Threads, AgentNextFails(t) PROVE Inv'
  <2>1. Becomes(t, "disconnect", th[t].back, th[t].nested, "own", th[t].kept)
    BY <1>0, <1>10, GiveUpFrame DEF AgentNextFails
  <2>2. GilInv(t)'
    BY <1>0, <1>10, <2>1 DEF AgentNextFails, GilInv, Becomes, OutOfStub, Runs, Allow, Regain, MayCallBack
  <2>3. AgentInv(t)'
    BY <1>0, <1>10, <2>1 DEF AgentNextFails, AgentInv, Offered, InAuth, Becomes, Runs, MayCallBack
  <2>4. InDialogue(t)' = InDialogue(t) /\ gil' \in {gil, t, Nobody}
    BY <1>0, <1>10, <2>1 DEF AgentNextFails, InDialogue, Becomes, Runs, Allow, Regain, MayCallBack
  <2>5. UNCHANGED <<answer, func, set, kbd, ag>>
    BY <1>10 DEF AgentNextFails
  <2>6. QED
    BY <1>0, <2>1, <2>2, <2>3, <2>4, <2>5, QuietStep
<1>11. ASSUME NEW t \in Threads, Return(t) PROVE Inv'
  <2>1. PICK err \in {th[t].err, "stray"} : th' = [th EXCEPT ![t] = Back(t, err)]
    BY <1>11 DEF Return
  <2>2. err \in Pendings /\ (err = "own" => th[t].err = "own")
    BY <1>0, <2>1 DEF Frames, Pendings
  <2>3. Becomes(t, th[t].back, "python", FALSE, err, th[t].kept)
    BY <1>0, <2>1, <2>2, ReturnFrame
  <2>4. th[t].back \in MayCallBack /\ th[t].pc = "callback"
    BY <1>0, <1>11 DEF GilInv, Return, Runs
  <2>5. GilInv(t)'
    BY <1>0, <1>11, <2>3, <2>4 DEF Return, GilInv, Becomes, OutOfStub, MayCallBack
  <2>6. AgentInv(t)'
    BY <1>0, <1>11, <2>2, <2>3, <2>4 DEF Return, AgentInv, Offered, InAuth, Becomes, MayCallBack
  <2>7. InDialogue(t)' = InDialogue(t) /\ gil' \in {gil, t, Nobody}
    BY <1>11, <2>3, <2>4 DEF Return, InDialogue, Becomes, MayCallBack
  <2>8. th[t].back # "length" /\ UNCHANGED <<answer, func, set, kbd, ag>>
    BY <1>11, <2>4 DEF Return, MayCallBack
  <2>9. QED
    BY <1>0, <2>3, <2>5, <2>6, <2>7, <2>8, QuietStep
\* The GIL stays where it is: with this thread, which has kept it from now on if it had not before.
<1>12. ASSUME NEW t \in Threads, ReturnNegative(t) PROVE Inv'
  <2> DEFINE kept == th[t].kept \/ ~th[t].nested
  <2>1. /\ th[t].back \in MayCallBack /\ th[t].pc = "callback" /\ gil = t /\ kept \in BOOLEAN
        /\ th[t].nested \in BOOLEAN
    BY <1>0, <1>12 DEF GilInv, ReturnNegative, Runs, Frames
  <2>2. th' = [th EXCEPT ![t] = [Back(t, "stray") EXCEPT !.kept = kept]]
    <3>1. Back(t, "stray").kept = th[t].kept
      BY <1>0 DEF Back, Frames
    <3>2. QED
      BY <1>12, <3>1 DEF ReturnNegative
  <2>3. th[t].back \in OutOfStub => kept
    BY <1>0, <2>1 DEF GilInv
  <2> HIDE DEF kept
  <2>4. Becomes(t, th[t].back, "python", FALSE, "stray", kept)
    BY <1>0, <2>1, <2>2, BackFrame DEF Pendings
  <2>5. GilInv(t)'
    BY <2>1, <2>3, <2>4 DEF GilInv, Becomes, OutOfStub, MayCallBack
  <2>6. UNCHANGED <<gil, answer, func, set, kbd, ag>>
    BY <1>12 DEF ReturnNegative
  <2>7. AgentInv(t)'
    BY <1>0, <2>1, <2>4, <2>6 DEF AgentInv, Offered, InAuth, Becomes, MayCallBack
  <2>8. InDialogue(t)' = InDialogue(t) /\ th[t].back # "length"
    BY <2>1, <2>4 DEF InDialogue, Becomes, MayCallBack
  <2>9. QED
    BY <1>0, <2>4, <2>5, <2>6, <2>7, <2>8, QuietStep
<1>13. ASSUME NEW t \in Threads, AgentRefused(t) PROVE Inv'
  <2>1. UNCHANGED <<answer, func, set, kbd, ag>> /\ th[t].pc = "auth"
    BY <1>13 DEF AgentRefused, Runs
  <2>2. CASE ag[t].rc = 1
    <3>1. Becomes(t, "disconnect", th[t].back, th[t].nested, "own", th[t].kept) /\ gil' = Nobody
      BY <1>0, <1>13, <2>2, GiveUpFrame DEF AgentRefused, Allow
    <3>2. GilInv(t)' /\ InDialogue(t)' = InDialogue(t)
      BY <1>0, <2>1, <3>1 DEF GilInv, InDialogue, Becomes
    <3>3. AgentInv(t)'
      BY <1>0, <2>1, <3>1 DEF AgentInv, Offered, InAuth, Becomes
    <3>4. QED
      BY <2>1, <3>1, <3>2, <3>3, QuietStep
  <2>3. CASE ag[t].rc # 1
    <3>1. Becomes(t, "loop", th[t].back, th[t].nested, th[t].err, th[t].kept) /\ gil' = gil
      BY <1>0, <1>13, <2>3, GoToFrame DEF AgentRefused, Places, Calls
    <3>2. GilInv(t)' /\ InDialogue(t)' = InDialogue(t)
      BY <1>0, <2>1, <3>1 DEF GilInv, InDialogue, Becomes
    <3>3. AgentInv(t)'
      BY <1>0, <2>1, <2>3, <3>1 DEF AgentInv, Offered, InAuth, Becomes
    <3>4. QED
      BY <2>1, <3>1, <3>2, <3>3, QuietStep
  <2>4. QED
    BY <2>2, <2>3
<1>14. ASSUME NEW t \in Threads, CallbackSet(t) PROVE Inv'
  <2>1. Becomes(t, "native", th[t].back, th[t].nested, th[t].err, th[t].kept) /\ th[t].pc = "python"
    BY <1>0, <1>14, EnterFrame, Instance DEF CallbackSet, Places, Calls, Runs
  <2>2. GilInv(t)' /\ UNCHANGED <<answer, kbd, ag>> /\ gil' = Nobody
    BY <1>0, <1>14, <2>1 DEF CallbackSet, GilInv, Becomes, Allow
  <2>3. InDialogue(t)' = InDialogue(t)
    BY <2>1 DEF InDialogue, Becomes
  <2>4. AgentInv(t)'
    BY <1>0, <2>1, <2>2 DEF AgentInv, Offered, InAuth, Becomes
  <2>5. KbdInv(t)'
    BY <1>0, <2>1, <2>2, <2>3 DEF KbdInv, Becomes
  <2>6. func' \in Somebody /\ set' \in [Threads -> BOOLEAN]
    BY <1>0, <1>14 DEF CallbackSet, Types, Somebody
  <2>7. Types'
    BY <1>0, <2>1, <2>2, <2>6 DEF Types, Becomes, Somebody
  <2>8. \A u \in Others(t) : th'[u] = th[u]
    BY <2>1 DEF Becomes, Others
  <2>9. QED
    BY <1>0, <2>2, <2>4, <2>5, <2>6, <2>7, <2>8, OthersKeep DEF Others
<1>15. ASSUME NEW t \in Threads, KbdBegin(t) PROVE Inv'
  <2>1. Becomes(t, "prompt", th[t].back, th[t].nested, th[t].err, th[t].kept) /\ th[t].pc = "python"
    BY <1>0, <1>15, EnterFrame, Instance DEF KbdBegin, Places, Calls, Runs
  <2>2. UNCHANGED <<func, set, ag>> /\ gil' = Nobody /\ answer' = [text |-> t, len |-> t]
    BY <1>15 DEF KbdBegin, Allow
  <2>3. GilInv(t)' /\ AgentInv(t)'
    BY <1>0, <2>1, <2>2 DEF GilInv, AgentInv, Offered, InAuth, Becomes
  <2>4. kbd[t].heard = {}
    BY <1>0, <2>1 DEF KbdInv, InDialogue
  <2>5. answer' \in [text : Somebody, len : Somebody] /\ answer'.text = t /\ answer'.len = t
    BY <2>2 DEF Somebody
  <2>6. kbd' = [u \in Threads |-> [kbd[u] EXCEPT !.intruded = @ \/ InDialogue(u)]]
    BY <1>15 DEF KbdBegin
  <2>7. QED
    BY <2>1, <2>2, <2>3, <2>4, <2>5, <2>6, AnswerStep
\* t is in no dialogue, so that nothing is said of the globals it finds.
<1>16. ASSUME NEW t \in Threads, KbdUnparsed(t) PROVE Inv'
  <2>1. Becomes(t, th[t].pc, th[t].back, th[t].nested, th[t].err, th[t].kept) /\ th[t].pc = "python"
    BY <1>0, <1>16 DEF KbdUnparsed, Runs, Types, Becomes
  <2>2. UNCHANGED <<gil, func, set, ag>>
    BY <1>16 DEF KbdUnparsed
  <2>3. GilInv(t)' /\ AgentInv(t)'
    BY <1>0, <2>1, <2>2 DEF GilInv, AgentInv, Offered, InAuth, Becomes
  <2>4. kbd[t].heard = {} /\ ~InDialogue(t)'
    BY <1>0, <2>1 DEF KbdInv, InDialogue, Becomes
  <2>5. answer' \in [text : Somebody, len : Somebody]
    <3>1. answer \in [text : Somebody, len : Somebody] /\ t \in Somebody
      BY <1>0 DEF Types, Somebody
    <3>2. QED
      BY <1>16, <3>1 DEF KbdUnparsed
  <2>6. kbd' = [u \in Threads |-> [kbd[u] EXCEPT !.intruded = @ \/ InDialogue(u)]]
    BY <1>16 DEF KbdUnparsed
  <2>7. QED
    BY <2>1, <2>2, <2>3, <2>4, <2>5, <2>6, AnswerStep
<1>17. ASSUME NEW t \in Threads, KbdText(t) PROVE Inv'
  <2> DEFINE text == IF InDialogue(answer.text) THEN answer.text ELSE Nobody
             k == [kbd[t] EXCEPT !.prompts = kbd[t].prompts + 1, !.text = text]
  <2>1. Becomes(t, "length", th[t].back, th[t].nested, th[t].err, th[t].kept) /\ th[t].pc = "prompt"
    BY <1>0, <1>17, GoToFrame DEF KbdText, Places, Calls
  <2>2. UNCHANGED <<gil, answer, func, set, ag>> /\ kbd' = [kbd EXCEPT ![t] = k]
    <3>1. UNCHANGED <<gil, answer, func, set, ag>>
      BY <1>17 DEF KbdText
    <3>2. kbd' = [kbd EXCEPT ![t] = k]
      BY <1>17 DEF KbdText
    <3>3. QED
      BY <3>1, <3>2
  <2>3. text \in Somebody
    BY <1>0 DEF Types, Somebody
  <2>4. kbd[t].prompts + 1 \in 0 .. MaxPrompts
    BY <1>0, <1>17, Instance DEF KbdText, Dialogues
  <2>5. InDialogue(t) /\ (~kbd[t].intruded => text = t)
    BY <1>0, <2>1 DEF KbdInv, InDialogue
  <2> HIDE DEF text
  <2>6. k \in Dialogues /\ k.text = text /\ k.heard = kbd[t].heard /\ k.intruded = kbd[t].intruded
    BY <1>0, <2>3, <2>4 DEF Dialogues
  <2> HIDE DEF k
  <2>7. GilInv(t)' /\ AgentInv(t)'
    BY <1>0, <2>1, <2>2 DEF GilInv, AgentInv, Offered, InAuth, Becomes
  <2>8. kbd'[t] = k /\ OneDialogue(t)
    BY <1>0, <2>1, <2>2, <2>6, NewDialogue
  <2>9. KbdInv(t)'
    BY <1>0, <2>1, <2>2, <2>5, <2>6, <2>8 DEF KbdInv, InDialogue, Becomes
  <2>10. th' \in [Threads -> Frames] /\ (\A u \in Others(t) : th'[u] = th[u]) /\ gil' \in {gil, t}
    BY <2>1, <2>2 DEF Becomes, Others
  <2>11. QED
    BY <1>0, <2>2, <2>6, <2>7, <2>9, <2>8, <2>10, DialogueStep
<1>18. ASSUME NEW t \in Threads, KbdLength(t) PROVE Inv'
  <2> DEFINE k == [kbd[t] EXCEPT !.heard = kbd[t].heard \cup {<<kbd[t].text, answer.len>>}]
  <2>1. Becomes(t, "prompt", th[t].back, th[t].nested, th[t].err, th[t].kept) /\ th[t].pc = "length"
    BY <1>0, <1>18, GoToFrame DEF KbdLength, Places, Calls
  <2>2. UNCHANGED <<gil, answer, func, set, ag>> /\ kbd' = [kbd EXCEPT ![t] = k]
    BY <1>0, <1>18 DEF KbdLength, Types
  <2>3. k \in Dialogues /\ k.heard = kbd[t].heard \cup {<<kbd[t].text, answer.len>>}
        /\ k.intruded = kbd[t].intruded
    BY <1>0 DEF Dialogues, Types
  <2> HIDE DEF k
  <2>4. GilInv(t)' /\ AgentInv(t)'
    BY <1>0, <2>1, <2>2 DEF GilInv, AgentInv, Offered, InAuth, Becomes
  <2>5. kbd'[t] = k /\ OneDialogue(t) /\ InDialogue(t)
    BY <1>0, <2>1, <2>2, <2>3, NewDialogue DEF InDialogue
  <2>6. KbdInv(t)'
    BY <1>0, <2>1, <2>2, <2>3, <2>5 DEF KbdInv, InDialogue, Becomes
  <2>7. th' \in [Threads -> Frames] /\ (\A u \in Others(t) : th'[u] = th[u]) /\ gil' \in {gil, t}
    BY <2>1, <2>2 DEF Becomes, Others
  <2>8. QED
    BY <1>0, <2>2, <2>3, <2>4, <2>6, <2>5, <2>7, DialogueStep
<1>19. ASSUME NEW t \in Threads, KbdEnd(t) PROVE Inv'
  <2>1. Becomes(t, "python", "python", FALSE, th[t].err, FALSE) /\ th[t].pc = "prompt"
    BY <1>0, <1>19, LeaveFrame DEF KbdEnd
  <2>2. UNCHANGED <<answer, func, set, ag>> /\ kbd' = [kbd EXCEPT ![t] = Dialogue] /\ gil' = t
    BY <1>19 DEF KbdEnd, Regain
  <2>3. Dialogue \in Dialogues /\ Dialogue.heard = {}
    <3>1. 0 \in 0 .. MaxPrompts
      BY Instance
    <3>2. QED
      BY <3>1 DEF Dialogue, Dialogues, Somebody
  <2>4. GilInv(t)' /\ AgentInv(t)'
    BY <1>0, <2>1, <2>2 DEF GilInv, AgentInv, Offered, InAuth, Becomes
  <2>5. kbd'[t] = Dialogue /\ OneDialogue(t)
    BY <1>0, <2>1, <2>2, <2>3, NewDialogue
  <2>6. KbdInv(t)'
    BY <2>1, <2>3, <2>5 DEF KbdInv, InDialogue, Becomes
  <2>7. UNCHANGED <<answer, func, set, ag>> /\ gil' \in {gil, t}
    BY <2>2
  <2>8. th' \in [Threads -> Frames] /\ (\A u \in Others(t) : th'[u] = th[u]) /\ gil' \in {gil, t}
    BY <2>1, <2>2 DEF Becomes, Others
  <2>9. QED
    BY <1>0, <2>2, <2>3, <2>4, <2>6, <2>7, <2>5, <2>8, DialogueStep
\* Nothing was asked, and nothing of its own is pending.
<1>20. ASSUME NEW t \in Threads, AgentUnreachable(t) PROVE Inv'
  <2> DEFINE a == [ag[t] EXCEPT !.outcome = th[t].err]
  <2>1. Becomes(t, "result", "python", FALSE, "none", FALSE) /\ th[t].pc = "connect"
    BY <1>0, <1>20, FinishFrame DEF AgentUnreachable
  <2>2. UNCHANGED <<answer, func, set, kbd>> /\ ag' = [ag EXCEPT ![t] = a] /\ gil' = t
    BY <1>0, <1>20 DEF AgentUnreachable, Finish, Regain, Types
  <2>3. /\ a \in Agents /\ a.offers = ag[t].offers /\ a.ids = ag[t].ids /\ a.auth = ag[t].auth
        /\ a.reached = ag[t].reached /\ a.outcome = th[t].err /\ a.outcome # "own"
    BY <1>0, <2>1 DEF Agents, Frames, AgentInv
  <2> HIDE DEF a
  <2>4. ag'[t] = a /\ OneAgent(t)
    BY <1>0, <2>2, <2>3, NewAgent
  <2>5. GilInv(t)' /\ InDialogue(t)' = InDialogue(t)
    BY <2>1 DEF GilInv, InDialogue, Becomes
  <2>6. AgentInv(t)'
    BY <1>0, <2>1, <2>3, <2>4 DEF AgentInv, Offered, InAuth, Becomes
  <2>7. OneFrame(t) /\ gil' \in {gil, t, Nobody}
    BY <2>1, <2>2 DEF Becomes, OneFrame, Others
  <2>8. QED
    BY <1>0, <2>2, <2>3, <2>5, <2>6, <2>4, <2>7, AgentStep
<1>21. ASSUME NEW t \in Threads, AgentList(t) PROVE Inv'
  <2>1. PICK n \in 0 .. MaxIds : ag' = [ag EXCEPT ![t] = [@ EXCEPT !.ids = n, !.reached = TRUE]]
    BY <1>21 DEF AgentList
  <2> DEFINE a == [ag[t] EXCEPT !.ids = n, !.reached = TRUE]
  <2>2. Becomes(t, "loop", th[t].back, th[t].nested, th[t].err, th[t].kept) /\ th[t].pc = "connect"
    BY <1>0, <1>21, GoToFrame DEF AgentList, Places, Calls
  <2>3. UNCHANGED <<answer, func, set, kbd>> /\ ag' = [ag EXCEPT ![t] = a] /\ gil' = t
    BY <1>0, <1>21, <2>1 DEF AgentList, Regain, Types
  <2>4. /\ a \in Agents /\ a.offers = ag[t].offers /\ a.ids = n /\ a.auth = ag[t].auth
        /\ a.store = ag[t].store /\ a.outcome = ag[t].outcome
    BY <1>0 DEF Agents
  <2> HIDE DEF a
  <2>5. ag'[t] = a /\ OneAgent(t)
    BY <1>0, <2>3, <2>4, NewAgent
  <2>6. GilInv(t)' /\ InDialogue(t)' = InDialogue(t)
    BY <2>2 DEF GilInv, InDialogue, Becomes
  <2>7. a.offers = <<>> /\ a.store = 0 /\ Len(a.offers) = 0
    BY <1>0, <2>2, <2>4 DEF AgentInv, InAuth
  <2>8. AgentInv(t)'
    BY <1>0, <2>2, <2>4, <2>5, <2>7 DEF AgentInv, Offered, InAuth, Becomes
  <2>9. OneFrame(t) /\ gil' \in {gil, t, Nobody}
    BY <2>2, <2>3 DEF Becomes, OneFrame, Others
  <2>10. QED
    BY <1>0, <2>3, <2>4, <2>6, <2>8, <2>5, <2>9, AgentStep
<1>22. ASSUME NEW t \in Threads, AgentListFails(t) PROVE Inv'
  <2> DEFINE a == [ag[t] EXCEPT !.reached = TRUE]
  <2>1. Becomes(t, "disconnect", th[t].back, th[t].nested, "own", th[t].kept) /\ th[t].pc = "connect"
    BY <1>0, <1>22, GiveUpFrame DEF AgentListFails
  <2>2. UNCHANGED <<gil, answer, func, set, kbd>> /\ ag' = [ag EXCEPT ![t] = a] /\ gil = Nobody
    BY <1>0, <1>22 DEF AgentListFails, Types
  <2>3. /\ a \in Agents /\ a.offers = ag[t].offers /\ a.ids = ag[t].ids /\ a.auth = ag[t].auth
        /\ a.outcome = ag[t].outcome
    BY <1>0 DEF Agents
  <2> HIDE DEF a
  <2>4. ag'[t] = a /\ OneAgent(t)
    BY <1>0, <2>2, <2>3, NewAgent
  <2>5. GilInv(t)' /\ InDialogue(t)' = InDialogue(t)
    BY <1>0, <2>1, <2>2 DEF GilInv, InDialogue, Becomes
  <2>6. AgentInv(t)'
    BY <1>0, <2>1, <2>3, <2>4 DEF AgentInv, Offered, InAuth, Becomes
  <2>7. OneFrame(t) /\ gil' \in {gil, t, Nobody}
    BY <2>1, <2>2 DEF Becomes, OneFrame, Others
  <2>8. QED
    BY <1>0, <2>2, <2>3, <2>5, <2>6, <2>4, <2>7, AgentStep
\* The next identity is the one after the last offered; past the end it is the last again.
<1>23. ASSUME NEW t \in Threads, AgentNext(t) PROVE Inv'
  <2> DEFINE more == ag[t].store < ag[t].ids
             next == IF more THEN ag[t].store + 1 ELSE ag[t].store
             rc   == IF more THEN 0 ELSE 1
             s    == Append(ag[t].offers, next)
             a    == [ag[t] EXCEPT !.store = next, !.rc = rc, !.offers = s]
  <2>1. Becomes(t, "auth", th[t].back, th[t].nested, th[t].err, th[t].kept) /\ th[t].pc = "loop"
    BY <1>0, <1>23, GoToFrame DEF AgentNext, Places, Calls, Runs
  <2>2. UNCHANGED <<gil, answer, func, set, kbd>> /\ ag' = [ag EXCEPT ![t] = a] /\ gil = t
    <3>1. UNCHANGED <<gil, answer, func, set, kbd>> /\ gil = t
      BY <1>23 DEF AgentNext, Runs
    <3>2. ag' = [ag EXCEPT ![t] = a]
      BY <1>23 DEF AgentNext
    <3>3. QED
      BY <3>1, <3>2
  <2>3. /\ ag[t].store = Len(ag[t].offers) /\ ag[t].store <= ag[t].ids /\ Offered(t)
        /\ ag[t].store \in 0 .. MaxIds /\ ag[t].ids \in 0 .. MaxIds /\ ag[t].offers \in Seq(0 .. MaxIds)
    BY <1>0, <2>1 DEF AgentInv, Agents
  <2>4. next \in 0 .. MaxIds /\ rc \in 0 .. 1
    BY <2>3, Instance
  <2>5. /\ s \in Seq(0 .. MaxIds) /\ Len(s) = Len(ag[t].offers) + 1 /\ s[Len(s)] = next
        /\ \A i \in 1 .. Len(ag[t].offers) : s[i] = ag[t].offers[i]
    BY <2>3, <2>4
  <2>6. /\ Len(s) <= ag[t].ids + 1
        /\ \A i \in 1 .. Len(s) : s[i] = IF i <= ag[t].ids THEN i ELSE ag[t].ids
    <3>1. /\ Len(ag[t].offers) \in Nat /\ ag[t].ids \in Nat
          /\ next = IF Len(ag[t].offers) < ag[t].ids THEN Len(ag[t].offers) + 1 ELSE ag[t].ids
      BY <2>3, Instance
    <3>2. Len(s) <= ag[t].ids + 1
      BY <2>3, <2>5, <3>1
    <3>3. ASSUME NEW i \in 1 .. Len(s) PROVE s[i] = IF i <= ag[t].ids THEN i ELSE ag[t].ids
      <4>1. CASE i = Len(s)
        BY <2>3, <2>5, <3>1, <4>1
      <4>2. CASE i # Len(s)
        <5>1. i \in 1 .. Len(ag[t].offers)
          BY <2>5, <3>1, <4>2
        <5>2. QED
          BY <2>3, <2>5, <5>1 DEF Offered
      <4>3. QED
        BY <4>1, <4>2
    <3>4. QED
      BY <3>2, <3>3
  <2>7. IF rc = 1 THEN Len(s) = ag[t].ids + 1 ELSE next = Len(s) /\ next <= ag[t].ids
    BY <2>3, <2>5, Instance
  <2> HIDE DEF more, next, rc, s
  <2>8. /\ a \in Agents /\ a.offers = s /\ a.ids = ag[t].ids /\ a.auth = ag[t].auth
        /\ a.outcome = ag[t].outcome /\ a.rc = rc /\ a.store = next
    BY <1>0, <2>4, <2>5 DEF Agents
  <2> HIDE DEF a
  <2>9. ag'[t] = a /\ OneAgent(t)
    BY <1>0, <2>2, <2>8, NewAgent
  <2>10. GilInv(t)' /\ InDialogue(t)' = InDialogue(t)
    BY <2>1 DEF GilInv, InDialogue, Becomes
  <2>11. Offered(t)'
    BY <2>6, <2>8, <2>9 DEF Offered
  <2>12. AgentInv(t)'
    BY <1>0, <2>1, <2>7, <2>8, <2>9, <2>11 DEF AgentInv, InAuth, Becomes
  <2>13. OneFrame(t) /\ gil' \in {gil, t, Nobody}
    BY <2>1, <2>2 DEF Becomes, OneFrame, Others
  <2>14. QED
    BY <1>0, <2>2, <2>8, <2>10, <2>12, <2>9, <2>13, AgentStep
<1>24. ASSUME NEW t \in Threads, AgentAccepted(t) PROVE Inv'
  <2> DEFINE a == [ag[t] EXCEPT !.auth = TRUE]
  <2>1. Becomes(t, "disconnect", th[t].back, th[t].nested, th[t].err, th[t].kept) /\ th[t].pc = "auth"
    BY <1>0, <1>24, GoToFrame DEF AgentAccepted, Places, Calls, Runs
  <2>2. UNCHANGED <<answer, func, set, kbd>> /\ ag' = [ag EXCEPT ![t] = a] /\ gil' = Nobody
    BY <1>0, <1>24 DEF AgentAccepted, Types, Allow
  <2>3. /\ a \in Agents /\ a.offers = ag[t].offers /\ a.ids = ag[t].ids /\ a.auth
        /\ a.outcome = ag[t].outcome
    BY <1>0 DEF Agents
  <2> HIDE DEF a
  <2>4. ag'[t] = a /\ OneAgent(t)
    BY <1>0, <2>2, <2>3, NewAgent
  <2>5. GilInv(t)' /\ InDialogue(t)' = InDialogue(t)
    BY <1>0, <2>1, <2>2 DEF GilInv, InDialogue, Becomes
  <2>6. AgentInv(t)'
    BY <1>0, <2>1, <2>3, <2>4 DEF AgentInv, Offered, InAuth, Becomes
  <2>7. OneFrame(t) /\ gil' \in {gil, t, Nobody}
    BY <2>1, <2>2 DEF Becomes, OneFrame, Others
  <2>8. QED
    BY <1>0, <2>2, <2>3, <2>5, <2>6, <2>4, <2>7, AgentStep
<1>25. ASSUME NEW t \in Threads, AgentEnd(t) PROVE Inv'
  <2> DEFINE a == [ag[t] EXCEPT !.outcome = th[t].err]
  <2>1. Becomes(t, "result", "python", FALSE, "none", FALSE) /\ th[t].pc = "disconnect"
    BY <1>0, <1>25, FinishFrame DEF AgentEnd
  <2>2. UNCHANGED <<answer, func, set, kbd>> /\ ag' = [ag EXCEPT ![t] = a] /\ gil' = t
    BY <1>0, <1>25 DEF AgentEnd, Finish, Regain, Types
  <2>3. /\ a \in Agents /\ a.offers = ag[t].offers /\ a.ids = ag[t].ids /\ a.auth = ag[t].auth
        /\ a.reached = ag[t].reached /\ a.outcome = th[t].err
    BY <1>0, <2>1 DEF Agents, Frames
  <2> HIDE DEF a
  <2>4. ag'[t] = a /\ OneAgent(t)
    BY <1>0, <2>2, <2>3, NewAgent
  <2>5. GilInv(t)' /\ InDialogue(t)' = InDialogue(t)
    BY <2>1 DEF GilInv, InDialogue, Becomes
  <2>6. AgentInv(t)'
    BY <1>0, <2>1, <2>3, <2>4 DEF AgentInv, Offered, InAuth, Becomes
  <2>7. OneFrame(t) /\ gil' \in {gil, t, Nobody}
    BY <2>1, <2>2 DEF Becomes, OneFrame, Others
  <2>8. QED
    BY <1>0, <2>2, <2>3, <2>5, <2>6, <2>4, <2>7, AgentStep
<1>26. ASSUME NEW t \in Threads, AgentResult(t) PROVE Inv'
  <2>1. Becomes(t, "python", th[t].back, th[t].nested, th[t].err, th[t].kept) /\ th[t].pc = "result"
    BY <1>0, <1>26, GoToFrame DEF AgentResult, Places, Runs
  <2>2. UNCHANGED <<gil, answer, func, set, kbd>> /\ ag' = [ag EXCEPT ![t] = Agent]
    BY <1>26 DEF AgentResult
  <2>3. ag'[t] = Agent /\ OneAgent(t)
    BY <1>0, <2>2, AgentRest, NewAgent
  <2>4. GilInv(t)' /\ InDialogue(t)' = InDialogue(t)
    BY <2>1 DEF GilInv, InDialogue, Becomes
  <2>5. AgentInv(t)'
    BY <1>0, <2>1, <2>3, AgentRest DEF AgentInv, Offered, InAuth, Becomes
  <2>6. OneFrame(t) /\ gil' \in {gil, t, Nobody}
    BY <2>1, <2>2 DEF Becomes, OneFrame, Others
  <2>7. QED
    BY <1>0, <2>2, <2>4, <2>5, <2>3, <2>6, AgentStep
<1>27. CASE UNCHANGED vars
  BY <1>27 DEF vars, Inv, Types, GilInv, KbdInv, AgentInv, Offered, InAuth, InDialogue
<1>28. QED
  BY <1>1, <1>2, <1>3, <1>4, <1>5, <1>6, <1>7, <1>8, <1>9, <1>10, <1>11, <1>12, <1>13, <1>14,
     <1>15, <1>16, <1>17, <1>18, <1>19, <1>20, <1>21, <1>22, <1>23, <1>24, <1>25, <1>26, <1>27
  DEF Next, Python, Method, Message, Steps

-----------------------------------------------------------------------------
(* What follows of every run *)

LEMMA InvAlways == Spec => []Inv
BY InvInit, InvStep, PTL DEF Spec

\* Every variable keeps its type: no step leaves a thread at a place the code does not have.
THEOREM TypeCorrect == Spec => []TypeOK
<1>1. Inv => TypeOK
  BY TypesAre DEF Inv
<1>2. QED
  BY <1>1, InvAlways, PTL

\* stub_kbd_callback_func answers the prompts of a call that no other thread interrupted with the
\* password and the length of that call (interactive_response, interactive_response_len).
THEOREM AloneAnswersOwnCorrect == Spec => []AloneAnswersOwn
<1>1. Inv => AloneAnswersOwn
  BY DEF Inv, KbdInv, AloneAnswersOwn
<1>2. QED
  BY <1>1, InvAlways, PTL

\* A thread has the GIL in a native call only after stub_x11_callback_func returned without
\* PyGILState_Release, which it does for a negative number alone.
THEOREM OnlyNegativeBlocksCorrect == Spec => []OnlyNegativeBlocks
<1>1. Inv => OnlyNegativeBlocks
  BY DEF Inv, GilInv, OnlyNegativeBlocks
<1>2. QED
  BY <1>1, InvAlways, PTL

\* What userauth_agent returns or raises is what became of the authentication.
THEOREM AgentVerdictCorrect == Spec => []AgentVerdict
<1>1. Inv => AgentVerdict
  BY DEF Inv, AgentInv, AgentVerdict
<1>2. QED
  BY <1>1, InvAlways, PTL

\* userauth_agent offers the identities of the agent in their order, and none but the last twice.
THEOREM OfferedInOrderCorrect == Spec => []OfferedInOrder
<1>1. Inv => OfferedInOrder
  BY DEF Inv, AgentInv, Offered, OfferedInOrder
<1>2. QED
  BY <1>1, InvAlways, PTL
=============================================================================
