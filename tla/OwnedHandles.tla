---------------------------- MODULE OwnedHandles ----------------------------
(***************************************************************************)
(* What the wrappers promise their user: a wrapper and the native object   *)
(* behind it are created together and end together, once, and nothing else *)
(* ends the native object.                                                 *)
(***************************************************************************)
CONSTANT Objs

VARIABLES wrapper, native
vars == <<wrapper, native>>

Init == /\ wrapper = [o \in Objs |-> "none"]
        /\ native = [o \in Objs |-> "none"]

Open(o) == /\ wrapper[o] = "none" /\ native[o] = "none"
           /\ wrapper' = [wrapper EXCEPT ![o] = "open"]
           /\ native' = [native EXCEPT ![o] = "live"]

Close(o) == /\ wrapper[o] = "open" /\ native[o] = "live"
            /\ wrapper' = [wrapper EXCEPT ![o] = "closed"]
            /\ native' = [native EXCEPT ![o] = "dead"]

Next == \E o \in Objs : Open(o) \/ Close(o)
Spec == Init /\ [][Next]_vars
=============================================================================
