------------------------------- MODULE FileCopy -------------------------------
(***************************************************************************)
(* What every copy of the library promises, scp or SFTP: until the call     *)
(* returns or raises, the destination grows by bytes of the source, in      *)
(* order and without a gap; afterwards the call does not change it. It is   *)
(* not promised that the whole of the source arrives.                       *)
(***************************************************************************)
EXTENDS Naturals, Sequences

CONSTANT Size    \* bound: length of the source

VARIABLES
  out,    \* the destination
  state   \* "working", then "returned" or "raised"

Source == [i \in 1 .. Size |-> i]

Init == out = <<>> /\ state = "working"

Extend ==
  /\ state = "working" /\ UNCHANGED state
  /\ \E n \in Len(out) + 1 .. Size : out' = SubSeq(Source, 1, n)

\* The last bytes may come with the exception that ends the call.
End ==
  /\ state = "working" /\ state' \in {"returned", "raised"}
  /\ \E n \in Len(out) .. Size : out' = SubSeq(Source, 1, n)

Next == Extend \/ End
Spec == Init /\ [][Next]_<<out, state>>
=============================================================================
