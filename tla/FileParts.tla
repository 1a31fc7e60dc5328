------------------------------ MODULE FileParts ------------------------------
(***************************************************************************)
(* Lemmas about the parts of a file, whose bytes are numbered from 1: what  *)
(* reading, buffering and writing leave of it when nothing is lost.         *)
(***************************************************************************)
EXTENDS SequenceTheorems, TLAPS

\* s is the part of a file that follows its first k bytes.
Part(s, k, size) == s \in Seq(1 .. size) /\ \A i \in 1 .. Len(s) : s[i] = k + i

\* s and r as one; the definition is expanded where it is needed only.
Join(s, r) == s \o r

LEMMA PartAppend ==
  ASSUME NEW size \in Nat, NEW k \in Nat, NEW s, NEW r, Part(s, k, size), Part(r, k + Len(s), size)
  PROVE  Part(Join(s, r), k, size) /\ Len(Join(s, r)) = Len(s) + Len(r)
<1>1. s \in Seq(1 .. size) /\ r \in Seq(1 .. size) /\ Len(s) \in Nat /\ Len(r) \in Nat
  BY LenProperties DEF Part
<1>2. /\ Join(s, r) \in Seq(1 .. size) /\ Len(Join(s, r)) = Len(s) + Len(r)
      /\ \A i \in 1 .. Len(s) + Len(r) : Join(s, r)[i] = IF i <= Len(s) THEN s[i] ELSE r[i - Len(s)]
  BY <1>1, ConcatProperties DEF Join
<1>3. ASSUME NEW i \in 1 .. Len(s) + Len(r) PROVE Join(s, r)[i] = k + i
  <2>1. CASE i <= Len(s)
    <3>1. i \in 1 .. Len(s)
      BY <1>1, <2>1
    <3>2. s[i] = k + i
      BY <3>1 DEF Part
    <3>3. QED
      BY <1>2, <2>1, <3>2
  <2>2. CASE ~(i <= Len(s))
    <3>1. i - Len(s) \in 1 .. Len(r)
      BY <1>1, <2>2
    <3>2. r[i - Len(s)] = k + Len(s) + (i - Len(s))
      BY <3>1 DEF Part
    <3>3. QED
      BY <1>1, <1>2, <2>2, <3>2
  <2>3. QED
    BY <2>1, <2>2
<1>4. QED
  BY <1>2, <1>3 DEF Part

\* The n elements of s after the first m.
Cut(s, m, n) == SubSeq(s, m + 1, m + n)

LEMMA PartOfPart ==
  ASSUME NEW size \in Nat, NEW k \in Nat, NEW m \in Nat, NEW n \in Nat, NEW s, Part(s, k, size), m + n <= Len(s)
  PROVE  Part(Cut(s, m, n), k + m, size) /\ Len(Cut(s, m, n)) = n
<1>1. s \in Seq(1 .. size) /\ Len(s) \in Nat
  BY LenProperties DEF Part
<1>2. \A i \in m + 1 .. m + n : s[i] \in 1 .. size
  BY <1>1, ElementOfSeq
<1>3. /\ Cut(s, m, n) \in Seq(1 .. size)
      /\ Len(Cut(s, m, n)) = IF m + 1 <= m + n THEN (m + n) - (m + 1) + 1 ELSE 0
      /\ \A i \in 1 .. (m + n) - (m + 1) + 1 : Cut(s, m, n)[i] = s[(m + 1) + i - 1]
  <2> DEFINE S == 1 .. size  first == m + 1  last == m + n
  <2>1. first \in Int /\ last \in Int /\ \A i \in first .. last : s[i] \in S
    BY <1>2
  <2>2. Cut(s, m, n) = SubSeq(s, first, last)
    BY DEF Cut
  <2> HIDE DEF S, first, last
  <2>3. /\ Cut(s, m, n) \in Seq(S)
        /\ Len(Cut(s, m, n)) = IF first <= last THEN last - first + 1 ELSE 0
        /\ \A i \in 1 .. last - first + 1 : Cut(s, m, n)[i] = s[first + i - 1]
    BY <2>1, <2>2, SubSeqProperties
  <2>4. QED
    BY <2>3 DEF S, first, last
<1>4. Len(Cut(s, m, n)) = n
  BY <1>3
<1>5. ASSUME NEW i \in 1 .. n PROVE Cut(s, m, n)[i] = (k + m) + i
  <2>1. m + i \in 1 .. Len(s) /\ (m + 1) + i - 1 = m + i
    BY <1>1
  <2>2. QED
    BY <1>3, <2>1 DEF Part
<1>6. QED
  BY <1>3, <1>4, <1>5 DEF Part

LEMMA BeginningOfPart ==
  ASSUME NEW size \in Nat, NEW k \in Nat, NEW n \in Nat, NEW s, Part(s, k, size), n <= Len(s)
  PROVE  Part(SubSeq(s, 1, n), k, size) /\ Len(SubSeq(s, 1, n)) = n
<1>1. SubSeq(s, 1, n) = Cut(s, 0, n)
  BY DEF Cut
<1>2. k + 0 = k /\ 0 + n <= Len(s)
  OBVIOUS
<1>3. Part(Cut(s, 0, n), k + 0, size) /\ Len(Cut(s, 0, n)) = n
  BY <1>2, PartOfPart
<1>4. QED
  BY <1>1, <1>2, <1>3

LEMMA NoPart == ASSUME NEW size \in Nat, NEW k \in Nat PROVE Part(<<>>, k, size) /\ Len(<<>>) = 0
BY EmptySeq DEF Part

LEMMA PartIsShort ==
  ASSUME NEW size \in Nat, NEW k \in Nat, NEW s, Part(s, k, size)
  PROVE  Len(s) \in Nat /\ (Len(s) = 0 => s = <<>>) /\ (Len(s) > 0 => k + Len(s) <= size)
<1>1. s \in Seq(1 .. size) /\ Len(s) \in Nat
  BY LenProperties DEF Part
<1>2. Len(s) > 0 => k + Len(s) <= size
  BY <1>1 DEF Part
<1>3. QED
  BY <1>1, <1>2, EmptySeq

\* Two parts of the same length that begin together are one.
LEMMA PartUnique ==
  ASSUME NEW size \in Nat, NEW k \in Nat, NEW s, NEW r, Part(s, k, size), Part(r, k, size), Len(s) = Len(r)
  PROVE  s = r
BY SeqEqual DEF Part
=============================================================================
