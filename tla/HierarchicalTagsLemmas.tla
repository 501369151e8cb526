------------------------ MODULE HierarchicalTagsLemmas ------------------------
(***************************************************************************)
(* What the array operations of HierarchicalTags return, for the proofs of *)
(* both pickers.                                                           *)
(***************************************************************************)
EXTENDS HierarchicalTags, SequenceTheorems, TLAPS

(***************************************************************************)
(* The copy-assign-truncate on arrays.                                     *)
(***************************************************************************)

LEMMA PutAndTruncateShape ==
    ASSUME NEW S, NEW s \in Seq(S), NEW k \in Nat \ {0}, NEW v
    PROVE  LET r == PutAndTruncate(s, k, v) IN
           /\ r \in Seq(S \cup {v} \cup Unset)
           /\ Len(r) = k
           /\ r[k] = v
           /\ \A i \in 1..k - 1 :
                  r[i] = IF i <= Len(s) THEN Spread(s[i]) ELSE Hole
BY DEF PutAndTruncate, Spread, Unset

\* Written at most one past the end, into a sequence of S without holes,
\* it leaves no hole and copies every slot as it is.
LEMMA PutAndTruncateNoHole ==
    ASSUME NEW S, Hole \notin S, NEW s \in Seq(S), NEW k \in 1..Len(s) + 1,
           NEW v \in S
    PROVE  /\ PutAndTruncate(s, k, v) \in Seq(S)
           /\ Len(PutAndTruncate(s, k, v)) = k
           /\ \A i \in 1..k : PutAndTruncate(s, k, v)[i] =
                                  IF i = k THEN v ELSE s[i]
BY DEF PutAndTruncate, Spread

\* arr.slice(0, 1)
LEMMA KeepFirstShape ==
    ASSUME NEW S, NEW s \in Seq(S)
    PROVE  /\ KeepFirst(s) \in Seq(S)
           /\ Len(s) = 0 => KeepFirst(s) = <<>>
           /\ Len(s) > 0 => KeepFirst(s) = <<s[1]>>
<1>1. CASE Len(s) = 0
  <2>1. KeepFirst(s) = SubSeq(s, 1, 0)
    BY <1>1 DEF KeepFirst
  <2> QED
    BY <1>1, <2>1
<1>2. CASE Len(s) > 0
  <2>1. KeepFirst(s) = SubSeq(s, 1, 1)
    BY <1>2 DEF KeepFirst
  <2>2. /\ SubSeq(s, 1, 1) \in Seq(S)
        /\ Len(SubSeq(s, 1, 1)) = 1
        /\ SubSeq(s, 1, 1)[1] = s[1]
    BY <1>2, SubSeqProperties
  <2>3. <<s[1]>> \in Seq(S) /\ Len(<<s[1]>>) = 1 /\ <<s[1]>>[1] = s[1]
    BY <1>2, ElementOfSeq
  <2>4. \A i \in 1..Len(SubSeq(s, 1, 1)) : SubSeq(s, 1, 1)[i] = <<s[1]>>[i]
    BY <2>2, <2>3
  <2>5. SubSeq(s, 1, 1) = <<s[1]>>
    BY <2>2, <2>3, <2>4, SeqEqual
  <2> QED
    BY <1>2, <2>1, <2>2, <2>5
<1> QED
  BY <1>1, <1>2

\* A level written at most one past the end of a cascade, listing the
\* children of the tag shown above it (or the root, at the top), leaves a
\* cascade.
LEMMA PutAndTruncateCascade ==
    ASSUME NEW s \in Seq(Parents), IsCascade(s),
           NEW k \in 1..Len(s) + 1, NEW v \in Parents,
           IF k = 1 THEN v = RootId ELSE v \in Kids(s[k - 1])
    PROVE  /\ PutAndTruncate(s, k, v) \in Seq(Parents)
           /\ IsCascade(PutAndTruncate(s, k, v))
<1>0. Hole \notin Parents
  BY TagsAssumption DEF Parents
<1>1. /\ PutAndTruncate(s, k, v) \in Seq(Parents)
      /\ Len(PutAndTruncate(s, k, v)) = k
      /\ \A i \in 1..k : PutAndTruncate(s, k, v)[i] =
                             IF i = k THEN v ELSE s[i]
  BY <1>0, PutAndTruncateNoHole
<1> QED
  BY <1>1 DEF IsCascade
=============================================================================
