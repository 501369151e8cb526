----------------------- MODULE HierarchicalTagSelectorProofs -----------------------
(***************************************************************************)
(* Proof, for every tag tree and every bound on the loads in flight, that  *)
(* the modal keeps its types and always shows a cascade of levels, however *)
(* the answers of racing loads are ordered.                                *)
(*                                                                         *)
(* LevelsFormCascade is not inductive alone: a continuation commits the    *)
(* tagLevels its click captured, which may be long gone.  LoadInv says     *)
(* what every load in the bag carries: a snapshot that was a cascade, a    *)
(* level at most one past its end, and a parent shown just above it.       *)
(* Unlike the dropdown, no invariant ties a load to the live state.        *)
(***************************************************************************)
EXTENDS HierarchicalTagSelector, HierarchicalTagsLemmas, SequenceTheorems,
        TLAPS

\* What a load in flight carries.
LoadInv(l) ==
    /\ l.level \in 1..Len(l.levels) + 1
    /\ IsCascade(l.levels)
    /\ IF l.level = 1 THEN l.parent = RootId
                      ELSE l.parent \in Kids(l.levels[l.level - 1])

IInv ==
    /\ TypeOK
    /\ LevelsFormCascade
    /\ \A l \in BagToSet(inFlight) : LoadInv(l)

-----------------------------------------------------------------------------
(***************************************************************************)
(* Adding and removing one copy of a load.                                 *)
(***************************************************************************)

LEMMA BagAddOne ==
    ASSUME NEW B, IsABag(B), NEW x
    PROVE  /\ IsABag(B (+) SetToBag({x}))
           /\ BagToSet(B (+) SetToBag({x})) = BagToSet(B) \cup {x}
BY DEF IsABag, BagToSet, SetToBag, (+)

LEMMA BagRemoveOne ==
    ASSUME NEW B, IsABag(B), NEW x
    PROVE  /\ IsABag(B (-) SetToBag({x}))
           /\ BagToSet(B (-) SetToBag({x})) \subseteq BagToSet(B)
BY DEF IsABag, BagToSet, SetToBag, (-)

-----------------------------------------------------------------------------
(***************************************************************************)
(* The inductive invariant.                                                *)
(***************************************************************************)

LEMMA InitIInv == Init => IInv
<1> SUFFICES ASSUME Init PROVE IInv
  OBVIOUS
<1>1. IsABag(inFlight) /\ BagToSet(inFlight) = {}
  BY DEF Init, EmptyBag, SetToBag, IsABag, BagToSet
<1>2. /\ tagLevels \in Seq(Parents) /\ selectedPath \in Seq(Slot)
      /\ result \in Seq(Slot) /\ loading \in BOOLEAN /\ visible \in BOOLEAN
  BY EmptySeq DEF Init
<1>3. IsCascade(tagLevels)
  BY DEF Init, IsCascade
<1> QED
  BY <1>1, <1>2, <1>3 DEF IInv, TypeOK, LevelsFormCascade

\* A load started from the live levels, for parent p written at level k.
LEMMA StartIInv ==
    ASSUME IInv, NEW p \in Parents, NEW k \in 1..Len(tagLevels) + 1,
           IF k = 1 THEN p = RootId ELSE p \in Kids(tagLevels[k - 1]),
           StartLoad(p, k)
    PROVE  /\ IsABag(inFlight')
           /\ BagToSet(inFlight') \subseteq Load
           /\ loading' \in BOOLEAN
           /\ \A l \in BagToSet(inFlight') : LoadInv(l)
<1> DEFINE nl == [parent |-> p, level |-> k, levels |-> tagLevels]
<1>1. /\ IsABag(inFlight')
      /\ BagToSet(inFlight') = BagToSet(inFlight) \cup {nl}
  BY BagAddOne DEF StartLoad, IInv, TypeOK
<1>2. nl \in Load
  BY DEF IInv, TypeOK, Load
<1>3. LoadInv(nl)
  BY DEF IInv, LevelsFormCascade, LoadInv
<1> QED
  BY <1>1, <1>2, <1>3 DEF StartLoad, IInv, TypeOK

\* A commit or a failure removes one copy and leaves the others.
LEMMA SettleIInv ==
    ASSUME IInv, NEW l, inFlight' = inFlight (-) SetToBag({l})
    PROVE  /\ IsABag(inFlight')
           /\ BagToSet(inFlight') \subseteq Load
           /\ \A m \in BagToSet(inFlight') : LoadInv(m)
<1>1. IsABag(inFlight') /\ BagToSet(inFlight') \subseteq BagToSet(inFlight)
  BY BagRemoveOne DEF IInv, TypeOK
<1> QED
  BY <1>1 DEF IInv, TypeOK

LEMMA NextIInv == IInv /\ [Next]_vars => IInv'
<1> SUFFICES ASSUME IInv, [Next]_vars PROVE IInv'
  OBVIOUS
<1>1. CASE OpenSelector
  <2>1. /\ IsABag(inFlight') /\ BagToSet(inFlight') \subseteq Load
        /\ loading' \in BOOLEAN
        /\ \A l \in BagToSet(inFlight') : LoadInv(l)
    BY <1>1, StartIInv DEF OpenSelector, OpenButton, Parents
  <2> QED
    BY <1>1, <2>1 DEF OpenSelector, OpenButton, IInv, TypeOK, LevelsFormCascade
<1>2. ASSUME NEW k \in 1..Len(tagLevels), NEW t \in Tags,
             HandleTagSelect(k, t)
      PROVE  IInv'
  <2> DEFINE newPath == PutAndTruncate(selectedPath, k, t)
  <2>1. t \in Kids(tagLevels[k]) /\ selectedPath' = newPath
    BY <1>2 DEF HandleTagSelect, ItemSelectable
  <2>2. newPath \in Seq(Slot)
    <3>1. newPath \in Seq(Slot \cup {t} \cup Unset)
      BY PutAndTruncateShape DEF IInv, TypeOK
    <3> QED
      BY <3>1 DEF Slot
  <2>3. CASE HasChildren(t)
    <3>1. StartLoad(t, k + 1) /\ UNCHANGED <<tagLevels, visible, result>>
      BY <1>2, <2>3 DEF HandleTagSelect
    <3>2. /\ IsABag(inFlight') /\ BagToSet(inFlight') \subseteq Load
          /\ loading' \in BOOLEAN
          /\ \A l \in BagToSet(inFlight') : LoadInv(l)
      BY <2>1, <3>1, StartIInv DEF Parents
    <3> QED
      BY <2>1, <2>2, <3>1, <3>2 DEF IInv, TypeOK, LevelsFormCascade
  <2>4. CASE ~HasChildren(t)
    <3>1. /\ result' \in {result, newPath} /\ visible' \in BOOLEAN
          /\ UNCHANGED <<tagLevels, loading, inFlight>>
      BY <1>2, <2>4 DEF HandleTagSelect, Confirm, IInv, TypeOK
    <3> QED
      BY <2>1, <2>2, <3>1 DEF IInv, TypeOK, LevelsFormCascade
  <2> QED
    BY <2>3, <2>4
<1>3. CASE HandleConfirm
  BY <1>3 DEF HandleConfirm, Confirm, IInv, TypeOK, LevelsFormCascade
<1>4. CASE HandleClose
  <2>1. tagLevels' = <<>> /\ selectedPath' = <<>>
    BY <1>4 DEF HandleClose, OnClose
  <2>2. <<>> \in Seq(Parents) /\ <<>> \in Seq(Slot) /\ IsCascade(<<>>)
    BY EmptySeq DEF IsCascade
  <2>3. UNCHANGED <<loading, inFlight, result>> /\ visible' = FALSE
    BY <1>4 DEF HandleClose, OnClose
  <2> QED
    BY <2>1, <2>2, <2>3 DEF IInv, TypeOK, LevelsFormCascade
<1>5. ASSUME NEW l \in BagToSet(inFlight), LoadSucceeds(l) PROVE IInv'
  <2>1. /\ IsABag(inFlight') /\ BagToSet(inFlight') \subseteq Load
        /\ \A m \in BagToSet(inFlight') : LoadInv(m)
    BY <1>5, SettleIInv DEF LoadSucceeds
  <2>2. l \in Load /\ LoadInv(l)
    BY DEF IInv, TypeOK
  <2>3. /\ l.levels \in Seq(Parents) /\ IsCascade(l.levels)
        /\ l.level \in 1..Len(l.levels) + 1 /\ l.parent \in Parents
        /\ IF l.level = 1 THEN l.parent = RootId
                          ELSE l.parent \in Kids(l.levels[l.level - 1])
    BY <2>2 DEF Load, LoadInv
  <2>4. /\ tagLevels' \in Seq(Parents)
        /\ IsCascade(tagLevels')
    BY <1>5, <2>3, PutAndTruncateCascade DEF LoadSucceeds
  <2> QED
    BY <1>5, <2>1, <2>4 DEF LoadSucceeds, IInv, TypeOK, LevelsFormCascade
<1>6. ASSUME NEW l \in BagToSet(inFlight), LoadFails(l) PROVE IInv'
  <2>1. /\ IsABag(inFlight') /\ BagToSet(inFlight') \subseteq Load
        /\ \A m \in BagToSet(inFlight') : LoadInv(m)
    BY <1>6, SettleIInv DEF LoadFails
  <2> QED
    BY <1>6, <2>1 DEF LoadFails, IInv, TypeOK, LevelsFormCascade
<1>7. CASE UNCHANGED vars
  BY <1>7 DEF vars, IInv, TypeOK, LevelsFormCascade, LoadInv
<1> QED
  BY <1>1, <1>2, <1>3, <1>4, <1>5, <1>6, <1>7 DEF Next

-----------------------------------------------------------------------------
(***************************************************************************)
(* What the host is handed.  ConfirmsLeaf needs to know that the Confirm   *)
(* button sees a path ending in a tag: canConfirm reads a hole at the end  *)
(* as a leaf (!undefined), so a hole there would slip through.  No pick    *)
(* ends a path in a hole, since PutAndTruncate writes the tag last.        *)
(***************************************************************************)

PathEndsInTag == selectedPath = <<>> \/ LastOf(selectedPath) \in Tags

LeafInv == ConfirmsLeaf /\ PathEndsInTag

LEMMA InitLeafInv == Init => LeafInv
BY DEF Init, LeafInv, ConfirmsLeaf, PathEndsInTag

LEMMA NextLeafInv == IInv /\ LeafInv /\ [Next]_vars => LeafInv'
<1> SUFFICES ASSUME IInv, LeafInv, [Next]_vars PROVE LeafInv'
  OBVIOUS
<1>1. CASE OpenSelector
  BY <1>1 DEF OpenSelector, LeafInv, ConfirmsLeaf, PathEndsInTag
<1>2. ASSUME NEW k \in 1..Len(tagLevels), NEW t \in Tags,
             HandleTagSelect(k, t)
      PROVE  LeafInv'
  <2> DEFINE newPath == PutAndTruncate(selectedPath, k, t)
  <2>1. selectedPath' = newPath
    BY <1>2 DEF HandleTagSelect
  <2>2. Len(newPath) = k /\ newPath[k] = t
    <3>1. selectedPath \in Seq(Slot) /\ k \in Nat \ {0}
      BY DEF IInv, TypeOK
    <3> QED
      BY <3>1 DEF PutAndTruncate
  <2>3. newPath # <<>> /\ LastOf(newPath) = t
    <3>1. newPath # <<>>
      BY <2>2
    <3> QED
      BY <2>2, <3>1 DEF LastOf
  <2>4. PathEndsInTag'
    BY <2>1, <2>3 DEF PathEndsInTag
  <2>5. CASE HasChildren(t)
    <3>1. UNCHANGED result
      BY <1>2, <2>5 DEF HandleTagSelect
    <3> QED
      BY <2>4, <3>1 DEF LeafInv, ConfirmsLeaf
  <2>6. CASE ~HasChildren(t)
    <3>1. result' = newPath \/ UNCHANGED result
      BY <1>2, <2>6 DEF HandleTagSelect, Confirm
    <3>2. t \in Tags \ Branches
      BY <2>6 DEF HasChildren
    <3> QED
      BY <2>3, <2>4, <3>1, <3>2 DEF LeafInv, ConfirmsLeaf
  <2> QED
    BY <2>5, <2>6
<1>3. CASE HandleConfirm
  <2>1. result' = selectedPath /\ UNCHANGED selectedPath
    BY <1>3 DEF HandleConfirm, Confirm
  <2>2. Len(selectedPath) > 0 /\ (LastOf(selectedPath) = Hole
                                  \/ ~HasChildren(LastOf(selectedPath)))
    BY <1>3 DEF HandleConfirm, CanSubmit
  <2>3. LastOf(selectedPath) \in Tags
    BY <2>2 DEF LeafInv, PathEndsInTag
  <2>4. LastOf(selectedPath) \in Tags \ Branches
    BY <2>2, <2>3, TagsAssumption DEF HasChildren
  <2> QED
    BY <2>1, <2>4 DEF LeafInv, ConfirmsLeaf, PathEndsInTag
<1>4. CASE HandleClose
  BY <1>4 DEF HandleClose, LeafInv, ConfirmsLeaf, PathEndsInTag
<1>5. ASSUME NEW l \in BagToSet(inFlight), LoadSucceeds(l) \/ LoadFails(l)
      PROVE  LeafInv'
  BY <1>5 DEF LoadSucceeds, LoadFails, LeafInv, ConfirmsLeaf, PathEndsInTag
<1>6. CASE UNCHANGED vars
  BY <1>6 DEF vars, LeafInv, ConfirmsLeaf, PathEndsInTag
<1> QED
  BY <1>1, <1>2, <1>3, <1>4, <1>5, <1>6 DEF Next

-----------------------------------------------------------------------------
(***************************************************************************)
(* The spinner and the bag.  NoSpinnerWhenIdle is inductive given the      *)
(* types: a start raises the flag and adds a load, a settle clears the     *)
(* flag whatever is left, and nothing else touches either.                 *)
(***************************************************************************)

\* A bag with an element in its support is not empty.
LEMMA BagNotEmpty ==
    ASSUME NEW B, NEW x \in BagToSet(B)
    PROVE  B # EmptyBag
BY DEF BagToSet, EmptyBag, SetToBag

LEMMA InitIdleInv == Init => NoSpinnerWhenIdle
BY DEF Init, NoSpinnerWhenIdle

\* A load started (by an open or a pick) leaves the bag non-empty.
LEMMA StartNotIdle ==
    ASSUME IInv, NEW p, NEW k, StartLoad(p, k)
    PROVE  NoSpinnerWhenIdle'
<1> DEFINE nl == [parent |-> p, level |-> k, levels |-> tagLevels]
<1>1. inFlight' = inFlight (+) SetToBag({nl}) /\ loading'
  BY DEF StartLoad
<1>2. IsABag(inFlight)
  BY DEF IInv, TypeOK
<1>3. BagToSet(inFlight') = BagToSet(inFlight) \cup {nl}
  BY <1>1, <1>2, BagAddOne
<1>4. inFlight' # EmptyBag
  BY <1>3, BagNotEmpty
<1> QED
  BY <1>4 DEF NoSpinnerWhenIdle

LEMMA NextIdleInv ==
    IInv /\ NoSpinnerWhenIdle /\ [Next]_vars => NoSpinnerWhenIdle'
<1> SUFFICES ASSUME IInv, NoSpinnerWhenIdle, [Next]_vars
             PROVE  NoSpinnerWhenIdle'
  OBVIOUS
<1>1. CASE OpenSelector
  BY <1>1, StartNotIdle DEF OpenSelector
<1>2. ASSUME NEW k \in 1..Len(tagLevels), NEW t \in Tags,
             HandleTagSelect(k, t)
      PROVE  NoSpinnerWhenIdle'
  <2>1. CASE HasChildren(t)
    BY <1>2, <2>1, StartNotIdle DEF HandleTagSelect
  <2>2. CASE ~HasChildren(t)
    BY <1>2, <2>2 DEF HandleTagSelect, NoSpinnerWhenIdle
  <2> QED
    BY <2>1, <2>2
<1>3. CASE HandleConfirm \/ HandleClose
  BY <1>3 DEF HandleConfirm, HandleClose, NoSpinnerWhenIdle
<1>4. ASSUME NEW l \in BagToSet(inFlight), LoadSucceeds(l) \/ LoadFails(l)
      PROVE  NoSpinnerWhenIdle'
  BY <1>4 DEF LoadSucceeds, LoadFails, NoSpinnerWhenIdle
<1>5. CASE UNCHANGED vars
  BY <1>5 DEF vars, NoSpinnerWhenIdle
<1> QED
  BY <1>1, <1>2, <1>3, <1>4, <1>5 DEF Next

-----------------------------------------------------------------------------
(***************************************************************************)
(* The theorem.                                                            *)
(***************************************************************************)

\* However many loads race and in whatever order their answers, opens,
\* closes and confirms come, the modal's state keeps its types and the
\* levels it shows form a cascade from the root, for every tag tree.
THEOREM SelectorSafety == Spec => [](TypeOK /\ LevelsFormCascade)
<1>1. IInv => TypeOK /\ LevelsFormCascade
  BY DEF IInv
<1> QED
  BY <1>1, InitIInv, NextIInv, PTL DEF Spec

\* The selector only ever hands the host (onConfirm) a path ending in a
\* leaf, whether from a leaf pick or the Confirm button, for every tag
\* tree and every order of racing answers, opens and closes (spec 4.1).
THEOREM SelectorConfirmsLeaf == Spec => []ConfirmsLeaf
<1>1. Init => IInv /\ LeafInv
  BY InitIInv, InitLeafInv
<1>2. IInv /\ LeafInv /\ [Next]_vars => IInv' /\ LeafInv'
  BY NextIInv, NextLeafInv
<1>3. IInv /\ LeafInv => ConfirmsLeaf
  BY DEF LeafInv
<1> QED
  BY <1>1, <1>2, <1>3, PTL DEF Spec

\* For every tag tree and bound, every reachable state of the modal and
\* its host is well typed: the bag of loads in flight holds loads, the
\* levels are parent ids, and the path and the host's result hold tags or
\* holes.
THEOREM SelectorTypeCorrect == Spec => []TypeOK
<1>1. IInv => TypeOK
  BY DEF IInv
<1> QED
  BY <1>1, InitIInv, NextIInv, PTL DEF Spec

\* The spinner never shows with nothing loading, for every tag tree and
\* bound: however opens, closes, picks and answers interleave, the last
\* load to settle leaves it off (the safety half of Quiesces).
THEOREM SelectorNoSpinnerWhenIdle == Spec => []NoSpinnerWhenIdle
<1>1. Init => IInv /\ NoSpinnerWhenIdle
  BY InitIInv, InitIdleInv
<1>2. IInv /\ NoSpinnerWhenIdle /\ [Next]_vars => IInv' /\ NoSpinnerWhenIdle'
  BY NextIInv, NextIdleInv
<1> QED
  BY <1>1, <1>2, PTL DEF Spec

=============================================================================
