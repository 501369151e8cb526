------------------- MODULE HierarchicalTagDropdownProofs -------------------
(***************************************************************************)
(* Proofs, for every tag tree, that the dropdown keeps its types, keeps at *)
(* most one load in flight, shows a cascade of levels and never selects a *)
(* tag outside the level it is shown under.                                *)
(*                                                                         *)
(* None of these is inductive alone: a load's continuation commits the     *)
(* tagLevels captured at the click, not the live one.  The strengthening   *)
(* LoadInv says what a load in flight carries: a snapshot that was a       *)
(* cascade, a parent shown in it, the path its click selected, and that    *)
(* the live path is still that path or has been cleared.                   *)
(***************************************************************************)
EXTENDS HierarchicalTagDropdown, HierarchicalTagsLemmas, SequenceTheorems, TLAPS

\* What a load in flight carries, relative to the live selection.
LoadInv(l) ==
    /\ l.level \in 1..Len(l.levels) + 1
    /\ IsCascade(l.levels)
    /\ IF l.level = 1 THEN l.parent = RootId
                      ELSE l.parent \in Kids(l.levels[l.level - 1])
    /\ Len(l.path) = l.level - 1
    /\ \A i \in 1..Len(l.path) :
           l.path[i] \in Unset \/ l.path[i] \in Kids(l.levels[i])
    /\ l.caller = "select" => l.level > 1 /\ l.path[l.level - 1] = l.parent
    /\ selectedPath = <<>> \/ selectedPath = l.path

IInv ==
    /\ TypeOK
    /\ FetchExclusive
    /\ LevelsFormCascade
    /\ PathWithinLevels
    /\ \A l \in inFlight : LoadInv(l)

-----------------------------------------------------------------------------
(***************************************************************************)
(* The inductive invariant.                                                *)
(***************************************************************************)

LEMMA InitIInv == Init => IInv
<1> SUFFICES ASSUME Init PROVE IInv
  OBVIOUS
<1> DEFINE ml == [parent |-> RootId, level |-> 1, levels |-> <<>>,
                  caller |-> "mount", path |-> <<>>]
<1>1. inFlight = {ml}
  BY DEF Init
<1>2. ml \in Load
  BY DEF Load, Parents
<1>3. LoadInv(ml)
  BY DEF Init, LoadInv, IsCascade
<1>4. TypeOK
  <2>1. /\ tagLevels \in Seq(Parents)
        /\ selectedPath \in Seq(Slot)
        /\ loading \in BOOLEAN
        /\ error \in BOOLEAN
    BY EmptySeq DEF Init
  <2>2. inFlight \subseteq Load
    BY <1>1, <1>2
  <2>3. reported \in Report
    BY EmptySeq DEF Init, Report, NoSelection
  <2> QED
    BY <2>1, <2>2, <2>3 DEF TypeOK
<1> QED
  BY <1>1, <1>3, <1>4
  DEF Init, IInv, FetchExclusive, LevelsFormCascade, PathWithinLevels,
      IsCascade

\* A pick, by a click on tag t of level k.
LEMMA PickIInv ==
    ASSUME IInv, NEW k \in 1..Len(tagLevels), NEW t \in Tags,
           HandleTagSelect(k, t)
    PROVE  IInv'
<1> DEFINE newPath == PutAndTruncate(selectedPath, k, t)
<1>1. /\ inFlight = {}
      /\ t \in Kids(tagLevels[k])
      /\ selectedPath' = newPath
  BY DEF IInv, HandleTagSelect, LevelSelectable, FetchExclusive
<1>2. /\ newPath \in Seq(Slot)
      /\ Len(newPath) = k
      /\ newPath[k] = t
      /\ \A i \in 1..k : newPath[i] \in Unset \/ newPath[i] \in Kids(tagLevels[i])
  <2>1. /\ selectedPath \in Seq(Slot)
        /\ Len(selectedPath) <= Len(tagLevels)
        /\ \A i \in 1..Len(selectedPath) :
               selectedPath[i] \in Unset \/ selectedPath[i] \in Kids(tagLevels[i])
    BY DEF IInv, TypeOK, PathWithinLevels
  <2>2. t \in Slot
    BY DEF Slot
  <2>3. Slot \cup {t} \cup Unset = Slot
    BY <2>2 DEF Slot
  <2>4. /\ newPath \in Seq(Slot)
        /\ Len(newPath) = k
        /\ newPath[k] = t
        /\ \A i \in 1..k - 1 :
               newPath[i] = IF i <= Len(selectedPath) THEN Spread(selectedPath[i])
                                                      ELSE Hole
    BY <1>1, <2>1, <2>2, <2>3, PutAndTruncateShape
  \* The spread keeps a tag and stores undefined for an unset slot.
  <2>5. ASSUME NEW i \in 1..Len(selectedPath)
        PROVE  Spread(selectedPath[i]) \in Unset
               \/ Spread(selectedPath[i]) \in Kids(tagLevels[i])
    <3>1. CASE selectedPath[i] \in Unset
      BY <3>1 DEF Spread, Unset
    <3>2. CASE selectedPath[i] \in Kids(tagLevels[i])
      BY <3>2, TagsAssumption DEF Spread, Kids
    <3> QED
      BY <2>1, <3>1, <3>2
  <2> QED
    BY <1>1, <2>4, <2>5 DEF Unset
<1>3. PathWithinLevels'
  <2>1. Len(tagLevels') = Len(tagLevels) /\ tagLevels' = tagLevels
    BY DEF HandleTagSelect
  <2> QED
    BY <1>1, <1>2, <2>1 DEF PathWithinLevels
<1>4. CASE HasChildren(t)
  <2> DEFINE nl == [parent |-> t, level |-> k + 1, levels |-> tagLevels,
                    caller |-> "select", path |-> newPath]
  <2>1. /\ loading' = TRUE
        /\ error' = FALSE
        /\ inFlight' = {nl}
        /\ UNCHANGED <<tagLevels, reported>>
    BY <1>1, <1>4 DEF HandleTagSelect, HasChildren
  <2>2. nl \in Load
    BY <1>2, TagsAssumption DEF IInv, TypeOK, Load, Parents
  <2>3. TypeOK'
    BY <1>1, <1>2, <2>1, <2>2 DEF IInv, TypeOK
  <2>4. FetchExclusive'
    BY <2>1 DEF FetchExclusive
  <2>5. LevelsFormCascade'
    BY <2>1 DEF IInv, LevelsFormCascade
  <2>6. \A l \in inFlight' : LoadInv(l)'
    <3>1. /\ IsCascade(tagLevels)
          /\ k + 1 \in 1..Len(tagLevels) + 1
      BY DEF IInv, LevelsFormCascade
    <3>2. ASSUME NEW l, l = nl PROVE LoadInv(l)'
      BY <1>1, <1>2, <3>1, <3>2 DEF LoadInv
    <3> QED
      BY <2>1, <3>2
  <2> QED
    BY <1>3, <2>1, <2>3, <2>4, <2>5, <2>6 DEF IInv
<1>5. CASE ~HasChildren(t)
  <2>1. /\ reported' = IF MapThrows(newPath) THEN reported ELSE ReportOf(newPath)
        /\ UNCHANGED <<tagLevels, loading, error, inFlight>>
    BY <1>1, <1>5 DEF HandleTagSelect, HasChildren
  <2>2. reported' \in Report
    <3>1. ReportOf(newPath) \in Report
      BY <1>2 DEF ReportOf, Report, LastOf
    <3> QED
      BY <2>1, <3>1 DEF IInv, TypeOK
  <2>3. TypeOK'
    BY <1>1, <1>2, <2>1, <2>2 DEF IInv, TypeOK
  <2> QED
    BY <1>1, <1>3, <2>1, <2>3 DEF IInv, FetchExclusive, LevelsFormCascade
<1> QED
  BY <1>4, <1>5

\* The continuation of a load in flight, on the gateway's answer.
LEMMA SucceedsIInv ==
    ASSUME IInv, NEW l \in inFlight, LoadSucceeds(l)
    PROVE  IInv'
<1> DEFINE nlev == PutAndTruncate(l.levels, l.level, l.parent)
<1>1. /\ l \in Load
      /\ LoadInv(l)
      /\ inFlight' = {}
      /\ tagLevels' = nlev
      /\ loading' = FALSE
      /\ UNCHANGED <<selectedPath, error>>
      /\ AfterLoad(l)
  BY DEF IInv, TypeOK, FetchExclusive, LoadSucceeds
<1>2. l.parent \in Parents /\ (l.level > 1 => l.parent \in Tags)
  BY <1>1 DEF LoadInv, Kids, Parents
<1>3. /\ nlev \in Seq(Parents)
      /\ Len(nlev) = l.level
      /\ \A i \in 1..l.level : nlev[i] = IF i = l.level THEN l.parent
                                                        ELSE l.levels[i]
  <2>1. Hole \notin Parents
    BY TagsAssumption DEF Parents
  <2> QED
    BY <1>1, <1>2, <2>1, PutAndTruncateNoHole DEF Load, LoadInv
<1>4. reported' \in Report
  <2>1. CASE l.caller = "select"
    <3>1. /\ l.level > 1
          /\ Len(l.path) = l.level - 1
          /\ l.path[l.level - 1] = l.parent
      BY <1>1, <2>1 DEF LoadInv
    <3>2. l.path \in Seq(Slot)
      BY <1>1 DEF Load
    <3> QED
      BY <1>1, <1>2, <2>1, <3>1, <3>2 DEF AfterLoad, ReportOf, LastOf, Report
  <2>2. CASE l.caller # "select"
    BY <1>1, <2>2 DEF AfterLoad, IInv, TypeOK
  <2> QED
    BY <2>1, <2>2
<1>5. TypeOK'
  BY <1>1, <1>3, <1>4 DEF IInv, TypeOK
<1>6. LevelsFormCascade'
  <2>1. IsCascade(l.levels) /\ l.levels \in Seq(Parents)
        /\ l.level \in 1..Len(l.levels) + 1
        /\ IF l.level = 1 THEN l.parent = RootId
                          ELSE l.parent \in Kids(l.levels[l.level - 1])
    BY <1>1 DEF LoadInv, Load
  <2>2. IsCascade(nlev)
    BY <1>2, <2>1, PutAndTruncateCascade
  <2> QED
    BY <1>1, <2>2 DEF LevelsFormCascade
<1>7. PathWithinLevels'
  <2>1. CASE selectedPath = <<>>
    BY <1>1, <2>1 DEF PathWithinLevels
  <2>2. CASE selectedPath = l.path
    <3>1. /\ Len(l.path) = l.level - 1
          /\ \A i \in 1..Len(l.path) :
                 l.path[i] \in Unset \/ l.path[i] \in Kids(l.levels[i])
          /\ l.level \in Nat \ {0}
      BY <1>1 DEF LoadInv, Load
    <3>2. Len(selectedPath') <= Len(tagLevels')
      BY <1>1, <1>3, <2>2, <3>1
    <3>3. ASSUME NEW i \in 1..Len(selectedPath')
          PROVE  selectedPath'[i] \in Unset \/ selectedPath'[i] \in Kids(tagLevels'[i])
      <4>1. i \in 1..Len(l.path) /\ i # l.level /\ i \in 1..l.level
        BY <1>1, <2>2, <3>1
      <4>2. tagLevels'[i] = l.levels[i]
        BY <1>1, <1>3, <4>1
      <4> QED
        BY <1>1, <2>2, <3>1, <4>1, <4>2
    <3> QED
      BY <3>2, <3>3 DEF PathWithinLevels
  <2> QED
    BY <1>1, <2>1, <2>2 DEF LoadInv
<1> QED
  BY <1>1, <1>5, <1>6, <1>7 DEF IInv, FetchExclusive

\* The continuation of a load in flight, on a gateway error.
LEMMA FailsIInv ==
    ASSUME IInv, NEW l \in inFlight, LoadFails(l)
    PROVE  IInv'
<1>1. /\ l \in Load
      /\ LoadInv(l)
      /\ inFlight' = {}
      /\ error' = TRUE
      /\ loading' = FALSE
      /\ UNCHANGED <<tagLevels, selectedPath>>
      /\ AfterLoad(l)
  BY DEF IInv, TypeOK, FetchExclusive, LoadFails
<1>2. reported' \in Report
  <2>1. CASE l.caller = "select"
    <3>1. /\ l.level > 1
          /\ Len(l.path) = l.level - 1
          /\ l.path[l.level - 1] = l.parent
          /\ l.parent \in Kids(l.levels[l.level - 1])
      BY <1>1, <2>1 DEF LoadInv
    <3>2. l.path \in Seq(Slot)
      BY <1>1 DEF Load
    <3> QED
      BY <1>1, <2>1, <3>1, <3>2 DEF AfterLoad, ReportOf, LastOf, Report, Kids
  <2>2. CASE l.caller # "select"
    BY <1>1, <2>2 DEF AfterLoad, IInv, TypeOK
  <2> QED
    BY <2>1, <2>2
<1> QED
  BY <1>1, <1>2
  DEF IInv, TypeOK, FetchExclusive, LevelsFormCascade, PathWithinLevels

\* handleClear, with or without a load in flight.
LEMMA ClearIInv ==
    ASSUME IInv, HandleClear
    PROVE  IInv'
<1>1. /\ selectedPath' = <<>>
      /\ tagLevels' = KeepFirst(tagLevels)
      /\ reported' = NoSelection
      /\ UNCHANGED <<loading, error, inFlight>>
  BY DEF HandleClear
<1>2. /\ tagLevels \in Seq(Parents)
      /\ IsCascade(tagLevels)
  BY DEF IInv, TypeOK, LevelsFormCascade
<1>3. /\ tagLevels' \in Seq(Parents)
      /\ IsCascade(tagLevels')
  <2>1. CASE Len(tagLevels) = 0
    BY <1>1, <1>2, <2>1, KeepFirstShape, EmptySeq DEF IsCascade
  <2>2. CASE Len(tagLevels) > 0
    <3>1. tagLevels[1] = RootId /\ tagLevels[1] \in Parents
      BY <1>2, <2>2 DEF IsCascade
    <3> QED
      BY <1>1, <1>2, <2>2, <3>1, KeepFirstShape DEF IsCascade
  <2> QED
    BY <1>2, <2>1, <2>2
<1>4. NoSelection \in Report
  BY DEF NoSelection, Report
<1>5. \A l \in inFlight' : LoadInv(l)'
  BY <1>1 DEF IInv, LoadInv
<1> QED
  BY <1>1, <1>3, <1>4, <1>5
  DEF IInv, TypeOK, FetchExclusive, LevelsFormCascade, PathWithinLevels

LEMMA NextIInv == IInv /\ [Next]_vars => IInv'
<1> SUFFICES ASSUME IInv, [Next]_vars PROVE IInv'
  OBVIOUS
<1>1. ASSUME NEW k \in 1..Len(tagLevels), NEW t \in Tags,
             HandleTagSelect(k, t)
      PROVE  IInv'
  BY <1>1, PickIInv
<1>2. ASSUME NEW l \in inFlight, LoadSucceeds(l) PROVE IInv'
  BY <1>2, SucceedsIInv
<1>3. ASSUME NEW l \in inFlight, LoadFails(l) PROVE IInv'
  BY <1>3, FailsIInv
<1>4. CASE HandleClear
  BY <1>4, ClearIInv
<1>5. CASE UNCHANGED vars
  BY <1>5
  DEF vars, IInv, TypeOK, FetchExclusive, LevelsFormCascade,
      PathWithinLevels, LoadInv
<1> QED
  BY <1>1, <1>2, <1>3, <1>4, <1>5 DEF Next

-----------------------------------------------------------------------------
(***************************************************************************)
(* The theorems.                                                           *)
(***************************************************************************)

\* Every reachable state of the dropdown and its host is well typed: the
\* levels never hold a hole, whatever order picks, clears and answers
\* take.
THEOREM TypeCorrect == Spec => []TypeOK
<1>1. IInv => TypeOK
  BY DEF IInv
<1> QED
  BY <1>1, InitIInv, NextIInv, PTL DEF Spec

\* The disabled toggles keep one load at a time, the levels shown are a
\* cascade from the root, and every selected tag belongs to the level it
\* is shown under, for every tag tree and every order of events.
THEOREM DropdownSafety ==
    Spec => [](FetchExclusive /\ LevelsFormCascade /\ PathWithinLevels)
<1>1. IInv => FetchExclusive /\ LevelsFormCascade /\ PathWithinLevels
  BY DEF IInv
<1> QED
  BY <1>1, InitIInv, NextIInv, PTL DEF Spec

\* Whatever interleaving of picks, clears and late answers, the levels the
\* dropdown shows form a cascade from the root, for every tag tree.
THEOREM DropdownCascade == Spec => []LevelsFormCascade
BY DropdownSafety, PTL

\* Every selected tag is an item of the level it is shown under and no
\* slot of the path is without a level (spec: levels.length >=
\* path.length), for every tag tree and every order of events.
THEOREM DropdownPathWithinLevels == Spec => []PathWithinLevels
BY DropdownSafety, PTL

-----------------------------------------------------------------------------
(***************************************************************************)
(* The refinement of SingleFlight: `loading` is the indicator, the parent  *)
(* of the load in flight is the request.  It rests on FetchExclusive,      *)
(* which makes the mapping a function of a single load.                    *)
(***************************************************************************)

\* The mapping of a single load in flight, now and after a step.
LEMMA ParentOfSingleton ==
    ASSUME NEW l, inFlight = {l}
    PROVE  InFlightParent = l.parent
<1>1. (CHOOSE u \in inFlight : TRUE) = l /\ inFlight # {}
  OBVIOUS
<1> QED
  BY <1>1 DEF InFlightParent

LEMMA ParentOfSingletonPrime ==
    ASSUME NEW l, inFlight' = {l}
    PROVE  InFlightParent' = l.parent
<1>1. (CHOOSE u \in inFlight' : TRUE) = l /\ inFlight' # {}
  OBVIOUS
<1> QED
  BY <1>1 DEF InFlightParent

\* A path with no undefined slot does not crash the render.
LEMMA NoUndefNoCrash ==
    ASSUME \A i \in 1..Len(selectedPath) : selectedPath[i] # Undef
    PROVE  ~Crashed
BY DEF Crashed, MapThrows

LEMMA InitRefines == Init => Flight!Init
<1> SUFFICES ASSUME Init PROVE Flight!Init
  OBVIOUS
<1> DEFINE ml == [parent |-> RootId, level |-> 1, levels |-> <<>>,
                  caller |-> "mount", path |-> <<>>]
<1>1. InFlightParent = ml.parent
  BY ParentOfSingleton DEF Init
<1>2. ~Crashed
  BY NoUndefNoCrash DEF Init
<1> QED
  BY <1>1, <1>2, TagsAssumption DEF Init, Flight!Init, Parents

\* A pick starts a load only when none is in flight; an answer or a
\* failure ends the one in flight; a leaf pick and a clear leave both.
\* A pick that crashes the render hides the load it started: the page
\* shows nothing after it, so the step is a stutter of the contract.
LEMMA NextRefines == IInv /\ [Next]_vars => [Flight!Next]_Flight!vars
<1> SUFFICES ASSUME IInv, [Next]_vars PROVE [Flight!Next]_Flight!vars
  OBVIOUS
<1>1. ASSUME NEW k \in 1..Len(tagLevels), NEW t \in Tags,
             HandleTagSelect(k, t)
      PROVE  [Flight!Next]_Flight!vars
  <2> DEFINE nl == [parent |-> t, level |-> k + 1, levels |-> tagLevels,
                    caller |-> "select",
                    path |-> PutAndTruncate(selectedPath, k, t)]
  <2>1. ~loading /\ inFlight = {} /\ ~Crashed
    BY <1>1 DEF HandleTagSelect, LevelSelectable, IInv, FetchExclusive
  <2>2. (loading /\ ~Crashed) = FALSE
        /\ (IF Crashed THEN NoTag ELSE InFlightParent) = NoTag
    BY <2>1 DEF InFlightParent
  <2>3. CASE HasChildren(t) /\ ~Crashed'
    <3>1. inFlight' = {nl} /\ loading'
      BY <1>1, <2>1, <2>3 DEF HandleTagSelect
    <3>2. InFlightParent' = nl.parent
      BY <3>1, ParentOfSingletonPrime
    <3>3. Flight!Start(t)
      BY <2>2, <2>3, <3>1, <3>2 DEF Flight!Start
    <3>4. \E r \in Parents : Flight!Start(r)
      BY <3>3 DEF Parents
    <3> QED
      BY <3>4 DEF Flight!Next
  <2>4. CASE HasChildren(t) /\ Crashed'
    BY <2>2, <2>4 DEF Flight!vars
  <2>5. CASE ~HasChildren(t)
    <3>1. inFlight' = inFlight /\ loading' = loading
      BY <1>1, <2>5 DEF HandleTagSelect
    <3>2. InFlightParent' = NoTag
      BY <2>1, <3>1 DEF InFlightParent
    <3> QED
      BY <2>1, <2>2, <3>1, <3>2 DEF Flight!vars
  <2> QED
    BY <2>3, <2>4, <2>5
\* An answer or a failure: the set empties and `loading` drops.
<1>2. ASSUME NEW l \in inFlight, inFlight' = inFlight \ {l}, loading' = FALSE,
             ~Crashed, selectedPath' = selectedPath
      PROVE  Flight!Settle
  <2>1. inFlight = {l}
    BY DEF IInv, FetchExclusive
  <2>2. InFlightParent = l.parent
    BY <2>1, ParentOfSingleton
  <2>3. l.parent # NoTag
    BY TagsAssumption DEF IInv, TypeOK, Load, Parents
  <2>4. InFlightParent' = NoTag
    BY <1>2, <2>1 DEF InFlightParent
  <2>5. ~Crashed'
    BY <1>2 DEF Crashed
  <2> QED
    BY <1>2, <2>2, <2>3, <2>4, <2>5 DEF Flight!Settle
<1>3. CASE HandleClear
  <2>1. inFlight' = inFlight /\ loading' = loading
    BY <1>3 DEF HandleClear
  <2>2. InFlightParent' = InFlightParent
    BY <2>1 DEF InFlightParent
  <2>3. ~Crashed /\ ~Crashed'
    <3>1. ~Crashed
      BY <1>3 DEF HandleClear
    <3>2. selectedPath' = <<>>
      BY <1>3 DEF HandleClear
    <3>3. ~Crashed'
      BY <3>2 DEF Crashed, MapThrows
    <3> QED
      BY <3>1, <3>3
  <2> QED
    BY <2>1, <2>2, <2>3 DEF Flight!vars
<1>4. CASE UNCHANGED vars
  BY <1>4 DEF vars, Flight!vars, InFlightParent, Crashed
<1>5. ASSUME NEW l \in inFlight, LoadSucceeds(l) \/ LoadFails(l)
      PROVE  Flight!Settle
  BY <1>5, <1>2 DEF LoadSucceeds, LoadFails
<1> QED
  BY <1>1, <1>3, <1>4, <1>5 DEF Next, Flight!Next

\* The dropdown implements the safety part of the spec's single-flight
\* contract for every tag tree: a load starts only when none is in
\* flight, the toggles are disabled exactly while one is, and only its
\* answer or failure re-enables them.
THEOREM DropdownRefinesSingleFlight == Spec => Flight!SafeSpec
<1>1. Init => IInv /\ Flight!Init
  BY InitIInv, InitRefines
<1>2. IInv /\ [Next]_vars => IInv' /\ [Flight!Next]_Flight!vars
  BY NextIInv, NextRefines
<1> QED
  BY <1>1, <1>2, PTL DEF Spec, Flight!SafeSpec

-----------------------------------------------------------------------------
(***************************************************************************)
(* What the host is told after a load.  LoadInv already ties the live path *)
(* to the path a load will report: a pick cannot change it while the load *)
(* is out (the toggles are disabled), only a clear can empty it.           *)
(***************************************************************************)

\* The report made by the continuation of load l.
LEMMA AnswerReport ==
    ASSUME IInv, NEW l \in inFlight, LoadSucceeds(l) \/ LoadFails(l),
           l.caller = "select"
    PROVE  selectedPath = <<>> \/ reported'.path = selectedPath
<1>1. reported' = ReportOf(l.path)
  BY DEF LoadSucceeds, LoadFails, AfterLoad
<1>2. reported'.path = l.path
  BY <1>1 DEF ReportOf
<1>3. selectedPath = <<>> \/ selectedPath = l.path
  BY DEF IInv, LoadInv
<1> QED
  BY <1>2, <1>3

\* Every onChange that handleTagSelect makes once `await loadTags` returns
\* hands the host the selection shown at that moment, unless a clear came
\* in between, for every tag tree and every order of events.
THEOREM DropdownAnswerReportsLiveSelection == Spec => AnswerReportsLiveSelection
<1>1. IInv => [\A l \in inFlight :
                  (LoadSucceeds(l) \/ LoadFails(l)) /\ l.caller = "select" =>
                      selectedPath = <<>> \/ reported'.path = selectedPath]_vars
  BY AnswerReport
<1>2. Spec => []IInv
  BY InitIInv, NextIInv, PTL DEF Spec
<1> QED
  BY <1>1, <1>2, PTL DEF AnswerReportsLiveSelection
=============================================================================
