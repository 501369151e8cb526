---------------------- MODULE HierarchicalTagSelector ----------------------
(***************************************************************************)
(* HierarchicalTagSelector (components/HierarchicalTagSelector/index.tsx), *)
(* the modal picker, together with the part of its host, the selector card *)
(* of HierarchicalTagTest: showSelector (the `visible` prop) and           *)
(* selectorResult (set by onConfirm).                                      *)
(*                                                                         *)
(* The component stays mounted while the modal is hidden, so its state     *)
(* survives a confirm, and nothing keeps a pick from being handled while a *)
(* load is in flight: loads race, and each continuation commits the       *)
(* tagLevels its click's render captured.  Loads in flight form a bag: two *)
(* clicks on the same item issue two identical calls, and both commit.     *)
(***************************************************************************)
EXTENDS HierarchicalTags, Bags

CONSTANT MaxInFlight   \* bound on the loads in flight (the model's only bound)

ASSUME MaxInFlightAssumption == MaxInFlight \in Nat \ {0}

VARIABLES
    tagLevels,     \* useState tagLevels
    selectedPath,  \* useState selectedPath
    loading,       \* useState loading (the spinner)
    inFlight,      \* bag of loadTags calls awaiting the gateway
    visible,       \* host's showSelector, the component's `visible` prop
    result         \* host's selectorResult: the path given to onConfirm

vars == <<tagLevels, selectedPath, loading, inFlight, visible, result>>

\* A loadTags call in flight: parent, 1-based level it writes, captured
\* tagLevels.  handleTagSelect does nothing after `await loadTags`.
Load == [parent : Parents, level : Nat \ {0}, levels : Seq(Parents)]

TypeOK ==
    /\ tagLevels \in Seq(Parents)
    /\ selectedPath \in Seq(Slot)
    /\ loading \in BOOLEAN
    /\ IsABag(inFlight) /\ BagToSet(inFlight) \subseteq Load
    /\ visible \in BOOLEAN
    /\ result \in Seq(Slot)

Init ==
    /\ tagLevels = <<>>
    /\ selectedPath = <<>>
    /\ loading = FALSE
    /\ inFlight = EmptyBag
    /\ visible = FALSE
    /\ result = <<>>

\* The modal's breadcrumb maps selectedPath and throws on a stored
\* undefined.  Nothing catches it, so React unmounts the page: no handler,
\* continuation or callback of it has any effect afterwards.
Crashed == MapThrows(selectedPath)

\* loadTags(parentId, level): setLoading(true), then the request.
StartLoad(p, k) ==
    /\ BagCardinality(inFlight) < MaxInFlight
    /\ loading' = TRUE
    /\ inFlight' = inFlight (+) SetToBag({[parent |-> p, level |-> k,
                                          levels |-> tagLevels]})

\* The host's "Open Tag Selector Modal" button, under the backdrop while
\* the modal shows: setShowSelector(true).
OpenButton ==
    /\ ~Crashed
    /\ ~visible
    /\ visible' = TRUE

\* The host's onClose: setShowSelector(false).
OnClose == visible' = FALSE

\* The open button, then the effect on `visible` calls loadTags('').
OpenSelector ==
    /\ OpenButton
    /\ StartLoad(RootId, 1)
    /\ UNCHANGED <<tagLevels, selectedPath, result>>

\* onConfirm(tag, path) lands in handleSelectorConfirm, which keeps the
\* path and hides the modal; the component's own state is not reset.
Confirm(p) ==
    /\ result' = p
    /\ visible' = FALSE

\* The item for tag t under level k can be clicked: the modal shows, its
\* levels are rendered from tagLevels, and each lists its parent's children.
\* Nothing disables them while a load is in flight.
ItemSelectable(k, t) ==
    /\ ~Crashed
    /\ visible
    /\ k \in 1..Len(tagLevels)
    /\ t \in Kids(tagLevels[k])

(***************************************************************************)
(* Mutations: plausible slips in the handlers they stand in for, used to   *)
(* show that the properties can tell the code from them.                   *)
(***************************************************************************)

\* loadTags(tag.id, level + 2): the next level written one slot too deep.
HandleTagSelectSkipLevel(k, t) ==
    /\ ItemSelectable(k, t)
    /\ LET newPath == PutAndTruncate(selectedPath, k, t) IN
       /\ selectedPath' = newPath
       /\ \/ /\ HasChildren(t)
             /\ StartLoad(t, k + 2)
             /\ UNCHANGED <<tagLevels, visible, result>>
          \/ /\ ~HasChildren(t)
             /\ IF MapThrows(newPath) THEN UNCHANGED <<visible, result>>
                                      ELSE Confirm(newPath)
             /\ UNCHANGED <<tagLevels, loading, inFlight>>

\* newTagLevels.splice(level + 1) forgotten: deeper levels survive.
LoadSucceedsNoSplice(l) ==
    /\ ~Crashed
    /\ BagIn(l, inFlight)
    /\ tagLevels' = [i \in 1..IF l.level > Len(l.levels) THEN l.level
                                                          ELSE Len(l.levels)
                       |-> IF i = l.level THEN l.parent ELSE l.levels[i]]
    /\ loading' = FALSE
    /\ inFlight' = inFlight (-) SetToBag({l})
    /\ UNCHANGED <<selectedPath, visible, result>>

\* setLoading(false) in the try block only: a failure leaves it set.
LoadFailsNoFinally(l) ==
    /\ ~Crashed
    /\ BagIn(l, inFlight)
    /\ inFlight' = inFlight (-) SetToBag({l})
    /\ UNCHANGED <<tagLevels, selectedPath, loading, visible, result>>

\* The Confirm button without `disabled={!canConfirm()}`.
HandleConfirmAlways ==
    /\ ~Crashed
    /\ visible
    /\ Confirm(selectedPath)
    /\ UNCHANGED <<tagLevels, selectedPath, loading, inFlight>>

\* handleTagSelect(tag, level) for tag t of the 1-based level k (level =
\* k - 1): a branch starts loadTags(t.id, level + 1), which writes level
\* k + 1; a leaf is confirmed at once.
HandleTagSelect(k, t) ==
    /\ ItemSelectable(k, t)
    /\ LET newPath == PutAndTruncate(selectedPath, k, t) IN
       /\ selectedPath' = newPath
       /\ \/ /\ HasChildren(t)
             /\ StartLoad(t, k + 1)
             /\ UNCHANGED <<tagLevels, visible, result>>
          \/ /\ ~HasChildren(t)
             /\ IF MapThrows(newPath) THEN UNCHANGED <<visible, result>>
                                      ELSE Confirm(newPath)
             /\ UNCHANGED <<tagLevels, loading, inFlight>>

\* handleConfirm: the "Confirm Selection" button, enabled by canConfirm.
HandleConfirm ==
    /\ ~Crashed
    /\ visible
    /\ CanSubmit(selectedPath)
    /\ Confirm(selectedPath)
    /\ UNCHANGED <<tagLevels, selectedPath, loading, inFlight>>

\* handleClose (Cancel, the close button, Esc): reset, then onClose.
HandleClose ==
    /\ ~Crashed
    /\ visible
    /\ tagLevels' = <<>>
    /\ selectedPath' = <<>>
    /\ OnClose
    /\ UNCHANGED <<loading, inFlight, result>>

\* The gateway answers: the captured tagLevels gets the new level and loses
\* the ones below, whatever happened since; finally clears loading.
LoadSucceeds(l) ==
    /\ ~Crashed
    /\ BagIn(l, inFlight)
    /\ tagLevels' = PutAndTruncate(l.levels, l.level, l.parent)
    /\ loading' = FALSE
    /\ inFlight' = inFlight (-) SetToBag({l})
    /\ UNCHANGED <<selectedPath, visible, result>>

\* The gateway fails: the catch only logs; finally clears loading.
LoadFails(l) ==
    /\ ~Crashed
    /\ BagIn(l, inFlight)
    /\ loading' = FALSE
    /\ inFlight' = inFlight (-) SetToBag({l})
    /\ UNCHANGED <<tagLevels, selectedPath, visible, result>>

Next ==
    \/ OpenSelector
    \/ \E k \in 1..Len(tagLevels), t \in Tags : HandleTagSelect(k, t)
    \/ HandleConfirm
    \/ HandleClose
    \/ \E l \in BagToSet(inFlight) : LoadSucceeds(l) \/ LoadFails(l)

\* A step the user takes: the host's open button, a pick, a confirm, a close.
UserStep ==
    \/ OpenSelector
    \/ \E k \in 1..Len(tagLevels), t \in Tags : HandleTagSelect(k, t)
    \/ HandleConfirm
    \/ HandleClose

Spec == Init /\ [][Next]_vars
            /\ WF_vars(\E l \in BagToSet(inFlight) :
                           LoadSucceeds(l) \/ LoadFails(l))

-----------------------------------------------------------------------------
(***************************************************************************)
(* Properties.                                                             *)
(***************************************************************************)

\* However the answers of racing loads are ordered, the levels shown form a
\* cascade from the root (each commit truncates below what it writes).
LevelsFormCascade == IsCascade(tagLevels)

\* spec 4.1 (isComplete): the host is only ever handed a selection that
\* ends in a leaf, whether onConfirm comes from a leaf pick or from the
\* Confirm button, however stale the levels the pick was made in.
ConfirmsLeaf == result = <<>> \/ LastOf(result) \in Tags \ Branches

\* Once the user stops, every load still out settles and the spinner goes
\* off for good: no load is lost, and the shared `loading` flag, cleared by
\* each load's finally, does not stay set (unless the page has crashed and
\* shows nothing at all).
Quiesces ==
    <>[][~UserStep]_vars =>
        <>[](Crashed \/ (inFlight = EmptyBag /\ ~loading))

\* The spinner never shows with nothing loading: every load's finally
\* clears the shared flag, so it cannot outlive the last load in flight
\* (the safety half of Quiesces; the converse is SpinnerWhileLoading).
NoSpinnerWhenIdle == loading => inFlight # EmptyBag

\* spec 5: the loading indicator is up until the fetch settles, i.e. while
\* any load of the modal is in flight (the first load to settle clears the
\* one flag all loads share).
SpinnerWhileLoading == inFlight # EmptyBag => loading

\* spec: levels.length >= path.length, for the modal after a confirm and a
\* reopen (the confirm leaves the path, the root load cuts the levels).
PathWithinLevels == Len(selectedPath) <= Len(tagLevels)

\* spec 5: a load's answer is committed only while the tag it was asked
\* for is still the selection one level up (root loads are always current).
StaleLoadDiscarded ==
    [][\A l \in BagToSet(inFlight) :
          LoadSucceeds(l) =>
              \/ l.level = 1
              \/ /\ l.level - 1 <= Len(selectedPath)
                 /\ selectedPath[l.level - 1] = l.parent]_vars

\* spec 3 (no gaps in a path) and the modal's own render: whatever the
\* user picks, the page never throws while rendering the breadcrumb.
NoRenderCrash == ~Crashed
=============================================================================
