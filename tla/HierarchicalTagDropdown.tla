---------------------- MODULE HierarchicalTagDropdown ----------------------
(***************************************************************************)
(* HierarchicalTagDropdown (components/HierarchicalTagDropdown/index.tsx)  *)
(* together with the part of its host, HierarchicalTagTest, that it talks  *)
(* to through onChange.                                                    *)
(*                                                                         *)
(* JavaScript runs one event or one promise continuation at a time, so     *)
(* each action is one such turn.  loadTags awaits the gateway: its start   *)
(* is part of the handler that calls it, and its continuation (the commit  *)
(* of the new level, the finally, and the onChange that handleTagSelect    *)
(* runs after `await loadTags`) is one later turn, LoadSucceeds or         *)
(* LoadFails.  That continuation works on the tagLevels and selectedPath   *)
(* captured by the render that handled the click, so each load in flight   *)
(* carries that snapshot.                                                  *)
(***************************************************************************)
EXTENDS HierarchicalTags

VARIABLES
    tagLevels,     \* useState tagLevels: one parent id per shown level
    selectedPath,  \* useState selectedPath, possibly with holes
    loading,       \* useState loading (disables every level's toggle)
    error,         \* useState error <> ''
    inFlight,      \* the loadTags calls awaiting the gateway
    reported       \* arguments of the last onChange: the host's state

vars == <<tagLevels, selectedPath, loading, error, inFlight, reported>>

(***************************************************************************)
(* A loadTags call in flight: the parent asked for, the (1-based) level it *)
(* will write, the tagLevels its closure captured, who awaits it (the      *)
(* mount effect, or handleTagSelect, which reports `path` afterwards).     *)
(***************************************************************************)
Load ==
    [parent : Parents, level : Nat \ {0}, levels : Seq(Parents),
     caller : {"mount", "select"}, path : Seq(Slot)]

\* onChange(tagPath, tag): the host keeps the path (its text is Format of
\* it) and the tag; ('', null) is the report of a clear.
Report == [path : Seq(Slot), tag : Tags \cup {NoTag}]

NoSelection == [path |-> <<>>, tag |-> NoTag]

\* onChange(currentPath, finalTag) with the newSelectedPath of a pick.
ReportOf(p) == [path |-> p, tag |-> LastOf(p)]

TypeOK ==
    /\ tagLevels \in Seq(Parents)
    /\ selectedPath \in Seq(Slot)
    /\ loading \in BOOLEAN
    /\ error \in BOOLEAN
    /\ inFlight \subseteq Load
    /\ reported \in Report

\* Mount: the state hooks start empty and the mount effect calls
\* loadTags('') before any event can be handled.
Init ==
    /\ tagLevels = <<>>
    /\ selectedPath = <<>>
    /\ loading = TRUE
    /\ error = FALSE
    /\ inFlight = {[parent |-> RootId, level |-> 1, levels |-> <<>>,
                    caller |-> "mount", path |-> <<>>]}
    /\ reported = NoSelection

(***************************************************************************)
(* The render shows the selection with getCurrentPath(), a map over        *)
(* selectedPath that throws on a stored undefined.  Nothing catches it, so *)
(* React unmounts the page: no handler, continuation or onChange of it has *)
(* any effect afterwards, and the model stops.                             *)
(***************************************************************************)
Crashed == MapThrows(selectedPath)

(***************************************************************************)
(* The item for tag t under level k can be clicked: the levels are         *)
(* rendered from tagLevels, each level's menu lists the children of its    *)
(* parent, and its toggle is disabled while loading.                       *)
(***************************************************************************)
\* Mutation: the toggle not disabled while loading.
LevelSelectableWhileLoading(k, t) ==
    /\ ~Crashed
    /\ k \in 1..Len(tagLevels)
    /\ t \in Kids(tagLevels[k])

LevelSelectable(k, t) ==
    /\ ~Crashed
    /\ ~loading
    /\ k \in 1..Len(tagLevels)
    /\ t \in Kids(tagLevels[k])

\* The onChange that handleTagSelect makes once `await loadTags` returns.
AfterLoad(l) ==
    reported' = IF l.caller = "select" THEN ReportOf(l.path) ELSE reported

(***************************************************************************)
(* Mutations: each is a plausible slip in the handler it stands in for,    *)
(* used to show that a property can tell the code from the slip.           *)
(***************************************************************************)

\* loadTags(tag.id, level + 2): the next level written one slot too deep.
HandleTagSelectSkipLevel(k, t) ==
    /\ LevelSelectable(k, t)
    /\ LET newPath == PutAndTruncate(selectedPath, k, t) IN
       /\ selectedPath' = newPath
       /\ \/ /\ HasChildren(t)
             /\ loading' = TRUE
             /\ error' = FALSE
             /\ inFlight' = inFlight \cup
                  {[parent |-> t, level |-> k + 2, levels |-> tagLevels,
                    caller |-> "select", path |-> newPath]}
             /\ UNCHANGED <<tagLevels, reported>>
          \/ /\ ~HasChildren(t)
             /\ reported' = IF MapThrows(newPath) THEN reported
                                                  ELSE ReportOf(newPath)
             /\ UNCHANGED <<tagLevels, loading, error, inFlight>>

\* newTagLevels.splice(level + 1) forgotten: deeper levels survive.
LoadSucceedsNoSplice(l) ==
    /\ ~Crashed
    /\ l \in inFlight
    /\ tagLevels' = [i \in 1..IF l.level > Len(l.levels) THEN l.level
                                                          ELSE Len(l.levels)
                       |-> IF i = l.level THEN l.parent ELSE l.levels[i]]
    /\ loading' = FALSE
    /\ inFlight' = inFlight \ {l}
    /\ AfterLoad(l)
    /\ UNCHANGED <<selectedPath, error>>

\* setLoading(false) in the try block only: a failure leaves it set.
LoadFailsNoFinally(l) ==
    /\ ~Crashed
    /\ l \in inFlight
    /\ error' = TRUE
    /\ inFlight' = inFlight \ {l}
    /\ AfterLoad(l)
    /\ UNCHANGED <<tagLevels, selectedPath, loading>>

\* setSelectedPath([]) forgotten in handleClear.
HandleClearKeepPath ==
    /\ ~Crashed
    /\ Len(selectedPath) > 0
    /\ tagLevels' = KeepFirst(tagLevels)
    /\ reported' = NoSelection
    /\ UNCHANGED <<selectedPath, loading, error, inFlight>>

(***************************************************************************)
(* handleTagSelect(tag, level): a click on tag t of the (1-based) level k, *)
(* i.e. level = k - 1.  A branch starts loadTags(t.id, level + 1), which   *)
(* writes level k + 1, and onChange waits for it; a leaf is reported at    *)
(* once.                                                                   *)
(***************************************************************************)
HandleTagSelect(k, t) ==
    /\ LevelSelectable(k, t)
    /\ LET newPath == PutAndTruncate(selectedPath, k, t) IN
       /\ selectedPath' = newPath
       /\ \/ /\ HasChildren(t)
             /\ loading' = TRUE
             /\ error' = FALSE
             /\ inFlight' = inFlight \cup
                  {[parent |-> t, level |-> k + 1, levels |-> tagLevels,
                    caller |-> "select", path |-> newPath]}
             /\ UNCHANGED <<tagLevels, reported>>
          \/ /\ ~HasChildren(t)
             /\ reported' = IF MapThrows(newPath) THEN reported
                                                  ELSE ReportOf(newPath)
             /\ UNCHANGED <<tagLevels, loading, error, inFlight>>

\* The gateway answers: the captured tagLevels gets the new level at
\* l.level and loses the ones below; finally clears loading.
LoadSucceeds(l) ==
    /\ ~Crashed
    /\ l \in inFlight
    /\ tagLevels' = PutAndTruncate(l.levels, l.level, l.parent)
    /\ loading' = FALSE
    /\ inFlight' = inFlight \ {l}
    /\ AfterLoad(l)
    /\ UNCHANGED <<selectedPath, error>>

\* The gateway fails (transport or HTTP error): the catch sets the error
\* message, tagLevels is left alone, finally clears loading.
LoadFails(l) ==
    /\ ~Crashed
    /\ l \in inFlight
    /\ error' = TRUE
    /\ loading' = FALSE
    /\ inFlight' = inFlight \ {l}
    /\ AfterLoad(l)
    /\ UNCHANGED <<tagLevels, selectedPath>>

\* handleClear: the clear button, shown while something is selected.
HandleClear ==
    /\ ~Crashed
    /\ Len(selectedPath) > 0
    /\ selectedPath' = <<>>
    /\ tagLevels' = KeepFirst(tagLevels)
    /\ reported' = NoSelection
    /\ UNCHANGED <<loading, error, inFlight>>

Next ==
    \/ \E k \in 1..Len(tagLevels), t \in Tags : HandleTagSelect(k, t)
    \/ \E l \in inFlight : LoadSucceeds(l) \/ LoadFails(l)
    \/ HandleClear

\* The gateway eventually answers or fails: request() rejects on transport
\* errors and timeouts, and nothing in the component cancels a load.
Spec == Init /\ [][Next]_vars
            /\ WF_vars(\E l \in inFlight : LoadSucceeds(l) \/ LoadFails(l))

-----------------------------------------------------------------------------
(***************************************************************************)
(* Properties.                                                             *)
(***************************************************************************)

\* The disabled toggles keep at most one loadTags in flight, and the
\* `loading` flag is set exactly while it is: the continuation of a load
\* never commits over another load's level.
FetchExclusive ==
    /\ loading <=> inFlight # {}
    /\ \A l1, l2 \in inFlight : l1 = l2

\* Whatever interleaving of picks, clears and answers, the shown levels
\* form a cascade from the root: each level lists the children of a tag
\* of the level above (loadTags truncates below what it writes).
LevelsFormCascade == IsCascade(tagLevels)

\* Every selected tag is an item of the level it is shown under, and no
\* path slot is without a level (spec: levels.length >= path.length).
PathWithinLevels ==
    /\ Len(selectedPath) <= Len(tagLevels)
    /\ \A i \in 1..Len(selectedPath) :
           selectedPath[i] \in Unset \/ selectedPath[i] \in Kids(tagLevels[i])

\* The parent whose children the load in flight asks for, if one is.
InFlightParent ==
    IF inFlight = {} THEN NoTag ELSE (CHOOSE l \in inFlight : TRUE).parent

\* Once the page has crashed it shows no toggle and runs no request.
Flight == INSTANCE SingleFlight
              WITH Requests <- Parents, NoRequest <- NoTag,
                   busy <- loading /\ ~Crashed,
                   current <- IF Crashed THEN NoTag ELSE InFlightParent

\* The dropdown keeps the spec's single-flight contract (spec 1 and 5): a
\* load starts only when none is in flight, `loading` (the disabled
\* toggles) is up exactly while one is, and each load eventually settles,
\* re-enabling the toggles.
ImplementsSingleFlight == Flight!Spec

\* The onChange that handleTagSelect makes once `await loadTags` returns
\* (answer or failure) hands the host the selection the component shows
\* at that moment, unless a clear emptied it in between: the disabled
\* toggles keep any other pick from changing it while the load is out.
AnswerReportsLiveSelection ==
    [][\A l \in inFlight :
          (LoadSucceeds(l) \/ LoadFails(l)) /\ l.caller = "select" =>
              selectedPath = <<>> \/ reported'.path = selectedPath]_vars

\* When the host is told a leaf was chosen (a complete selection), the
\* path it is given is that leaf's chain of ancestors from the root.
ReportedLeafPathIsChain ==
    reported.tag \in Tags \ Branches => IsChain(reported.path)

\* With no load in flight, the host's value is the text of the component's
\* own selection and its tag the selection's last tag.
ReportMatchesSelection ==
    inFlight = {} =>
        /\ Format(reported.path) = Format(selectedPath)
        /\ reported.tag = IF selectedPath = <<>> THEN NoTag
                                                 ELSE LastOf(selectedPath)
\* spec 3 (no gaps in a path) and the page's own render: whatever the
\* user picks, the page never throws while rendering the selection.
NoRenderCrash == ~Crashed
=============================================================================
