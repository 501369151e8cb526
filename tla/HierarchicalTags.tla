-------------------------- MODULE HierarchicalTags --------------------------
(***************************************************************************)
(* The data both hierarchical tag pickers work on: the server's tag tree   *)
(* as returned by getHierarchicalTags, and the array operations the two    *)
(* components apply to their tagLevels / selectedPath state.               *)
(*                                                                         *)
(* A level (one element of tagLevels) is identified by the parent whose    *)
(* children it lists: the server is static during a session, so the       *)
(* response to getHierarchicalTags({parent_id: p}) is the fixed set        *)
(* Kids(p).  RootId stands for the empty parent_id of the root request.    *)
(***************************************************************************)
EXTENDS Naturals, Sequences

CONSTANTS
    Tags,        \* tag ids (HierarchicalTagItem.id)
    RootId,      \* the parent_id '' of the root request
    ParentOf,    \* ParentOf[t]: the parent under which the server lists t
    Branches,    \* the tags whose has_children flag is true
    Names,       \* display names
    DisplayName, \* DisplayName[t]: t.display_name (need not be unique)
    Hole,        \* an unset slot of a sparse JavaScript array
    Undef,       \* a slot holding undefined, as [...arr] makes of a hole
    NoTag        \* null, the tag reported by a clear

ASSUME TagsAssumption ==
    /\ RootId \notin Tags
    /\ Hole \notin Tags
    /\ Undef \notin Tags
    /\ Undef # Hole
    /\ {Hole, Undef} \cap {RootId, NoTag} = {}
    /\ NoTag \notin Tags
    /\ NoTag # RootId
    /\ ParentOf \in [Tags -> Tags \cup {RootId}]
    /\ Branches \subseteq Tags
    /\ DisplayName \in [Tags -> Names]

Parents == Tags \cup {RootId}

\* A slot of selectedPath that holds no tag: a hole left by arr[k] = v
\* past the end, or the undefined the spread [...arr] copies it as.
Unset == {Hole, Undef}

\* A slot of selectedPath.
Slot == Tags \cup Unset

\* [...arr] iterates the array: a hole is read as undefined and stored.
Spread(v) == IF v = Hole THEN Undef ELSE v

\* p.map(t => `#${t.display_name}`) dereferences every stored slot: it
\* skips holes, and throws a TypeError on a stored undefined.
MapThrows(p) == \E i \in 1..Len(p) : p[i] = Undef

\* getHierarchicalTags({parent_id: p}).tags: the children the server lists.
Kids(p) == {t \in Tags : ParentOf[t] = p}

\* tag.has_children, as the server reports it; a branch may list no
\* children (the "No options available" case).
HasChildren(t) == t \in Branches

(***************************************************************************)
(* const a = [...s]; a[k - 1] = v; a.splice(k): the copy-assign-truncate   *)
(* both handlers apply to tagLevels and to selectedPath (k is 1-based      *)
(* here).  The copy stores undefined for each hole of s; when k - 1 is     *)
(* past the end the slots in between are holes.                           *)
(***************************************************************************)
PutAndTruncate(s, k, v) ==
    [i \in 1..k |-> IF i = k THEN v
                    ELSE IF i <= Len(s) THEN Spread(s[i]) ELSE Hole]

\* arr.slice(0, 1)
KeepFirst(s) == SubSeq(s, 1, IF Len(s) = 0 THEN 0 ELSE 1)

\* arr[arr.length - 1]
LastOf(s) == s[Len(s)]

(***************************************************************************)
(* canSubmit / canConfirm:                                                 *)
(*   path.length > 0 && !path[path.length - 1]?.has_children               *)
(* A hole in last position reads undefined, and !undefined is true.        *)
(***************************************************************************)
CanSubmit(p) ==
    /\ Len(p) > 0
    /\ LastOf(p) = Hole \/ ~HasChildren(LastOf(p))

(***************************************************************************)
(* path.map(t => `#${t.display_name}`).join(''): map skips holes and join  *)
(* writes them as '', so the text is the '#'-prefixed names of the set     *)
(* slots in order (on a stored undefined it throws: see MapThrows).  Names *)
(* hold no '#', so the text is determined by, and determines, this         *)
(* sequence of names.                                                      *)
(***************************************************************************)
Format(p) ==
    LET set == SelectSeq(p, LAMBDA s : s \notin Unset)
    IN  [i \in 1..Len(set) |-> DisplayName[set[i]]]

\* A root-to-node chain: every slot set, each the child of the one before.
IsChain(p) ==
    \A i \in 1..Len(p) :
        /\ p[i] \in Tags
        /\ ParentOf[p[i]] = IF i = 1 THEN RootId ELSE p[i - 1]

\* tagLevels as a cascade: the root level, then each level listing the
\* children of a tag shown in the level above.
IsCascade(levels) ==
    \A i \in 1..Len(levels) :
        IF i = 1 THEN levels[i] = RootId
                 ELSE levels[i] \in Kids(levels[i - 1])
=============================================================================
