CONSTANTS
    A = A  B = B  E = E  a1 = a1  a2 = a2  x = x  b1 = b1
    nA = nA  nB = nB  nE = nE  n1 = n1  n2 = n2  nx = nx
    RootId = "root"
    Hole = Hole
    Undef = Undef
    NoTag = NoTag
    Tags <- MCTags
    ParentOf <- MCParentOf
    Branches <- MCBranches
    Names <- MCNames
    DisplayName <- MCDisplayName
SPECIFICATION Spec
INVARIANT TypeOK
INVARIANT FetchExclusive
INVARIANT LevelsFormCascade
INVARIANT PathWithinLevels
PROPERTY AnswerReportsLiveSelection
\* A failed root load leaves no level and no selection: the component
\* offers nothing more to do (no retry), so the run may really stop there.
CHECK_DEADLOCK FALSE
