SPECIFICATION Spec
CONSTANTS
    Runs = {r1}
    Rows = {x1, x2}
    NoEmail = {x2}
    Kinds = {"chase", "pay"}
    Calls = {c1, c2, c3}
    MaxBasis = 1
    MaxDrafts = 2
SYMMETRY Symmetry
INVARIANTS
    TypeOK
    FinalisedAsShown
    OneDraftPerRow
    PullIsAlone
PROPERTY
    FinishedStays
CHECK_DEADLOCK FALSE
