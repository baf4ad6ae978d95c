SPECIFICATION Spec
CONSTANTS
    Requests = {r1, r2}
    Titles = {t1, t2}
    Generation = {TRUE, FALSE}
INVARIANTS
    KindIsHonest
    RowIsTrue
PROPERTY
    RequestIsResolved
CHECK_DEADLOCK FALSE
