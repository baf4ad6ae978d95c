SPECIFICATION Spec
CONSTANTS
    Calls = {c1, c2}
    Models = {m1, m2}
    Chain <- TwoChains
    Retired = {m2}
    Threshold = 2
    MaxFailures = 3
    c1 = c1
    c2 = c2
    m1 = m1
    m2 = m2
INVARIANT
    CountIsHonest
PROPERTY
    CircuitCloses
