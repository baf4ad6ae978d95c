SPECIFICATION Spec
CONSTANTS
    Categories = {k1, k2}
    Calls = {c1, c2}
    MaxSaves = 2
SYMMETRY Symmetry
INVARIANTS
    CurrentIsLatest
    NamesItsWording
