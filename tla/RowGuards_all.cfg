SPECIFICATION GuardsSpec
CONSTANTS
    Users = {u1, u2}
    Candidates = {c1, c2}
    Saves = {s1, s2}
    Keys = {k1}
    Imports = {i1}
    MaxScores = 1
    None = None
SYMMETRY GuardsSymmetry
INVARIANTS
    VersionTellsContent
PROPERTIES
    ImplementsOnce
CHECK_DEADLOCK FALSE
