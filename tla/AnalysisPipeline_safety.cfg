SPECIFICATION Spec
CONSTANTS
    d1 = d1
    d2 = d2
    j1 = j1
    j2 = j2
    Docs = {d1}
    NumRows = 2
    Jobs = {j1, j2}
    MaxCatalog = 2
    MaxGen = 2
SYMMETRY JobSymmetry
INVARIANTS
    ReviewAccountsForEveryRow
    DraftHasNoOutput
    AnalysisCanContinue
PROPERTIES
    ReviewKeepsOutcomes
CHECK_DEADLOCK FALSE
