SPECIFICATION Spec
CONSTANTS
    Client = {a1, a2}
    Text = {t1}
    DeltaText = {d1}
    MaxChain = 3
    MaxErrors = 1
    Policy = "threshold"
    MinSteps = 1
    MaxSteps = 2
    Ratio = 100
    MinSavings = 70
    BaseTokens = 2
    DeltaTokens = 1
    DeltaWords = 1
    Retry = FALSE
    Absent = Absent
    Torn = Torn
    None = None
SYMMETRY Symmetry
INVARIANTS
    TypeOK
    ClientNames
    SameHashSameState
    DeltasBounded
