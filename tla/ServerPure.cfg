SPECIFICATION ServeSpec
CONSTANTS
    Thread = {i1, i2}
    Text = {t1}
    DeltaText = {d1}
    MaxChain = 1
    MaxFold = 1
    HotMax = 2
    MaxHeld = 3
    InPlace = TRUE
    Absent = Absent
    Torn = Torn
    None = None
SYMMETRY Symmetry
INVARIANTS
    RunsOnNamedState
