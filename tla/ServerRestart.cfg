SPECIFICATION Spec
CONSTANTS
    Thread = {i1, i2, i3}
    Text = {t1}
    DeltaText = {d1}
    MaxChain = 1
    MaxFold = 1
    HotMax = 1
    MaxHeld = 4
    InPlace = FALSE
    Absent = Absent
    Torn = Torn
    None = None
SYMMETRY Symmetry
INVARIANTS
    RunsOnNamedState

    
