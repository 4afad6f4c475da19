SPECIFICATION ServeSpec
CONSTANTS
    Thread = {i1}
    Text = {t1}
    DeltaText = {d1}
    MaxChain = 2
    MaxFold = 1
    HotMax = 1
    MaxHeld = 3
    InPlace = FALSE
    Absent = Absent
    Torn = Torn
    None = None
SYMMETRY Symmetry
INVARIANTS
    CompactUsable
