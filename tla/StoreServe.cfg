SPECIFICATION ServeSpec
CONSTANTS
    CliProc = {c1, c2, c3}
    PyProc = {}
    Variant = {v1}
    Text = {t1}
    DeltaText = {d1}
    MaxChain = 2
    KeepLatest = 1
    AgeLimit = FALSE
    GcApart = FALSE
    Absent = Absent
    Torn = Torn
    Unreadable = Unreadable
    None = None
SYMMETRY Symmetry
INVARIANTS
    RestingPacketsIntact
