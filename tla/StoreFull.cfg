SPECIFICATION Spec
CONSTANTS
    CliProc = {c1, c2}
    PyProc = {p1}
    Variant = {v1, v2}
    Text = {t1}
    DeltaText = {d1}
    MaxChain = 0
    KeepLatest = 1
    AgeLimit = TRUE
    GcApart = FALSE
    Absent = Absent
    Torn = Torn
    Unreadable = Unreadable
    None = None
SYMMETRY Symmetry
INVARIANTS
    TypeOK
    DeltaBinding
