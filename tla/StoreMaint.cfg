SPECIFICATION Spec
CONSTANTS
    CliProc = {c1}
    PyProc = {p1}
    Variant = {v1}
    Text = {t1}
    DeltaText = {d1}
    MaxChain = 1
    KeepLatest = 1
    AgeLimit = FALSE
    GcApart = TRUE
    Absent = Absent
    Torn = Torn
    Unreadable = Unreadable
    None = None
SYMMETRY Symmetry
INVARIANT
    ManifestHasBlob
PROPERTY
    RecentSurvives
