SPECIFICATION Spec
CONSTANTS
    Wrapper = {}
    Loop = {l1}
    Handler = {}
    Text = {t1}
    DeltaText = {d1}
    MaxChain = 2
    MaxSteps = 2
    MaxGc = 0
    MergeWrapper = 2
    MergeLoop = 2
    InPlace = TRUE
    Generated = Generated
    Absent = Absent
    None = None
INVARIANTS
    MergesAll
