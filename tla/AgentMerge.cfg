SPECIFICATION Spec
CONSTANTS
    Wrapper = {w1}
    Loop = {l1, l2}
    Handler = {h1}
    Text = {t1}
    DeltaText = {d1}
    MaxChain = 2
    MaxSteps = 2
    MaxGc = 1
    MergeWrapper = 2
    MergeLoop = 1
    InPlace = TRUE
    Generated = Generated
    Absent = Absent
    None = None
INVARIANTS
    TypeOK
    CacheCoversName
    TokensOfName
    
SYMMETRY Symmetry
