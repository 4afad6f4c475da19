SPECIFICATION FairSpec
CONSTANTS
    Thread = {i1, i2}
    Session = {s1, s2}
    Text = {t1}
    MaxSteps = 2
    MaxErrors = 1
    MaxObj = 6
    InPlace = FALSE
    None = None
INVARIANTS
    TypeOK
    
    StepsCounted
    BasesReady
PROPERTIES
    StaysClosed
    
    Answered
CHECK_DEADLOCK FALSE
