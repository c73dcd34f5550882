CONSTANTS
    Worker = {w1, w2}
    Message = {m1}
    Job = {j1}
    JobOf <- OneJob
    Token = {t1, t2, t3}
    NoToken = NoToken
    NoCopy = NoCopy
    m1 = m1
    m2 = m2
    j1 = j1
    j2 = j2
    MaxRetries = 2
    MaxSaneAttempt = 100
    Foreign = {}
    MaxSent = 1
    FaultKinds = {"pause"}
    MaxFaults = 1
    FaultPoints = {}
SPECIFICATION Spec
PROPERTY AttemptNeverGoesBack
CHECK_DEADLOCK FALSE
