CONSTANTS
    Worker = {w1, w2}
    Message = {m1}
    Job = {j1}
    JobOf <- OneJob
    Token = {t1, t2, t3}
    NoToken = NoToken
    NoCopy = NoCopy
    m1 = m1
    m2 = m2
    j1 = j1
    j2 = j2
    MaxRetries = 1
    MaxSaneAttempt = 100
    Foreign = {}
    MaxSent = 2
    FaultKinds = {}
    MaxFaults = 0
    FaultPoints = {}
SPECIFICATION Spec
INVARIANT CompletedMeansTerminal
CHECK_DEADLOCK FALSE
