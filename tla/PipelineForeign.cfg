CONSTANTS
    Worker = {w1, w2}
    Message = {m1, m2}
    Job = {j1}
    JobOf <- OneJob
    Token = {t1, t2, t3, t4}
    NoToken = NoToken
    NoCopy = NoCopy
    m1 = m1
    m2 = m2
    j1 = j1
    j2 = j2
    MaxRetries = 1
    MaxSaneAttempt = 100
    Foreign = {m2}
    MaxSent = 1
    FaultKinds = {"crash", "connlost", "puberr"}
    MaxFaults = 1
    FaultPoints = {"received", "claimed", "start", "generating", "executing", "succeed", "retry", "setretrying", "setfailed", "missing", "markretry", "complete", "ack", "stopped"}
SPECIFICATION Spec
INVARIANTS OneWorkerPerJob
CHECK_DEADLOCK FALSE
