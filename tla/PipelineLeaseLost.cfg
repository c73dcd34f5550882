CONSTANTS
    Worker = {w1, w2}
    Message = {m1}
    Job = {j1}
    JobOf <- OneJob
    Token = {t1, t2, t3}
    NoToken = NoToken
    NoCopy = NoCopy
    m1 = m1
    m2 = m2
    j1 = j1
    j2 = j2
    MaxRetries = 2
    MaxSaneAttempt = 100
    Foreign = {}
    MaxSent = 1
    FaultKinds = {"crash", "connlost", "renewerr", "pause", "dberr", "puberr"}
    MaxFaults = 2
    FaultPoints = {"received", "claimed", "start", "generating", "validating", "executing", "store", "succeed", "retry", "setretrying", "setfailed", "markretry", "complete", "ack", "nack", "stopped"}
SPECIFICATION Spec
INVARIANTS NeverStranded SucceededHasResult OneOwner
PROPERTIES FollowsTransitions CompletedIsFinal
CHECK_DEADLOCK FALSE
