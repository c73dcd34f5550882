CONSTANTS
    Job = {1, 2}
    NoJob = NoJob
    Token = {1, 2}
    NoToken = NoToken
    MaxRetries = 1
    MaxVersion = 3
    MaxMounts = 2
    MaxFaults = 2
SPECIFICATION FairSpec
INVARIANTS TypeOK ShownIsCurrent ResultFollowsSuccess ExpiredIsTrue OneChain
PROPERTIES FreshTokenSurvives PollingStops
CHECK_DEADLOCK FALSE
