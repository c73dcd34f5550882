CONSTANTS
    Event = {e1, e2}
    Dispatcher = {d1, d2}
    Token = {t1, t2, t3, t4}
    NoToken = NoToken
    NoEvent = NoEvent
    BatchSize = 2
    FaultKinds = {"slow", "dial", "publish", "stop", "crash", "dberr", "latetick"}
    MaxFaults = 2
SPECIFICATION FairSpec
INVARIANTS TypeOK PublishedWasDelivered OneHolder NoOrphanLease
PROPERTIES NeverTakenBack DeliversAtLeastOnce
