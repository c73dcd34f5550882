CONSTANTS
    Message = {m1, m2, m3}
    Capacity = 1
SPECIFICATION FairSpec
INVARIANTS TypeOK SuccessMeansRouted OneVictimEach OnlyTimeoutsBlock
PROPERTIES ReaderGoesOn ImplementsConfirmedPublish
CHECK_DEADLOCK FALSE
