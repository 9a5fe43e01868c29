SPECIFICATION LockFreeSpec
CONSTANTS
    w1 = w1
    w2 = w2
    v1 = v1
    v2 = v2
    t1 = t1
    t2 = t2
    Threads <- TwoThreads
    Acquirers <- OneAcquirer
    PoolCapacity = 3
    Nothing = Nothing
    Writers <- TwoWriters
    Fields <- TwoFields
    MaxVersions = 3
    Values <- TwoValues
    Capacity = 2
    Word = 4
    MaxPushes = 9
INVARIANTS
    PublishedIsImmutable
    TornOnlyByTwoPublishes
    NeverOlderThanLatest
    NoSlotRace
    RefusedOnlyWhenFullOrEmpty
PROPERTIES
    ImplementsFifo
    SizeWrapsOnlyDuringPush
    PublishedIsTaken
    PoolKeepsItsNodes
