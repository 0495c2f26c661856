SPECIFICATION FairSpec
CONSTANTS
    w1 = w1
    w2 = w2
    NoWorker = NoWorker
    Workers <- MCWorkers
INVARIANT RegistryKnowsTheThread
INVARIANT EntryIsLive
INVARIANT SuccessMeansStay
PROPERTY EntryIsReleased
