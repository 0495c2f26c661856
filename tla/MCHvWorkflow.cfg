SPECIFICATION FairSpec
CONSTANTS
    w1 = w1
    Workers <- MCWorkers
INVARIANT CancelTakesEffect
INVARIANT NoConnectionLeft
PROPERTY ImplementsSequence
PROPERTY ImplementsThread
PROPERTY EveryWorkflowEnds
