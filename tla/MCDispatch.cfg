SPECIFICATION FairSpec
CONSTANTS
    Jobs = {j1, j2, j3, j4}
    Workers = {w1, w2}
    QueueSize = 2
    NoJob = NoJob
INVARIANTS PoolInv JobsConserved DrainedWhenFinished
PROPERTY ImplementsTurnQueue
CHECK_DEADLOCK FALSE
