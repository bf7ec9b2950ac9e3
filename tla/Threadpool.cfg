\* Three workers, two threads that enqueue, two tasks and a destructor that may
\* run at any moment.
CONSTANTS
    Workers = {w1, w2, w3}
    Producers = {p1, p2}
    Owner = owner
    Free = free
    MaxTasks = 2
SPECIFICATION PoolFairSpec
INVARIANTS PoolTypeOK StartedInOrder RunOnce NoLostWakeup DrainedWhenGone
PROPERTIES EveryTaskRuns DestructorReturns ImplementsTaskQueue
