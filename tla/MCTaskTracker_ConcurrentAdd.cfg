CONSTANTS
    t1 = t1
    t2 = t2
    t3 = t3
    Tasks <- MCTasks
    NBuckets = 3
    BucketOf <- MCBucketOf
    ConcurrentAdds = TRUE

SPECIFICATION Spec

\* Once the sweep has returned and every task is released the tracker is
\* destroyed: nothing is left to step.
CHECK_DEADLOCK FALSE

INVARIANT SweepLeavesNothing
