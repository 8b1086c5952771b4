CONSTANTS
    w1 = w1
    w2 = w2
    w3 = w3
    Workers <- MCWorkers
    MaxPosts = 3

SPECIFICATION Spec

\* The looper is destroyed, or notify_local_execution's dassert ended the
\* process: nothing is left to step.
CHECK_DEADLOCK FALSE

PROPERTY StopReturns
