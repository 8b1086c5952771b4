CONSTANTS
    Decrees <- MCDecrees
    Ballots <- MCBallots
    MaxOldRecs = 1
    MaxCrashes = 2

SPECIFICATION Spec


\* The write workload is bounded by the decrees and ballots; once it is
\* used up an idle replica (or a node without one) takes no further step.
CHECK_DEADLOCK FALSE
INVARIANT NewNeverAborts
