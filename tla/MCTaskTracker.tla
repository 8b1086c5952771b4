--------------------------- MODULE MCTaskTracker ---------------------------
EXTENDS TaskTracker
CONSTANTS t1, t2, t3

MCTasks == {t1, t2, t3}

\* t1 and t2 share a bucket, so the sweep meets a second task behind the
\* head it handled; t3 is alone in the second, and the third stays empty.
MCBucketOf == [t \in MCTasks |-> IF t = t3 THEN 2 ELSE 1]
=============================================================================
