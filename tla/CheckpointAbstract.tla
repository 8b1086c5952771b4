------------------------ MODULE CheckpointAbstract ------------------------
(***************************************************************************)
(* What checkpointing promises the rest of a replica, with the timer, the  *)
(* downgrade proposal, the prepare list's capacity, catch-up scheduling    *)
(* and gc left out.  Outside a checkpoint the app applies every decree the *)
(* prepare list commits.  A checkpoint starts only on a secondary whose    *)
(* app cannot learn delta state and lags durability by Threshold decrees;  *)
(* while it runs the app is frozen, may be made durable at its committed   *)
(* decree, and may be brought up to the prepare list in one step.  It ends *)
(* with the app caught up, or with the replica out of service.             *)
(***************************************************************************)
EXTENDS Naturals

CONSTANTS Threshold

VARIABLES
    status,   \* "primary", "secondary" or "inactive"
    appC,     \* decrees the app has applied
    appD,     \* decrees the app has made durable
    plC,      \* decrees the prepare list has committed
    busy,     \* a checkpoint is running
    delta     \* the app learns delta state and is never checkpointed

avars == <<status, appC, appD, plC, busy, delta>>

Serving == {"primary", "secondary"}

Init ==
    /\ status \in Serving
    /\ appC = 0 /\ appD = 0 /\ plC = 0
    /\ busy = FALSE
    /\ delta \in BOOLEAN

Commit ==
    /\ status \in Serving
    /\ plC' = plC + 1
    /\ appC' = IF busy THEN appC ELSE appC + 1
    /\ UNCHANGED <<status, appD, busy, delta>>

Begin ==
    /\ status = "secondary" /\ ~busy /\ ~delta
    /\ plC - appD >= Threshold
    /\ busy' = TRUE
    /\ UNCHANGED <<status, appC, appD, plC, delta>>

Persist ==
    /\ busy
    /\ appD' = appC
    /\ UNCHANGED <<status, appC, plC, busy, delta>>

CatchUp ==
    /\ busy
    /\ appC' = plC
    /\ UNCHANGED <<status, appD, plC, busy, delta>>

\* The checkpoint ends: caught up on a secondary, abandoned on a replica
\* that left service, or failed, which takes the secondary out of service.
Finish ==
    /\ busy /\ status = "secondary"
    /\ appC' = plC /\ busy' = FALSE
    /\ UNCHANGED <<status, appD, plC, delta>>

Abandon ==
    /\ busy /\ status = "inactive"
    /\ busy' = FALSE
    /\ UNCHANGED <<status, appC, appD, plC, delta>>

Fail ==
    /\ busy /\ status = "secondary"
    /\ status' = "inactive" /\ busy' = FALSE
    /\ UNCHANGED <<appC, appD, plC, delta>>

Downgrade ==
    /\ status = "primary" /\ status' = "secondary"
    /\ UNCHANGED <<appC, appD, plC, busy, delta>>

Deactivate ==
    /\ status = "secondary" /\ status' = "inactive"
    /\ UNCHANGED <<appC, appD, plC, busy, delta>>

Next ==
    \/ Commit \/ Begin \/ Persist \/ CatchUp
    \/ Finish \/ Abandon \/ Fail
    \/ Downgrade \/ Deactivate

\* A running checkpoint always ends.
Spec == Init /\ [][Next]_avars /\ WF_avars(Finish \/ Abandon \/ Fail)
=============================================================================
