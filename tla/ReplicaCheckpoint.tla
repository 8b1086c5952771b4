------------------------- MODULE ReplicaCheckpoint -------------------------
(***************************************************************************)
(* Checkpointing of one replica, src/apps/replication/lib/replica_timer.cpp.*)
(* The periodic check timer starts a checkpoint when the app's committed   *)
(* decree is far enough ahead of its durable one.  A primary first asks to *)
(* be downgraded; a secondary flushes the app in a long-running task.      *)
(* While _secondary_states.checkpoint_task is set, commits advance the     *)
(* prepare list but are not written into the app.  on_checkpoint_completed *)
(* then writes the missed decrees from the prepare list, when it still     *)
(* holds them, or schedules a catch-up from the private log and tries      *)
(* again.                                                                  *)
(*                                                                         *)
(* Decrees are naturals.  The prepare list keeps the committed decrees     *)
(* plMin..plC and drops the oldest one beyond its capacity.                *)
(***************************************************************************)
EXTENDS Naturals

CONSTANTS
    Threshold,    \* committed - durable gap that triggers a checkpoint (10000)
    Capacity,     \* committed decrees the prepare list holds
    MaxDecree     \* bound on commits in one behaviour

VARIABLES
    status,       \* status(): "primary", "secondary" or "inactive"
    proposed,     \* a CT_DOWNGRADE_TO_SECONDARY proposal is outstanding
    appC,         \* _app->last_committed_decree()
    appD,         \* _app->last_durable_decree()
    plC,          \* _prepare_list->last_committed_decree()
    plMin,        \* _prepare_list->min_decree()
    task,         \* checkpoint_task: "none", or the work it runs next:
                  \* "flush" (checkpoint), "catchup", or "completed"
    flushErr,     \* the error the enqueued on_checkpoint_completed carries
    gcFloor,      \* private-log decrees at or below it are reclaimed
    delta         \* _app->is_delta_state_learning_supported()

vars == <<status, proposed, appC, appD, plC, plMin, task, flushErr, gcFloor,
          delta>>

Tasks == {"none", "flush", "catchup", "completed"}

NatMax(a, b) == IF a >= b THEN a ELSE b

-----------------------------------------------------------------------------
Init ==
    /\ status \in {"primary", "secondary"}
    /\ proposed = FALSE
    /\ appC = 0 /\ appD = 0
    /\ plC = 0 /\ plMin = 1
    /\ task = "none"
    /\ flushErr = FALSE
    /\ gcFloor = 0
    /\ delta \in BOOLEAN

(* Mutant: the delta-state-learning test is dropped. *)
MutNeedsCheckpoint == TRUE

\* No checkpoint for an app that supports delta state learning (line 73).
NeedsCheckpoint == ~delta

(* init_checkpoint: only a primary or secondary whose app cannot learn    *)
(* delta state, with no checkpoint running and the replica's committed    *)
(* decree at least Threshold ahead of the app's durable one; a primary proposes its own downgrade, a secondary     *)
(* enqueues checkpoint().                                                 *)
InitCheckpoint ==
    IF /\ status \in {"primary", "secondary"}
       /\ NeedsCheckpoint
       /\ task = "none"
       /\ plC - appD >= Threshold
    THEN IF status = "primary"
         THEN /\ proposed' = TRUE
              /\ UNCHANGED task
         ELSE /\ task' = "flush"
              /\ UNCHANGED proposed
    ELSE UNCHANGED <<proposed, task>>

(* Mutant: the private log is reclaimed up to the committed decree. *)
MutGc ==
    gcFloor' = NatMax(gcFloor, plC)

(* gc: garbage_collection of the private log up to the durable decree. *)
Gc ==
    gcFloor' = NatMax(gcFloor, appD)

(* on_check_timer: init_checkpoint() then gc(), every five minutes. *)
OnCheckTimer ==
    /\ InitCheckpoint
    /\ Gc
    /\ UNCHANGED <<status, appC, appD, plC, plMin, flushErr, delta>>

(* Mutant: the flush marks the prepare list's committed decree durable. *)
MutCheckpoint ==
    /\ task = "flush"
    /\ task' = "completed"
    /\ \E ok \in BOOLEAN :
          /\ flushErr' = ~ok
          /\ appD' = IF ok THEN plC ELSE appD
    /\ UNCHANGED <<status, proposed, appC, plC, plMin, gcFloor,
                   delta>>

(* checkpoint: _app->flush(true) makes everything the app has committed   *)
(* durable, or fails; on_checkpoint_completed(err) is enqueued.           *)
Checkpoint ==
    /\ task = "flush"
    /\ task' = "completed"
    /\ \E ok \in BOOLEAN :
          /\ flushErr' = ~ok
          /\ appD' = IF ok THEN appC ELSE appD
    /\ UNCHANGED <<status, proposed, appC, plC, plMin, gcFloor,
                   delta>>

(* Mutant: the catch-up applies nothing. *)
MutCatchUpWithPrivateLogs ==
    /\ task = "catchup"
    /\ task' = "completed"
    /\ \E ok \in BOOLEAN :
          /\ flushErr' = ~ok
          /\ appC' = appC
    /\ UNCHANGED <<status, proposed, appD, plC, plMin, gcFloor,
                   delta>>

(* catch_up_with_private_logs(PS_SECONDARY): applies the private log from *)
(* appC + 1 on, which holds every committed decree above the gc floor,    *)
(* then enqueues on_checkpoint_completed(err).                            *)
CatchUpWithPrivateLogs ==
    /\ task = "catchup"
    /\ task' = "completed"
    /\ \E ok \in BOOLEAN :
          /\ flushErr' = ~ok
          /\ appC' = IF ok /\ gcFloor <= appC THEN plC ELSE appC
    /\ UNCHANGED <<status, proposed, appD, plC, plMin, gcFloor,
                   delta>>

\* The decrees the app missed are still in the prepare list (line 182).
CoveredByPrepareList == appC > plMin

(* Mutant: the catch-up is not scheduled and the task is cleared. *)
MutScheduleCatchUp == task' = "none"

\* checkpoint_task = enqueue(catch_up_with_private_logs) (lines 198-203).
ScheduleCatchUp == task' = "catchup"

(* on_checkpoint_completed(err): not secondary (closing) -> clear the     *)
(* task; an error -> clear it and handle_local_failure; decrees committed *)
(* meanwhile -> write them from the prepare list when                      *)
(* appC > min_decree(), every get_mutation_by_decree asserted non-null,   *)
(* else schedule the catch-up; nothing missed -> clear the task.          *)
OnCheckpointCompleted ==
    /\ task = "completed"
    /\ \/ /\ status /= "secondary"
          /\ task' = "none"
          /\ UNCHANGED <<status, appC>>
       \/ /\ status = "secondary"
          /\ flushErr
          /\ task' = "none"
          /\ status' = "inactive"
          /\ UNCHANGED appC
       \/ /\ status = "secondary"
          /\ ~flushErr
          /\ plC > appC
          /\ IF CoveredByPrepareList
             THEN /\ appC' = plC
                  /\ task' = "none"
             ELSE /\ ScheduleCatchUp
                  /\ UNCHANGED appC
          /\ UNCHANGED status
       \/ /\ status = "secondary"
          /\ ~flushErr
          /\ plC <= appC
          /\ task' = "none"
          /\ UNCHANGED <<status, appC>>
    /\ UNCHANGED <<proposed, appD, plC, plMin, flushErr, gcFloor, delta>>

-----------------------------------------------------------------------------
(* The rest of the replica (replica_2pc.cpp, replica_config.cpp, not in   *)
(* src/).  A commit advances the prepare list, dropping its oldest decree *)
(* beyond Capacity, and is written into the app unless a checkpoint is    *)
(* running (execute_mutation skips the app write then).                   *)
Commit ==
    /\ status \in {"primary", "secondary"}
    /\ plC < MaxDecree
    /\ plC' = plC + 1
    /\ plMin' = IF plC + 1 - plMin + 1 > Capacity THEN plMin + 1 ELSE plMin
    /\ appC' = IF task = "none" THEN appC + 1 ELSE appC
    /\ UNCHANGED <<status, proposed, appD, task, flushErr, gcFloor,
                   delta>>

(* The meta service applies the downgrade proposal. *)
Downgrade ==
    /\ status = "primary"
    /\ proposed
    /\ status' = "secondary"
    /\ proposed' = FALSE
    /\ UNCHANGED <<appC, appD, plC, plMin, task, flushErr, gcFloor,
                   delta>>

(* A configuration change or a local failure elsewhere takes the          *)
(* secondary out of service.                                              *)
Deactivate ==
    /\ status = "secondary"
    /\ status' = "inactive"
    /\ UNCHANGED <<proposed, appC, appD, plC, plMin, task, flushErr, gcFloor,
                   delta>>

Next ==
    \/ OnCheckTimer
    \/ Checkpoint
    \/ CatchUpWithPrivateLogs
    \/ OnCheckpointCompleted
    \/ Commit
    \/ Downgrade
    \/ Deactivate

(* Enqueued tasks run eventually: the task engine drains its queues. *)
Spec ==
    /\ Init /\ [][Next]_vars
    /\ WF_vars(Checkpoint)
    /\ WF_vars(CatchUpWithPrivateLogs)
    /\ WF_vars(OnCheckpointCompleted)

-----------------------------------------------------------------------------
TypeOK ==
    /\ status \in {"primary", "secondary", "inactive"}
    /\ {proposed, flushErr} \subseteq BOOLEAN
    /\ appD <= appC /\ appC <= plC /\ plC \in 0..MaxDecree
    /\ plMin \in 1..plC + 1
    /\ task \in Tasks /\ delta \in BOOLEAN
    /\ gcFloor \in 0..MaxDecree

(* Whenever a serving replica runs no checkpoint, its app has applied     *)
(* every decree the prepare list committed: the commits skipped during a  *)
(* checkpoint are all written back, from the prepare list or the private  *)
(* log, before checkpoint_task is cleared.                                *)
AppCaughtUpWhenIdle ==
    status \in {"primary", "secondary"} /\ task = "none" => appC = plC

(* A checkpoint that started always ends: the on_checkpoint_completed /   *)
(* catch-up loop clears checkpoint_task, so the timer can start the next. *)
CheckpointTerminates == task /= "none" ~> task = "none"

(* Refinement of CheckpointAbstract: a checkpoint runs while              *)
(* checkpoint_task is set, whatever work it holds.                        *)
Abs == INSTANCE CheckpointAbstract WITH busy <- task /= "none"

(* Checkpointing keeps the promise CheckpointAbstract states: the app is  *)
(* frozen only while checkpoint_task is set, made durable only at its own *)
(* committed decree, and the task is cleared only with the app caught up  *)
(* to the prepare list or the replica out of service; init_checkpoint     *)
(* starts no checkpoint of an app that learns delta state.                *)
CheckpointRefinement == Abs!Spec
=============================================================================
