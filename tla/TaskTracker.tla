---------------------------- MODULE TaskTracker ----------------------------
(***************************************************************************)
(* src/core/core/task_tracker.cpp: a tracker keeps the tasks an owner      *)
(* enqueued in per-bucket intrusive lists, each under a spin lock.  When   *)
(* the owner goes away, wait_outstanding_tasks or cancel_outstanding_tasks *)
(* sweeps the buckets: it takes the head task, claims it with              *)
(* owner_delete_prepare, waits for or cancels it outside the lock, and     *)
(* unlinks it with owner_delete_commit.  A finishing task races the sweep: *)
(* its release claims itself the same way and unlinks itself, or, when the *)
(* tracker claimed it first, spins until the tracker has committed.        *)
(*                                                                         *)
(* Each step below holds at most one bucket lock and is atomic; the       *)
(* owner-delete flag is an atomic exchange / compare-and-swap.            *)
(***************************************************************************)
EXTENDS Naturals, FiniteSets

CONSTANTS
    Tasks,        \* the tasks the owner enqueues
    NBuckets,     \* _task_bucket_count
    BucketOf,     \* task -> bucket, the hash the tracker files it under
    ConcurrentAdds \* a running task may enqueue a task the tracker tracks

Buckets == 1..NBuckets

\* trackable_task::owner_delete_state
DeleteStates == {"NOT_LOCKED", "LOCKED", "FINISHED"}

VARIABLES
    mode,         \* the sweep the owner runs: "wait" or "cancel"
    sim,          \* s_hack.under_simulation(): the tool is the simulator
    pc,           \* tracker: "idle", "scan", "handle", "commit", "simWait",
                  \* "done"
    bucket,       \* the bucket index i of the sweep
    tcm,          \* the task the sweep claimed
    prepState,    \* what owner_delete_prepare returned for it
    list,         \* bucket -> tasks linked in _outstanding_tasks[i]
    del,          \* task -> its owner-delete flag
    exec,         \* task -> "new", "pending", "running", "done", "cancelled"
    rel,          \* task -> its release: "live", "removing", "gone"
    freedUse      \* the sweep touched a task whose memory was released

vars == <<mode, sim, pc, bucket, tcm, prepState, list, del, exec, rel, freedUse>>

Ended == {"done", "cancelled"}

-----------------------------------------------------------------------------
Init ==
    /\ mode \in {"wait", "cancel"}
    /\ sim \in BOOLEAN
    /\ pc = "idle"
    /\ bucket = 1
    /\ tcm \in Tasks
    /\ prepState = "NOT_LOCKED"
    /\ list = [b \in Buckets |-> {}]
    /\ del = [t \in Tasks |-> "NOT_LOCKED"]
    /\ exec = [t \in Tasks |-> "new"]
    /\ rel = [t \in Tasks |-> "live"]
    /\ freedUse = FALSE

(* A tracked task is enqueued and linked into its bucket.  Per the        *)
(* comment at the sweep's "break", nobody adds tasks once it runs; with   *)
(* ConcurrentAdds a running task (a callback issuing the next request)    *)
(* enqueues one meanwhile, as nothing in the code prevents.               *)
AddTask(t) ==
    /\ \/ pc = "idle"
       \/ ConcurrentAdds /\ pc /= "done" /\ \E u \in Tasks : exec[u] = "running"
    /\ exec[t] = "new"
    /\ exec' = [exec EXCEPT ![t] = "pending"]
    /\ list' = [list EXCEPT ![BucketOf[t]] = @ \cup {t}]
    /\ UNCHANGED <<mode, sim, pc, bucket, tcm, prepState, del, rel, freedUse>>

(* The owner starts wait_outstanding_tasks or cancel_outstanding_tasks. *)
StartSweep ==
    /\ pc = "idle"
    /\ pc' = "scan"
    /\ UNCHANGED <<mode, sim, bucket, tcm, prepState, list, del, exec, rel, freedUse>>

(* A worker runs the task, then the task finishes. *)
RunTask(t) ==
    /\ exec[t] = "pending"
    /\ exec' = [exec EXCEPT ![t] = "running"]
    /\ UNCHANGED <<mode, sim, pc, bucket, tcm, prepState, list, del, rel, freedUse>>

FinishTask(t) ==
    /\ exec[t] = "running"
    /\ exec' = [exec EXCEPT ![t] = "done"]
    /\ UNCHANGED <<mode, sim, pc, bucket, tcm, prepState, list, del, rel, freedUse>>

\* Mutant: the simulator path takes no reference (add_ref dropped).
MutHeldRef(t) == FALSE

\* The sweep holds a reference to the task it claimed (add_ref under the
\* simulator) until it has waited for or cancelled it.
HeldRef(t) == pc = "simWait" /\ tcm = t

(* The last reference of a finished or cancelled task is released         *)
(* (trackable_task, task_tracker.h): a compare-and-swap NOT_LOCKED ->     *)
(* LOCKED claims it for unlinking; LOCKED means the sweep claimed it, so  *)
(* it spins (no step) until the sweep stores FINISHED; FINISHED means the *)
(* sweep unlinked it, and the memory is freed.                            *)
ReleaseClaim(t) ==
    /\ exec[t] \in Ended
    /\ rel[t] = "live"
    /\ ~HeldRef(t)
    /\ del[t] /= "LOCKED"
    /\ IF del[t] = "NOT_LOCKED"
       THEN /\ del' = [del EXCEPT ![t] = "LOCKED"]
            /\ rel' = [rel EXCEPT ![t] = "removing"]
       ELSE /\ rel' = [rel EXCEPT ![t] = "gone"]
            /\ UNCHANGED del
    /\ UNCHANGED <<mode, sim, pc, bucket, tcm, prepState, list, exec, freedUse>>

(* The release unlinks the task under its bucket lock and frees it. *)
ReleaseRemove(t) ==
    /\ rel[t] = "removing"
    /\ list' = [list EXCEPT ![BucketOf[t]] = @ \ {t}]
    /\ rel' = [rel EXCEPT ![t] = "gone"]
    /\ UNCHANGED <<mode, sim, pc, bucket, tcm, prepState, del, exec, freedUse>>

-----------------------------------------------------------------------------
(* The sweep, wait_outstanding_tasks (lines 83-132) and                   *)
(* cancel_outstanding_tasks (lines 134-180), which differ only in          *)
(* dsn_task_wait vs dsn_task_cancel(t, true).                              *)

\* The sweep dereferences tcm: a use after free if its release is done.
Touch(t) == freedUse' = (freedUse \/ rel[t] = "gone")

\* Mutant: dsn_task_wait returns without waiting for the task to end.
MutWaitOrCancel(t) ==
    IF mode = "wait"
    THEN UNCHANGED exec
    ELSE /\ exec[t] /= "running"
         /\ exec' = [exec EXCEPT ![t] = IF @ = "pending" THEN "cancelled" ELSE @]

\* dsn_task_wait returns once the task ended; dsn_task_cancel(t, true)
\* cancels a task that has not started and waits for a running one.
WaitOrCancel(t) ==
    IF mode = "wait"
    THEN /\ exec[t] \in Ended
         /\ UNCHANGED exec
    ELSE /\ exec[t] /= "running"
         /\ exec' = [exec EXCEPT ![t] = IF @ = "pending" THEN "cancelled" ELSE @]

(* Mutant: an empty bucket advances i twice. *)
MutNextBucket == bucket' = bucket + 2

\* for (...; i++): the sweep moves to the next bucket.
NextBucket == bucket' = bucket + 1

(* Mutant: a head claimed by its release ends the bucket, as if the       *)
(* switch's "break" left the while (true) loop.                          *)
MutRetryHead == NextBucket

\* The while (true) loop reads the same bucket's head again.
RetryHead == UNCHANGED bucket

(* Under bucket i's lock: an empty list ends the bucket ("break"),        *)
(* otherwise the head is claimed with owner_delete_prepare, an atomic     *)
(* exchange to LOCKED that returns the previous state.                    *)
Scan ==
    /\ pc = "scan"
    /\ \/ /\ bucket > NBuckets
          /\ pc' = "done"
          /\ UNCHANGED <<bucket, tcm, prepState, del, freedUse>>
       \/ /\ bucket <= NBuckets
          /\ list[bucket] = {}
          /\ NextBucket
          /\ UNCHANGED <<pc, tcm, prepState, del, freedUse>>
       \/ /\ bucket <= NBuckets
          /\ \E t \in list[bucket] :
                /\ tcm' = t
                /\ prepState' = del[t]
                /\ del' = [del EXCEPT ![t] = "LOCKED"]
                /\ Touch(t)
          /\ pc' = "handle"
          /\ UNCHANGED bucket
    /\ UNCHANGED <<mode, sim, list, exec, rel>>

\* owner_delete_commit: unlink the task under its bucket lock, then store
\* FINISHED, which releases a release spinning on LOCKED.
OwnerDeleteCommit(t) ==
    /\ list' = [list EXCEPT ![BucketOf[t]] = @ \ {t}]
    /\ del' = [del EXCEPT ![t] = "FINISHED"]

(* s_hack.under_simulation(): whether the current tool is the simulator, *)
(* computed on a thread's first call and cached in the thread-local hack. *)
UnderSimulation == sim

(* The switch on what owner_delete_prepare returned.  NOT_LOCKED: the      *)
(* sweep owns the unlinking; outside the simulator it waits or cancels    *)
(* and then commits, under the simulator it takes a reference, commits    *)
(* and waits or cancels after.  LOCKED or FINISHED: the task's own release *)
(* unlinks it; the sweep reads the head of the bucket again.               *)
Handle ==
    /\ pc = "handle"
    /\ \/ /\ prepState = "NOT_LOCKED"
          /\ ~UnderSimulation
          /\ WaitOrCancel(tcm)
          /\ Touch(tcm)
          /\ pc' = "commit"
          /\ UNCHANGED <<list, del, bucket>>
       \/ /\ prepState = "NOT_LOCKED"
          /\ UnderSimulation
          /\ Touch(tcm)
          /\ OwnerDeleteCommit(tcm)
          /\ pc' = "simWait"
          /\ UNCHANGED <<exec, bucket>>
       \/ /\ prepState \in {"LOCKED", "FINISHED"}
          /\ pc' = "scan"
          /\ RetryHead
          /\ UNCHANGED <<list, del, exec, freedUse>>
    /\ UNCHANGED <<mode, sim, tcm, prepState, rel>>

(* Mutant: owner_delete_commit stores FINISHED but never unlinks the task. *)
MutCommit ==
    /\ pc = "commit"
    /\ del' = [del EXCEPT ![tcm] = "FINISHED"]
    /\ Touch(tcm)
    /\ pc' = "scan"
    /\ UNCHANGED <<mode, sim, bucket, tcm, prepState, list, exec, rel>>

(* Mutant: owner_delete_commit unlinks the task but never stores FINISHED. *)
MutCommitNoFinish ==
    /\ pc = "commit"
    /\ list' = [list EXCEPT ![BucketOf[tcm]] = @ \ {tcm}]
    /\ Touch(tcm)
    /\ pc' = "scan"
    /\ UNCHANGED <<mode, sim, bucket, tcm, prepState, del, exec, rel>>

(* tcm->owner_delete_commit() after dsn_task_wait / dsn_task_cancel. *)
Commit ==
    /\ pc = "commit"
    /\ OwnerDeleteCommit(tcm)
    /\ Touch(tcm)
    /\ pc' = "scan"
    /\ UNCHANGED <<mode, sim, bucket, tcm, prepState, exec, rel>>

(* Under the simulator: tsk->wait() or tsk->cancel(true) after the commit, *)
(* then release_ref() drops the sweep's reference.                        *)
SimWait ==
    /\ pc = "simWait"
    /\ WaitOrCancel(tcm)
    /\ Touch(tcm)
    /\ pc' = "scan"
    /\ UNCHANGED <<mode, sim, bucket, tcm, prepState, list, del, rel>>

Next ==
    \/ \E t \in Tasks : AddTask(t) \/ RunTask(t) \/ FinishTask(t)
                        \/ ReleaseClaim(t) \/ ReleaseRemove(t)
    \/ StartSweep
    \/ Scan
    \/ Handle
    \/ Commit
    \/ SimWait

(* Worker threads run queued tasks, a released task finishes its release, *)
(* and the sweep's thread keeps stepping: none of them waits on anything  *)
(* but the steps modelled here.  Adding tasks and starting the sweep are  *)
(* the owner's choice and get no fairness.                                *)
Spec ==
    /\ Init /\ [][Next]_vars
    /\ \A t \in Tasks : /\ WF_vars(RunTask(t)) /\ WF_vars(FinishTask(t))
                       /\ WF_vars(ReleaseClaim(t)) /\ WF_vars(ReleaseRemove(t))
    /\ WF_vars(Scan) /\ WF_vars(Handle) /\ WF_vars(Commit) /\ WF_vars(SimWait)

-----------------------------------------------------------------------------
TypeOK ==
    /\ mode \in {"wait", "cancel"} /\ sim \in BOOLEAN
    /\ pc \in {"idle", "scan", "handle", "commit", "simWait", "done"}
    /\ bucket \in 1..NBuckets + 1
    /\ tcm \in Tasks /\ prepState \in DeleteStates
    /\ list \in [Buckets -> SUBSET Tasks]
    /\ del \in [Tasks -> DeleteStates]
    /\ exec \in [Tasks -> {"new", "pending", "running", "done", "cancelled"}]
    /\ rel \in [Tasks -> {"live", "removing", "gone"}]
    /\ freedUse \in BOOLEAN

(* The sweep never dereferences a task whose memory its release freed:    *)
(* between owner_delete_prepare and owner_delete_commit the task's own    *)
(* release spins on LOCKED, and under the simulator the sweep's reference *)
(* keeps the task alive while it waits.                                   *)
NoUseAfterRelease == ~freedUse

(* When wait_outstanding_tasks or cancel_outstanding_tasks returns, every *)
(* bucket list is empty and every task it tracked has ended, so the       *)
(* tracker's destructor frees lists no task will unlink itself from.      *)
SweepLeavesNothing ==
    pc = "done" =>
        /\ \A b \in Buckets : list[b] = {}
        /\ \A t \in Tasks : exec[t] \in Ended \cup {"new"}

(* The sweep returns: a head claimed by its own release is unlinked by    *)
(* that release, so re-reading the head does not spin forever.            *)
SweepTerminates == pc = "scan" ~> pc = "done"

(* Every task that ended is eventually released: a release spinning on   *)
(* LOCKED is freed by the sweep's owner_delete_commit.                    *)
EveryTaskReleased == \A t \in Tasks : exec[t] \in Ended ~> rel[t] = "gone"

-----------------------------------------------------------------------------
(* Refinement of TaskTrackerAbstract.  The sweep has claimed tcm from the  *)
(* moment owner_delete_prepare returned NOT_LOCKED until it commits (or,   *)
(* under the simulator, until its wait after the commit returns); the     *)
(* tasks still linked in a bucket are tracked.                            *)
SweepClaimed ==
    IF \/ pc \in {"handle", "commit"} /\ prepState = "NOT_LOCKED"
       \/ pc = "simWait"
    THEN {tcm} ELSE {}

Abs == INSTANCE TaskTrackerAbstract WITH
    phase <- CASE pc = "idle" -> "idle" [] pc = "done" -> "done"
                  [] OTHER -> "sweeping",
    tracked <- UNION {list[b] : b \in Buckets} \ SweepClaimed,
    claimed <- SweepClaimed

(* The sweep and the tasks' own releases implement the tracker's contract: *)
(* a task leaves the tracker only after it ended (cancelled first by      *)
(* cancel_outstanding_tasks), whether its release unlinked it or the      *)
(* sweep did, and wait/cancel_outstanding_tasks returns only when no task *)
(* is left, as TaskTrackerAbstract specifies.                             *)
TrackerRefinement == Abs!Spec
=============================================================================
