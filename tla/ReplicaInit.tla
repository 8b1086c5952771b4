---------------------------- MODULE ReplicaInit ----------------------------
(***************************************************************************)
(* Creation, loading and log replay of one replica of one partition, from  *)
(* src/apps/replication/lib/replica_init.cpp: initialize_on_new,           *)
(* initialize_on_load, init_app_and_prepare_list, replay_mutation and      *)
(* reset_prepare_list_after_replay.  The node's shared log may hold        *)
(* records of an earlier incarnation of the partition; the replica's       *)
(* private log lives in its directory.  The process may crash at any step *)
(* and the replica is then reloaded from its directory.                    *)
(*                                                                         *)
(* A log record is [d |-> decree, b |-> ballot]; its offset is its         *)
(* position in the log minus one.  The prepare list is a map from decree  *)
(* to the ballot of the mutation it holds (0 = none).  The prepare list,   *)
(* mutation_log and the application are not under src/: their behaviour  *)
(* is taken from the specification (sections 4.1, 4.2, 6).                 *)
(***************************************************************************)
EXTENDS Naturals, Sequences, FiniteSets, SequencesExt

CONSTANTS
    Decrees,      \* decrees 1..n a mutation may carry
    Ballots,      \* ballots 1..m a mutation may carry
    MaxOldRecs,   \* records an earlier incarnation left in the shared log
    MaxCrashes    \* bound on process crashes

Recs == [d : Decrees, b : Ballots]

VARIABLES
    phase,        \* where the replica object is, see Phases
    dirExists,    \* <data_root>/<app_id>.<pidx>.<app_type> is on disk
    sharedLog,    \* this partition's records in the stub's shared log
    privLog,      \* records of the private log <dir>/log
    pendingPriv,  \* private-log appends issued and not completed
    floorS,       \* app log_info().init_offset_in_shared_log
    floorP,       \* app log_info().init_offset_in_private_log
    appC,         \* _app->last_committed_decree()
    appD,         \* _app->last_durable_decree()
    appOpen,      \* _app is allocated and open
    timer,        \* _check_timer is scheduled
    lc,           \* _prepare_list->last_committed_decree()
    prepared,     \* decree -> ballot of the prepared mutation, 0 if none
    ballot,       \* get_ballot()
    cursor,       \* next record mutation_log::open hands to the callback
    crashes,      \* crashes so far
    aborted,      \* a dassert killed the process during initialize_on_new
    loadLost      \* a reload of a surviving directory returned nullptr

vars == <<phase, dirExists, sharedLog, privLog, pendingPriv, floorS, floorP,
          appC, appD, appOpen, timer, lc, prepared, ballot, cursor, crashes,
          aborted, loadLost>>

Phases == {"none", "replayPrivate", "replayShared", "active", "inactive",
           "failed", "down"}

NoneDecree == [d \in Decrees |-> 0]

BallotMax(a, b) == IF a >= b THEN a ELSE b

-----------------------------------------------------------------------------
(* Replay of one record by replay_mutation(mu, is_private), lines 270-364. *)

\* The record at offset off passes the floor check of its log.
AboveFloor(off, isPrivate) ==
    off >= IF isPrivate THEN floorP ELSE floorS

(* Mutant: a decree already prepared is skipped whatever its ballot. *)
MutOutdated(r) == r.d <= lc \/ prepared[r.d] /= 0
\* The record is skipped as outdated (d <= last committed) or because the
\* prepare list already holds the decree with a ballot at least as high.
Outdated(r) == r.d <= lc \/ prepared[r.d] >= r.b

\* replay_mutation returning true: a skip, or a prepare at PS_INACTIVE
\* after raising the ballot, with the mutation re-appended to the private
\* log when it came from the shared log.
(* Mutant: shared-log records are not re-appended to the private log. *)
MutReplayMutation(r, off, isPrivate) ==
    /\ AboveFloor(off, isPrivate)
    /\ IF Outdated(r)
       THEN UNCHANGED <<prepared, ballot, pendingPriv>>
       ELSE /\ ballot' = BallotMax(ballot, r.b)
            /\ prepared' = [prepared EXCEPT ![r.d] = r.b]
            /\ UNCHANGED pendingPriv

ReplayMutation(r, off, isPrivate) ==
    /\ AboveFloor(off, isPrivate)
    /\ IF Outdated(r)
       THEN UNCHANGED <<prepared, ballot, pendingPriv>>
       ELSE /\ ballot' = BallotMax(ballot, r.b)
            /\ prepared' = [prepared EXCEPT ![r.d] = r.b]
            /\ pendingPriv' = IF isPrivate THEN pendingPriv
                              ELSE Append(pendingPriv, r)

-----------------------------------------------------------------------------
Init ==
    /\ phase = "none"
    /\ dirExists \in BOOLEAN
    /\ sharedLog \in BoundedSeq(Recs, MaxOldRecs)
    /\ privLog = <<>>
    /\ pendingPriv = <<>>
    /\ floorS = 0
    /\ floorP = 0
    /\ appC = 0
    /\ appD = 0
    /\ appOpen = FALSE
    /\ timer = FALSE
    /\ lc = 0
    /\ prepared = NoneDecree
    /\ ballot = 0
    /\ cursor = 1
    /\ crashes = 0
    /\ aborted = FALSE
    /\ loadLost = FALSE

(* replica::newr -> initialize_on_new(app_type, gpid).  A stale directory *)
(* that cannot be removed gives ERR_PATH_ALREADY_EXIST and newr returns   *)
(* nullptr; a failed create_directory, an unknown app_type or a failed    *)
(* app open reach dassert(false) / dassert(err == ERR_OK) and kill the    *)
(* process.  On success the app is fresh (committed decree 0), both log   *)
(* floors are reset to the logs' current ends by on_partition_reset, the  *)
(* empty private log is replayed and the check timer is scheduled.        *)
InitializeOnNew ==
    /\ phase \in {"none", "failed"}
    /\ \E removeOk, createOk, appOk \in BOOLEAN :
        \/ /\ dirExists /\ ~removeOk
           /\ phase' = "failed"
           /\ UNCHANGED <<dirExists, aborted, sharedLog, privLog, floorS,
                          floorP, appC, appD, appOpen, timer, lc, prepared,
                          ballot>>
        \/ /\ ~dirExists \/ removeOk
           /\ ~createOk \/ ~appOk
           /\ phase' = IF createOk THEN "down" ELSE "none"
           /\ aborted' = TRUE
           /\ dirExists' = createOk
           /\ privLog' = <<>>
           /\ UNCHANGED <<sharedLog, floorS, floorP, appC, appD, appOpen,
                          timer, lc, prepared, ballot>>
        \/ /\ ~dirExists \/ removeOk
           /\ createOk /\ appOk
           /\ phase' = "active"
           /\ dirExists' = TRUE
           /\ privLog' = <<>>
           /\ appC' = 0 /\ appD' = 0
           /\ lc' = 0 /\ prepared' = NoneDecree /\ ballot' = 0
           /\ floorS' = Len(sharedLog)
           /\ floorP' = 0
           /\ appOpen' = TRUE
           /\ timer' = TRUE
           /\ UNCHANGED <<sharedLog, aborted>>
    /\ UNCHANGED <<pendingPriv, cursor, crashes, loadLost>>

(* Mutant: the prepare list is reset one decree past the app's. *)
MutResetPrepareList == lc' = appC + 1 /\ prepared' = NoneDecree

\* _prepare_list->reset(_app->last_committed_decree()).
ResetPrepareList == lc' = appC /\ prepared' = NoneDecree

(* replica::load -> initialize_on_load(dir, rename_dir_on_failure = true) *)
(* -> init_app_and_prepare_list(app_type, false) up to the private-log    *)
(* replay: the app is opened on its data, the prepare list reset to the   *)
(* app's committed decree and the logs' valid-offset floors restored from *)
(* the app's log_info.  A failed open closes the app and renames the      *)
(* directory to <dir>.<rand>.err (ERR_FILE_OPERATION_FAILED if the rename *)
(* fails); load returns nullptr either way.                               *)
InitializeOnLoad ==
    /\ phase = "down"
    /\ dirExists
    /\ \E appOk, renamed \in BOOLEAN :
        \/ /\ ~appOk
           /\ phase' = "failed"
           /\ dirExists' = ~renamed
           /\ UNCHANGED <<appOpen, lc, prepared>>
        \/ /\ appOk
           /\ phase' = "replayPrivate"
           /\ appOpen' = TRUE
           /\ ResetPrepareList
           /\ UNCHANGED dirExists
    /\ UNCHANGED <<sharedLog, privLog, pendingPriv, floorS, floorP, appC, appD,
                   timer, ballot, cursor, crashes, aborted, loadLost>>

(* The error path of init_app_and_prepare_list after a replay callback    *)
(* returned false: the log open fails, the private log and the app are    *)
(* closed, and load returns nullptr.                                      *)
LoadFailed ==
    /\ phase' = "failed"
    /\ appOpen' = FALSE
    /\ timer' = FALSE
    /\ pendingPriv' = <<>>
    /\ loadLost' = TRUE

(* mutation_log::open on the private log hands the next record to the    *)
(* replay_mutation(mu) callback.  The private floor is the end of the     *)
(* fresh private log when the replica was created (0), so no private      *)
(* record is ever below it and the callback never returns false here.     *)
ReplayPrivate ==
    /\ phase = "replayPrivate"
    /\ cursor <= Len(privLog)
    /\ ReplayMutation(privLog[cursor], cursor - 1, TRUE)
    /\ cursor' = cursor + 1
    /\ UNCHANGED <<phase, dirExists, sharedLog, privLog, floorS, floorP, appC,
                   appD, appOpen, timer, lc, crashes, aborted, loadLost>>

(* The private log was replayed to its end: set_inactive_state_transient *)
(* (true) and the periodic check timer is scheduled; the stub then        *)
(* replays the shared log.                                                *)
PrivateLogOpened ==
    /\ phase = "replayPrivate"
    /\ cursor > Len(privLog)
    /\ phase' = "replayShared"
    /\ timer' = TRUE
    /\ cursor' = 1
    /\ UNCHANGED <<dirExists, sharedLog, privLog, pendingPriv, floorS, floorP,
                   appC, appD, appOpen, lc, prepared, ballot, crashes,
                   aborted, loadLost>>

(* The stub's shared-log open hands the partition's next record to         *)
(* replay_mutation(mu, false); by the log's open contract a false return  *)
(* makes the log unusable and the replica is closed.                      *)
ReplayShared ==
    /\ phase = "replayShared"
    /\ cursor <= Len(sharedLog)
    /\ LET r == sharedLog[cursor] IN
        \/ /\ ReplayMutation(r, cursor - 1, FALSE)
           /\ cursor' = cursor + 1
           /\ UNCHANGED <<phase, appOpen, timer, loadLost>>
        \/ /\ ~AboveFloor(cursor - 1, FALSE)
           /\ LoadFailed
           /\ UNCHANGED <<prepared, ballot, cursor>>
    /\ UNCHANGED <<dirExists, sharedLog, privLog, floorS, floorP, appC, appD,
                   lc, crashes, aborted>>

(* reset_prepare_list_after_replay: commit(app committed, SOFT) and        *)
(* truncate(app committed); the replica then serves.                      *)
ResetPrepareListAfterReplay ==
    /\ phase = "replayShared"
    /\ cursor > Len(sharedLog)
    /\ phase' = "active"
    /\ lc' = BallotMax(lc, appC)
    /\ prepared' = [d \in Decrees |-> IF d <= appC THEN 0 ELSE prepared[d]]
    /\ UNCHANGED <<dirExists, sharedLog, privLog, pendingPriv, floorS, floorP,
                   appC, appD, appOpen, timer, ballot, cursor, crashes,
                   aborted, loadLost>>

-----------------------------------------------------------------------------
(* Normal operation of a serving replica (replica.cpp, not in src/): a    *)
(* mutation is prepared at the next or an uncommitted decree with a       *)
(* ballot at least the replica's, written to the shared log and queued    *)
(* for the private log; the next prepared decree is committed into the    *)
(* app; the app flushes its state to disk.                                *)
MaxPrepared == IF \E d \in Decrees : prepared[d] /= 0
               THEN CHOOSE d \in Decrees : prepared[d] /= 0 /\
                        \A e \in Decrees : prepared[e] /= 0 => e <= d
               ELSE lc

WriteMutation(d, b) ==
    /\ phase = "active"
    /\ d > lc /\ d <= MaxPrepared + 1
    /\ b >= ballot /\ b > prepared[d]
    /\ prepared' = [prepared EXCEPT ![d] = b]
    /\ ballot' = b
    /\ sharedLog' = Append(sharedLog, [d |-> d, b |-> b])
    /\ pendingPriv' = Append(pendingPriv, [d |-> d, b |-> b])
    /\ UNCHANGED <<phase, dirExists, privLog, floorS, floorP, appC, appD,
                   appOpen, timer, lc, cursor, crashes, aborted, loadLost>>

Commit ==
    /\ phase = "active"
    /\ lc + 1 \in Decrees
    /\ prepared[lc + 1] /= 0
    /\ lc' = lc + 1
    /\ appC' = appC + 1
    /\ UNCHANGED <<phase, dirExists, sharedLog, privLog, pendingPriv, floorS,
                   floorP, appD, appOpen, timer, prepared, ballot, cursor,
                   crashes, aborted, loadLost>>

Flush ==
    /\ phase = "active"
    /\ appD < appC
    /\ appD' = appC
    /\ UNCHANGED <<phase, dirExists, sharedLog, privLog, pendingPriv, floorS,
                   floorP, appC, appOpen, timer, lc, prepared, ballot, cursor,
                   crashes, aborted, loadLost>>

(* Completion of the oldest private-log append.  On an error the callback *)
(* of replay_mutation calls handle_local_failure, which takes the replica *)
(* out of service.                                                        *)
PrivateAppendCompleted ==
    /\ phase = "active"
    /\ pendingPriv /= <<>>
    /\ pendingPriv' = Tail(pendingPriv)
    /\ \/ /\ privLog' = Append(privLog, Head(pendingPriv))
          /\ UNCHANGED phase
       \/ /\ phase' = "inactive"
          /\ UNCHANGED privLog
    /\ UNCHANGED <<dirExists, sharedLog, floorS, floorP, appC, appD, appOpen,
                   timer, lc, prepared, ballot, cursor, crashes, aborted,
                   loadLost>>

(* The process dies: memory is lost, the app reopens at its durable       *)
(* decree, and a prefix of the queued private-log appends reached disk.   *)
Crash ==
    /\ phase \notin {"down", "none"}
    /\ crashes < MaxCrashes
    /\ crashes' = crashes + 1
    /\ \E k \in 0..Len(pendingPriv) :
          privLog' = privLog \o SubSeq(pendingPriv, 1, k)
    /\ pendingPriv' = <<>>
    /\ phase' = IF dirExists THEN "down" ELSE "none"
    /\ appC' = appD
    /\ appOpen' = FALSE
    /\ timer' = FALSE
    /\ lc' = 0
    /\ prepared' = NoneDecree
    /\ ballot' = 0
    /\ cursor' = 1
    /\ UNCHANGED <<dirExists, sharedLog, floorS, floorP, appD, aborted,
                   loadLost>>

Next ==
    \/ InitializeOnNew
    \/ InitializeOnLoad
    \/ ReplayPrivate
    \/ PrivateLogOpened
    \/ ReplayShared
    \/ ResetPrepareListAfterReplay
    \/ \E d \in Decrees, b \in Ballots : WriteMutation(d, b)
    \/ Commit
    \/ Flush
    \/ PrivateAppendCompleted
    \/ Crash

Spec == Init /\ [][Next]_vars

-----------------------------------------------------------------------------
TypeOK ==
    /\ phase \in Phases
    /\ {dirExists, appOpen, timer, aborted, loadLost} \subseteq BOOLEAN
    /\ sharedLog \in Seq(Recs) /\ privLog \in Seq(Recs)
    /\ pendingPriv \in Seq(Recs)
    /\ floorS \in Nat /\ floorP \in Nat
    /\ appD <= appC /\ appC \in {0} \cup Decrees
    /\ lc \in {0} \cup Decrees
    /\ prepared \in [Decrees -> {0} \cup Ballots]
    /\ ballot \in {0} \cup Ballots
    /\ cursor \in Nat \ {0} /\ crashes \in 0..MaxCrashes

\* The records replay accepts: those at or above their log's floor, and
\* the appends still on their way to the private log.
ValidRecs ==
    {sharedLog[i] : i \in {j \in DOMAIN sharedLog : j - 1 >= floorS}}
    \cup {privLog[i] : i \in {j \in DOMAIN privLog : j - 1 >= floorP}}
    \cup ToSet(pendingPriv)

LoggedBallot(d) ==
    LET bs == {r.b : r \in {x \in ValidRecs : x.d = d}}
    IN IF bs = {} THEN 0 ELSE CHOOSE b \in bs : \A c \in bs : c <= b

(* Whatever the order in which the private and the shared log present     *)
(* their records, and however often the process crashed and replayed      *)
(* them, a serving replica's prepare list holds, for every uncommitted    *)
(* decree, the mutation with the highest ballot its logs hold above their *)
(* floors: replay_mutation's floor, outdated-decree and stale-ballot      *)
(* checks lose no accepted mutation and resurrect no stale one.           *)
PrepareListMatchesLogs ==
    phase = "active" =>
        \A d \in Decrees : d > lc => prepared[d] = LoggedBallot(d)

(* Every mutation a serving replica holds uncommitted is in its private   *)
(* log or on its way there: replaying the shared log backfills what a     *)
(* crash kept out of the private log.                                     *)
PrivateLogComplete ==
    phase = "active" =>
        \A d \in Decrees :
            d > lc /\ prepared[d] /= 0 =>
                [d |-> d, b |-> prepared[d]] \in ToSet(privLog) \cup ToSet(pendingPriv)

(* initialize_on_new never kills the process: every failure of directory *)
(* or app setup is returned to newr, which returns nullptr.               *)
NewNeverAborts == ~aborted

(* A replica directory that survives a crash is loaded again: a reload    *)
(* whose app opens never ends with load returning nullptr.                *)
ReloadKeepsReplica == ~loadLost
=============================================================================
