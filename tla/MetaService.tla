---------------------------- MODULE MetaService ----------------------------
(***************************************************************************)
(* The metadata service of src/apps/replication/meta_server/              *)
(* meta_service.cpp: a configuration-update pipeline that appends every    *)
(* update to an operation log ("oplog") and applies it to the in-memory    *)
(* cluster state (server_state) only when the asynchronous file write      *)
(* completes, plus the start-up path that loads the checkpoint, replays    *)
(* the oplog, saves a new checkpoint and removes the oplog.                *)
(*                                                                         *)
(* The process may crash at any step; an in-flight write then either has   *)
(* reached the file or not.  Byte offsets are abstracted to record slots:  *)
(* the record reserved at _offset = k occupies slot k+1 of the file, and a *)
(* slot that was never written reads as zeroes (a zero length prefix).     *)
(***************************************************************************)
EXTENDS Naturals, Sequences, FiniteSets, SequencesExt

CONSTANTS
    Gpids,        \* partitions whose configuration the service keeps
    Ballots,      \* ballots a configuration update may carry (positive)
    Cfgs,         \* abstract partition configurations (primary, secondaries)
    NoCfg,        \* the configuration of a partition nobody configured yet
    Zero,         \* a file slot that was never written: reads as len = 0
    MaxWrites,    \* bound on oplog appends in one behaviour
    MaxCrashes,   \* bound on process crashes in one behaviour
    Self          \* this meta server's address, primary_address()

\* A configuration_update_request, reduced to what server_state looks at.
Reqs == [gpid : Gpids, ballot : Ballots, cfg : Cfgs]

PartitionConfig == [ballot : {0} \cup Ballots, cfg : Cfgs \cup {NoCfg}]

\* An outstanding file::write of one oplog record; resp says whether a
\* client RPC waits for the reply (on_update_configuration) or not
\* (update_configuration issued by the load balancer).
Writes == [off : Nat, req : Reqs, resp : BOOLEAN]

(* start() sets the failure detector's primary to primary_address(),    *)
(* this server's own address ("TODO: use zookeeper for leader election"), *)
(* so _failure_detector->is_primary() holds on every meta server.         *)
DetectorPrimary == Self

IsPrimary == DetectorPrimary = Self

VARIABLES
    proc,          \* "up" or "down": the meta server process
    started,       \* _started
    fdAlive,       \* _failure_detector and _balancer are allocated
    lbStartQueued, \* the LPC_LBM_START task is enqueued
    timerArmed,    \* _balancer_timer is non-null (periodic LPC_LBM_RUN)
    freezed,       \* _state->freezed()
    state,         \* in-memory server_state: gpid -> partition config
    ckpt,          \* contents of <data_dir>/checkpoint (initial if absent)
    oplog,         \* contents of <data_dir>/oplog, one entry per record slot
    offset,        \* _offset: next record slot to reserve
    inflight,      \* writes issued and not yet on disk
    completed,     \* writes on disk whose on_log_completed has not run
    cfgChanged,    \* gpid -> number of queued on_config_changed tasks
    acked,         \* requests a client received the reply of
    writes,        \* appends issued so far (bounded by MaxWrites)
    crashes,       \* crashes so far (bounded by MaxCrashes)
    nullDeref,     \* a task dereferenced the deleted failure detector
    fatalReplay    \* a start-up replay_log hit dassert(r == 1)

vars == <<proc, started, fdAlive, lbStartQueued, timerArmed, freezed, state,
          ckpt, oplog, offset, inflight, completed, cfgChanged, acked,
          writes, crashes, nullDeref, fatalReplay>>

-----------------------------------------------------------------------------
(* server_state (not in src/): an update is applied when it carries a     *)
(* newer ballot than the partition's current one and ignored otherwise.   *)

EmptyState == [g \in Gpids |-> [ballot |-> 0, cfg |-> NoCfg]]

UpdateState(st, r) ==
    IF r.ballot > st[r.gpid].ballot
    THEN [st EXCEPT ![r.gpid] = [ballot |-> r.ballot, cfg |-> r.cfg]]
    ELSE st

(* The file after a write of record r lands at slot off+1: a write past   *)
(* the end of file extends it, leaving unwritten slots as zeroes.         *)
Place(log, off, r) ==
    [i \in 1..IF Len(log) > off THEN Len(log) ELSE off + 1 |->
        IF i = off + 1 THEN r ELSE IF i <= Len(log) THEN log[i] ELSE Zero]

(* replay_log: reads (len, payload) pairs until end of file and applies   *)
(* each to server_state; a zero slot gives len = 0, so fread of the       *)
(* payload returns 0 and dassert(r == 1, "log is corrupted") fires.       *)
LogCorrupt(log) == \E i \in DOMAIN log : log[i] = Zero

ReplayLog(st, log) == FoldLeft(UpdateState, st, log)

(* The state a restart would now rebuild from the files. *)
Recovered == ReplayLog(ckpt, oplog)

-----------------------------------------------------------------------------
Init ==
    /\ proc = "down"
    /\ started = FALSE
    /\ fdAlive = FALSE
    /\ lbStartQueued = FALSE
    /\ timerArmed = FALSE
    /\ freezed = FALSE
    /\ state = EmptyState
    /\ ckpt = EmptyState
    /\ oplog = <<>>
    /\ offset = 0
    /\ inflight = {}
    /\ completed = {}
    /\ cfgChanged = [g \in Gpids |-> 0]
    /\ acked = {}
    /\ writes = 0
    /\ crashes = 0
    /\ nullDeref = FALSE
    /\ fatalReplay = FALSE

(* Mutant: the service serves the loaded checkpoint, not the replayed state. *)
MutStarted(st) ==
    /\ proc' = "up"
    /\ state' = ckpt
    /\ offset' = 0
    /\ fdAlive' = TRUE
    /\ lbStartQueued' = TRUE
    /\ UNCHANGED <<started, timerArmed, freezed, inflight, completed,
                   cfgChanged, writes, crashes, nullDeref>>

(* The process state a successful start() leaves behind: a fresh log,     *)
(* _offset = 0, the failure detector and balancer allocated, and          *)
(* on_load_balance_start enqueued; _started stays false until it runs.    *)
Started(st) ==
    /\ proc' = "up"
    /\ state' = st
    /\ offset' = 0
    /\ fdAlive' = TRUE
    /\ lbStartQueued' = TRUE
    /\ UNCHANGED <<started, timerArmed, freezed, inflight, completed,
                   cfgChanged, writes, crashes, nullDeref>>

(* start(data_dir, clean_state).  With clean_state the checkpoint and the *)
(* oplog are removed.  Otherwise the checkpoint is loaded, the oplog is   *)
(* replayed, the result saved as the checkpoint and the oplog removed;    *)
(* the process may die between the save and remove_path, and replay_log  *)
(* kills it on a corrupted record.                                        *)
StartClean ==
    /\ ckpt' = EmptyState
    /\ oplog' = <<>>
    /\ acked' = {}
    /\ fatalReplay' = fatalReplay
    /\ Started(EmptyState)

(* Mutant: the oplog is removed without saving the replayed checkpoint. *)
MutStartReplay ==
    /\ ~LogCorrupt(oplog)
    /\ ckpt' = ckpt
    /\ oplog' = <<>>
    /\ UNCHANGED <<acked, fatalReplay>>
    /\ Started(ReplayLog(ckpt, oplog))

StartReplay ==
    /\ ~LogCorrupt(oplog)
    /\ ckpt' = ReplayLog(ckpt, oplog)
    /\ oplog' = <<>>
    /\ UNCHANGED <<acked, fatalReplay>>
    /\ Started(ReplayLog(ckpt, oplog))

StartCrashAfterSave ==
    /\ ~LogCorrupt(oplog)
    /\ oplog /= <<>>
    /\ crashes < MaxCrashes
    /\ ckpt' = ReplayLog(ckpt, oplog)
    /\ crashes' = crashes + 1
    /\ UNCHANGED <<proc, started, fdAlive, lbStartQueued, timerArmed, freezed,
                   state, oplog, offset, inflight, completed, cfgChanged,
                   acked, writes, nullDeref, fatalReplay>>

StartFatal ==
    /\ LogCorrupt(oplog)
    /\ ~fatalReplay
    /\ fatalReplay' = TRUE
    /\ UNCHANGED <<proc, started, fdAlive, lbStartQueued, timerArmed, freezed,
                   state, ckpt, oplog, offset, inflight, completed,
                   cfgChanged, acked, writes, crashes, nullDeref>>

Start ==
    /\ proc = "down"
    /\ \/ StartClean
       \/ StartReplay
       \/ StartCrashAfterSave
       \/ StartFatal

(* on_load_balance_start: arms the periodic balancer timer and sets       *)
(* _started; dassert(_balancer_timer == nullptr) holds on a fresh start.  *)
OnLoadBalanceStart ==
    /\ proc = "up"
    /\ lbStartQueued
    /\ lbStartQueued' = FALSE
    /\ timerArmed' = TRUE
    /\ started' = TRUE
    /\ UNCHANGED <<proc, fdAlive, freezed, state, ckpt, oplog, offset,
                   inflight, completed, cfgChanged, acked, writes, crashes,
                   nullDeref, fatalReplay>>

(* Mutant: the reservation adds the length prefix twice to _offset. *)
MutAppendRecord(r, resp) ==
    /\ writes < MaxWrites
    /\ inflight' = inflight \cup {[off |-> offset, req |-> r, resp |-> resp]}
    /\ offset' = offset + 2
    /\ writes' = writes + 1

(* Reserve the next record slot under _log_lock and issue the write; the  *)
(* shared tail of on_update_configuration and update_configuration.       *)
AppendRecord(r, resp) ==
    /\ writes < MaxWrites
    /\ inflight' = inflight \cup {[off |-> offset, req |-> r, resp |-> resp]}
    /\ offset' = offset + 1
    /\ writes' = writes + 1

(* The process dies: memory and queued tasks are lost; each in-flight     *)
(* write has either reached the file or not.                              *)
Die ==
    /\ \E landed \in SUBSET inflight :
          oplog' = FoldSet(LAMBDA w, log : Place(log, w.off, w.req),
                           oplog, landed)
    /\ proc' = "down"
    /\ started' = FALSE
    /\ fdAlive' = FALSE
    /\ lbStartQueued' = FALSE
    /\ timerArmed' = FALSE
    /\ inflight' = {}
    /\ completed' = {}
    /\ cfgChanged' = [g \in Gpids |-> 0]
    /\ state' = EmptyState

(* Mutant: the reply is sent as soon as the write is issued. *)
MutOnUpdateConfiguration(r) ==
    /\ proc = "up"
    /\ started
    /\ ~freezed
    /\ IsPrimary
    /\ AppendRecord(r, TRUE)
    /\ acked' = acked \cup {r}
    /\ UNCHANGED <<proc, started, fdAlive, lbStartQueued, timerArmed, freezed,
                   state, ckpt, oplog, completed, cfgChanged, crashes,
                   nullDeref, fatalReplay>>

(* Mutant: server_state is updated when the write is issued, before the  *)
(* record is on disk.                                                     *)
MutApplyBeforeLog(r) ==
    /\ proc = "up"
    /\ started
    /\ ~freezed
    /\ IsPrimary
    /\ AppendRecord(r, TRUE)
    /\ state' = UpdateState(state, r)
    /\ UNCHANGED <<proc, started, fdAlive, lbStartQueued, timerArmed, freezed,
                   ckpt, oplog, completed, cfgChanged, acked, crashes,
                   nullDeref, fatalReplay>>

(* on_update_configuration: not started -> ERR_SERVICE_NOT_ACTIVE; not    *)
(* primary -> forwarded (never here: start() makes this node primary);    *)
(* freezed -> ERR_STATE_FREEZED with the current config; otherwise the    *)
(* request is appended to the oplog and answered from on_log_completed.   *)
OnUpdateConfiguration(r) ==
    /\ proc = "up"
    /\ started
    /\ ~freezed
    /\ IsPrimary
    /\ AppendRecord(r, TRUE)
    /\ UNCHANGED <<proc, started, fdAlive, lbStartQueued, timerArmed, freezed,
                   state, ckpt, oplog, completed, cfgChanged, acked, crashes,
                   nullDeref, fatalReplay>>

(* The load balancer's proposals go through update_configuration(update) *)
(* (log, then apply, no reply); which proposal it makes is not modelled.  *)
BalancerRun(gs) ==
    \/ UNCHANGED <<inflight, offset, writes>>
    \/ \E r \in Reqs : r.gpid \in gs /\ AppendRecord(r, FALSE)

(* on_load_balance_timer: returns when freezed, else runs the balancer if *)
(* _failure_detector->is_primary(); after stop() the detector is deleted  *)
(* but the timer still fires, and the call kills the process.             *)
OnLoadBalanceTimer ==
    /\ proc = "up"
    /\ timerArmed
    /\ ~freezed
    /\ \/ /\ fdAlive
          /\ IsPrimary
          /\ BalancerRun(Gpids)
          /\ UNCHANGED <<proc, started, fdAlive, lbStartQueued, timerArmed,
                         state, oplog, completed, cfgChanged, nullDeref>>
       \/ /\ ~fdAlive
          /\ nullDeref' = TRUE
          /\ Die
          /\ UNCHANGED <<offset, writes>>
    /\ UNCHANGED <<freezed, ckpt, acked, crashes, fatalReplay>>

(* on_config_changed(gpid): runs the balancer for one partition when     *)
(* primary; it does not look at freezed, and it too uses the detector.    *)
OnConfigChanged(g) ==
    /\ proc = "up"
    /\ cfgChanged[g] > 0
    /\ \/ /\ fdAlive
          /\ IsPrimary
          /\ cfgChanged' = [cfgChanged EXCEPT ![g] = @ - 1]
          /\ BalancerRun({g})
          /\ UNCHANGED <<proc, started, fdAlive, lbStartQueued, timerArmed,
                         state, oplog, completed, nullDeref>>
       \/ /\ ~fdAlive
          /\ nullDeref' = TRUE
          /\ Die
          /\ UNCHANGED <<offset, writes>>
    /\ UNCHANGED <<freezed, ckpt, acked, crashes, fatalReplay>>

(* The aio of file::write reaches the file at the offset reserved for it; *)
(* completions need not follow submission order.                          *)
WriteLands(w) ==
    /\ proc = "up"
    /\ w \in inflight
    /\ oplog' = Place(oplog, w.off, w.req)
    /\ inflight' = inflight \ {w}
    /\ completed' = completed \cup {w}
    /\ UNCHANGED <<proc, started, fdAlive, lbStartQueued, timerArmed, freezed,
                   state, ckpt, offset, cfgChanged, acked, writes, crashes,
                   nullDeref, fatalReplay>>

(* Mutant: the reply to the client is dropped. *)
MutOnLogCompleted(w) ==
    /\ proc = "up"
    /\ w \in completed
    /\ completed' = completed \ {w}
    /\ state' = UpdateState(state, w.req)
    /\ cfgChanged' = IF started
                     THEN [cfgChanged EXCEPT ![w.req.gpid] = @ + 1]
                     ELSE cfgChanged
    /\ UNCHANGED <<proc, started, fdAlive, lbStartQueued, timerArmed, freezed,
                   ckpt, oplog, offset, inflight, acked, writes, crashes,
                   nullDeref, fatalReplay>>

(* on_log_completed: applies the update to server_state through           *)
(* update_configuration(request, response), which enqueues                *)
(* on_config_changed when _started, then replies if an RPC waits.         *)
OnLogCompleted(w) ==
    /\ proc = "up"
    /\ w \in completed
    /\ completed' = completed \ {w}
    /\ state' = UpdateState(state, w.req)
    /\ cfgChanged' = IF started
                     THEN [cfgChanged EXCEPT ![w.req.gpid] = @ + 1]
                     ELSE cfgChanged
    /\ acked' = IF w.resp THEN acked \cup {w.req} ELSE acked
    /\ UNCHANGED <<proc, started, fdAlive, lbStartQueued, timerArmed, freezed,
                   ckpt, oplog, offset, inflight, writes, crashes, nullDeref,
                   fatalReplay>>

(* stop(): returns false unless _started and _balancer_timer is set; then *)
(* deletes the failure detector and the balancer.  The timer is cancelled *)
(* only under "if (_balancer_timer == nullptr)", so it never is.          *)
Stop ==
    /\ proc = "up"
    /\ started
    /\ timerArmed
    /\ started' = FALSE
    /\ fdAlive' = FALSE
    /\ UNCHANGED <<proc, lbStartQueued, timerArmed, freezed, state, ckpt,
                   oplog, offset, inflight, completed, cfgChanged, acked,
                   writes, crashes, nullDeref, fatalReplay>>

(* on_query_configuration_by_node / _by_index: ERR_SERVICE_NOT_ACTIVE    *)
(* unless _started; the forwarding branch is never taken (start() makes   *)
(* this node primary); otherwise the partition's config from server_state. *)
QueryConfiguration(g) ==
    IF started THEN [err |-> "ERR_OK", config |-> state[g]]
    ELSE [err |-> "ERR_SERVICE_NOT_ACTIVE", config |-> EmptyState[g]]

(* A crash at an arbitrary point of the running service. *)
Crash ==
    /\ proc = "up"
    /\ crashes < MaxCrashes
    /\ crashes' = crashes + 1
    /\ Die
    /\ UNCHANGED <<freezed, ckpt, offset, acked, writes, nullDeref,
                   fatalReplay>>

(* server_state freezes and unfreezes configuration changes as it learns  *)
(* node liveness from the failure detector (not in src/).                 *)
SetFreezed ==
    /\ proc = "up"
    /\ freezed' = ~freezed
    /\ UNCHANGED <<proc, started, fdAlive, lbStartQueued, timerArmed, state,
                   ckpt, oplog, offset, inflight, completed, cfgChanged,
                   acked, writes, crashes, nullDeref, fatalReplay>>

Next ==
    \/ Start
    \/ OnLoadBalanceStart
    \/ \E r \in Reqs : OnUpdateConfiguration(r)
    \/ OnLoadBalanceTimer
    \/ \E g \in Gpids : OnConfigChanged(g)
    \/ \E w \in inflight : WriteLands(w)
    \/ \E w \in completed : OnLogCompleted(w)
    \/ Stop
    \/ Crash
    \/ SetFreezed

(* The aio provider completes every issued write, and the task engine     *)
(* runs every enqueued on_log_completed callback.                         *)
Spec == Init /\ [][Next]_vars
        /\ WF_vars(\E w \in inflight : WriteLands(w))
        /\ WF_vars(\E w \in completed : OnLogCompleted(w))

-----------------------------------------------------------------------------
TypeOK ==
    /\ proc \in {"up", "down"}
    /\ {started, fdAlive, lbStartQueued, timerArmed, freezed} \subseteq BOOLEAN
    /\ state \in [Gpids -> PartitionConfig]
    /\ ckpt \in [Gpids -> PartitionConfig]
    /\ oplog \in Seq(Reqs \cup {Zero})
    /\ offset \in 0..MaxWrites
    /\ inflight \subseteq Writes /\ completed \subseteq Writes
    /\ cfgChanged \in [Gpids -> 0..MaxWrites]
    /\ acked \subseteq Reqs
    /\ writes \in 0..MaxWrites /\ crashes \in 0..MaxCrashes
    /\ {nullDeref, fatalReplay} \subseteq BOOLEAN

(* A reply reaches a client only after its record is durable: every       *)
(* acknowledged update is still in the oplog or folded into the           *)
(* checkpoint, through any crash, including one between the checkpoint    *)
(* save and the oplog removal in start().                                 *)
AckedIsDurable ==
    \A r \in acked :
        \/ \E i \in DOMAIN oplog : oplog[i] = r
        \/ ckpt[r.gpid].ballot >= r.ballot

(* Once every issued write has completed and been applied, the ballots a  *)
(* restart would rebuild from checkpoint and oplog are the ballots the    *)
(* running service holds, although on_log_completed applied the records   *)
(* in completion order and replay_log applies them in file order.         *)
Quiescent ==
    /\ proc = "up"
    /\ inflight = {} /\ completed = {}
    /\ ~LogCorrupt(oplog)

RecoveredBallotsMatch ==
    Quiescent => \A g \in Gpids : Recovered[g].ballot = state[g].ballot

(* The same, for the whole configuration: a restart rebuilds exactly the  *)
(* configuration the service was serving.                                 *)
RecoveredStateMatches ==
    Quiescent => Recovered = state

(* No task uses the failure detector or balancer that stop() deleted.     *)
NoUseAfterStop == ~nullDeref

(* A restart after a crash of the running service never dies in           *)
(* replay_log: the oplog a crash leaves behind is always replayable.      *)
RestartNeverFatal == ~fatalReplay

(* A client that was answered for an update and then queries the service  *)
(* sees that update or a newer one: the configuration that                *)
(* on_query_configuration_by_node/_by_index serve, after any crashes and  *)
(* the restart's checkpoint load and oplog replay, never has an older     *)
(* ballot than an acknowledged update of the same partition.              *)
QueriesSeeAcked ==
    \A r \in acked :
        LET q == QueryConfiguration(r.gpid)
        IN  q.err = "ERR_OK" => q.config.ballot >= r.ballot

(* No configuration change is written to the oplog while server_state is *)
(* freezed: on_update_configuration answers ERR_STATE_FREEZED and         *)
(* on_load_balance_timer returns, so no balancer proposal is logged       *)
(* either, including one from on_config_changed.                          *)
NoAppendWhileFreezed == [][freezed => writes' = writes]_vars

(* Refinement of ConfigLogAbstract.  The durable ballot of a partition is *)
(* the highest one in the checkpoint or in a written oplog record, which  *)
(* is the ballot replay_log rebuilds; the served ballot is server_state's.*)
DurableBallot ==
    [g \in Gpids |->
        LET bs == {ckpt[g].ballot} \cup
                  {oplog[i].ballot : i \in {j \in DOMAIN oplog :
                       oplog[j] /= Zero /\ oplog[j].gpid = g}}
        IN  CHOOSE b \in bs : \A c \in bs : c <= b]

Log == INSTANCE ConfigLogAbstract WITH
    up <- proc = "up",
    pending <- inflight,
    done <- completed,
    dur <- DurableBallot,
    served <- [g \in Gpids |-> state[g].ballot],
    Updates <- [off : 0..MaxWrites, req : Reqs, resp : BOOLEAN]

(* The oplog keeps the promise ConfigLogAbstract states: an update is     *)
(* applied to server_state only after its record is on disk and answered  *)
(* only after it is applied, the served ballot never passes the durable   *)
(* one and never falls while the service runs, a crash keeps exactly the  *)
(* writes that landed, and start() serves exactly what it recovered.      *)
ConfigLogRefinement == Log!Spec

(* Every client whose update was accepted into the oplog is eventually    *)
(* answered: on_update_configuration never replies itself, so the reply   *)
(* must come from on_log_completed once the write completes, in whatever  *)
(* order the writes complete; only the process going down releases it.   *)
UpdatesAnswered ==
    \A r \in Reqs :
        (\E w \in inflight \cup completed : w.req = r /\ w.resp)
            ~> (r \in acked \/ proc = "down")
=============================================================================
