---------------------------- MODULE MetaCluster ----------------------------
(***************************************************************************)
(* Two meta servers, each a MetaService with its own process, state and   *)
(* oplog, serving the same partitions.  A client sends a configuration    *)
(* update to either server; a server that is not primary would forward    *)
(* it.  Each server's start() makes its failure detector name itself      *)
(* primary, so both accept updates.                                       *)
(***************************************************************************)
CONSTANTS Gpids, Ballots, Cfgs, NoCfg, Zero, MaxWrites, MaxCrashes,
          NodeA, NodeB   \* the two meta servers' addresses

VARIABLES
    procA, startedA, fdAliveA, lbStartQueuedA, timerArmedA, freezedA, stateA,
    ckptA, oplogA, offsetA, inflightA, completedA, cfgChangedA, ackedA,
    writesA, crashesA, nullDerefA, fatalReplayA,
    procB, startedB, fdAliveB, lbStartQueuedB, timerArmedB, freezedB, stateB,
    ckptB, oplogB, offsetB, inflightB, completedB, cfgChangedB, ackedB,
    writesB, crashesB, nullDerefB, fatalReplayB

A == INSTANCE MetaService WITH Self <- NodeA,
    proc <- procA, started <- startedA, fdAlive <- fdAliveA,
    lbStartQueued <- lbStartQueuedA, timerArmed <- timerArmedA,
    freezed <- freezedA, state <- stateA, ckpt <- ckptA, oplog <- oplogA,
    offset <- offsetA, inflight <- inflightA, completed <- completedA,
    cfgChanged <- cfgChangedA, acked <- ackedA, writes <- writesA,
    crashes <- crashesA, nullDeref <- nullDerefA, fatalReplay <- fatalReplayA

B == INSTANCE MetaService WITH Self <- NodeB,
    proc <- procB, started <- startedB, fdAlive <- fdAliveB,
    lbStartQueued <- lbStartQueuedB, timerArmed <- timerArmedB,
    freezed <- freezedB, state <- stateB, ckpt <- ckptB, oplog <- oplogB,
    offset <- offsetB, inflight <- inflightB, completed <- completedB,
    cfgChanged <- cfgChangedB, acked <- ackedB, writes <- writesB,
    crashes <- crashesB, nullDeref <- nullDerefB, fatalReplay <- fatalReplayB

varsA == <<procA, startedA, fdAliveA, lbStartQueuedA, timerArmedA, freezedA,
          stateA, ckptA, oplogA, offsetA, inflightA, completedA, cfgChangedA,
          ackedA, writesA, crashesA, nullDerefA, fatalReplayA>>
varsB == <<procB, startedB, fdAliveB, lbStartQueuedB, timerArmedB, freezedB,
          stateB, ckptB, oplogB, offsetB, inflightB, completedB, cfgChangedB,
          ackedB, writesB, crashesB, nullDerefB, fatalReplayB>>

(* The servers step independently: each step is one server's handler. *)
Init == A!Init /\ B!Init

Next == \/ A!Next /\ UNCHANGED varsB
        \/ B!Next /\ UNCHANGED varsA

Spec == Init /\ [][Next]_<<varsA, varsB>>

(* The meta servers never disagree on a partition's configuration: two    *)
(* servers holding the same ballot of a partition hold the same           *)
(* configuration, as they must if every update is funnelled through one   *)
(* elected primary and the others only forward.                           *)
ConfigAgreement ==
    \A g \in Gpids :
        stateA[g].ballot = stateB[g].ballot => stateA[g].cfg = stateB[g].cfg
=============================================================================
