--------------------------- MODULE MCMetaCluster ---------------------------
(* Two meta servers, one partition, one ballot and two configurations,   *)
(* one append per server and no crashes: the least that lets two servers *)
(* accept conflicting updates.                                            *)
EXTENDS MetaCluster

CONSTANTS g1, c1, c2

MCGpids == {g1}
MCBallots == {1}
MCCfgs == {c1, c2}
=============================================================================
