--------------------------- MODULE MCMetaService ---------------------------
(* Model-checking instance of MetaService: one partition, two ballots and *)
(* two configurations, so two updates of the same partition can carry the *)
(* same ballot with different configurations and race in the oplog.       *)
EXTENDS MetaService, TLC

CONSTANTS g1, c1, c2

MCGpids == {g1}
MCBallots == {1, 2}
MCCfgs == {c1, c2}

\* The configurations are interchangeable in every property checked.
MCSymmetry == Permutations(MCCfgs)
=============================================================================
