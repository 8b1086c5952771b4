--------------------------- MODULE MCReplicaInit ---------------------------
(* Model-checking instance of ReplicaInit: two decrees and two ballots, so *)
(* a decree can be re-prepared under a newer ballot, and one record of an *)
(* earlier incarnation of the partition in the shared log.                *)
EXTENDS ReplicaInit

MCDecrees == 1..2
MCBallots == 1..2
=============================================================================
