------------------------ MODULE MCReplicaCheckpoint ------------------------
EXTENDS ReplicaCheckpoint
=============================================================================
