---------------------------- MODULE MCIoLooper ----------------------------
(* Three workers, so when stop() closes the port one can be blocked in   *)
(* it, one running a callback and one between two waits.                 *)
EXTENDS IoLooper

CONSTANTS w1, w2, w3

MCWorkers == {w1, w2, w3}
=============================================================================
