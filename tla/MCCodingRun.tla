---------------------------- MODULE MCCodingRun ----------------------------
(* A run, two sockets (one replacement or reconnect) and two cancel requests: *)
(* safety, liveness, the ledger and the events of the run.                    *)
EXTENDS RunStream
=============================================================================
