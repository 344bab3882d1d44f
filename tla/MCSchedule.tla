---------------------------- MODULE MCSchedule ----------------------------
(* A small instance of Schedule for TLC. *)
EXTENDS Schedule
=============================================================================
