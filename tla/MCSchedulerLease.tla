-------------------------- MODULE MCSchedulerLease --------------------------
(* Instances of SchedulerLease for TLC.                                      *)
EXTENDS SchedulerLease
=============================================================================
