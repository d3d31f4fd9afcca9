---------------------------- MODULE MCMonitoring ----------------------------
(* Instances of Monitoring for TLC.                                          *)
EXTENDS Monitoring, TLC

\* A period of one tick without grace.
MCPeriod == {[cron |-> FALSE, every |-> 1, grace |-> 0]}

\* The same, and a cron schedule firing every second tick.
MCCadences == MCPeriod \cup {[cron |-> TRUE, every |-> 2, grace |-> 0]}
=============================================================================
