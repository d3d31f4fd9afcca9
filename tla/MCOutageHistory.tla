--------------------------- MODULE MCOutageHistory ---------------------------
(* Instances of OutageHistory for TLC.                                       *)
EXTENDS OutageHistory

MCNoEvent == -1
=============================================================================
