--------------------------- MODULE MCChannelSetup ---------------------------
(* Instances of ChannelSetup for TLC.                                        *)
EXTENDS ChannelSetup
=============================================================================
