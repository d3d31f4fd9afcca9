---------------------------- MODULE MCDuplicates ----------------------------
(* Instances of Duplicates for TLC.                                          *)
EXTENDS Duplicates, TLC

MCSymmetry == Permutations(Users) \cup Permutations(Orgs) \cup Permutations(Runners)
=============================================================================
