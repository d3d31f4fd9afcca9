--------------------------- MODULE MCMemberships ---------------------------
(* Instances of Memberships for TLC.                                         *)
EXTENDS Memberships, TLC

MCSymmetry == Permutations(Users) \cup Permutations(Orgs) \cup Permutations(Calls)
=============================================================================
