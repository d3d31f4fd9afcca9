--------------------------- MODULE MCEntitlements ---------------------------
(* Instances of Entitlements for TLC.                                        *)
EXTENDS Entitlements, TLC

MCUsers == {1, 2}

\* Room for one check in two organizations, or for two checks in one.
MCPlans == {[maxChecks |-> 1, maxOrgs |-> 2], [maxChecks |-> 2, maxOrgs |-> 1]}

MCSymmetry == Permutations(Orgs) \cup Permutations(Checks) \cup Permutations(Requests)
=============================================================================
