----------------------------- MODULE MCCheckout -----------------------------
(* Instances of CheckoutOperations for TLC.                                  *)
EXTENDS CheckoutOperations, TLC

MCAttempts == 1 .. 4

MCSymmetry == Permutations(Requests) \cup Permutations(Offers) \cup Permutations(Operations)
=============================================================================
