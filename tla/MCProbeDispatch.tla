--------------------------- MODULE MCProbeDispatch ---------------------------
(* Instances of ProbeDispatch for TLC.                                       *)
EXTENDS ProbeDispatch, TLC

\* Checks, schedulers and workers are interchangeable; used where no liveness
\* is checked.
MCSymmetry == Permutations(Checks) \cup Permutations(Schedulers) \cup Permutations(Workers)
=============================================================================
