-------------------------- MODULE MCDriverLifecycle --------------------------
(* An instance of DriverLifecycle for TLC. *)
EXTENDS DriverLifecycle, FiniteSets, TLC

Symmetry == Permutations(Devices)

\* What follows a failure of a second kind is left to the proofs; failures of one
\* kind may be any number.
OneKindFails == Cardinality(failed) <= 1
=============================================================================
