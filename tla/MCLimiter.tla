----------------------------- MODULE MCLimiter ------------------------------
(* Instances of the rate limiter for TLC. *)
EXTENDS Limiter, TLC

\* The instance is one the refinement theorem speaks of.
ASSUME MCRefills == RefillsWhileIdle

ClientSymmetry == Permutations(Key) \cup Permutations(Caller)
=============================================================================
