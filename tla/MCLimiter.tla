----------------------------- MODULE MCLimiter -----------------------------
(* Model checking of Limiter.                                              *)
EXTENDS Limiter

CONSTANTS r1

OneReactor == [f \in Flow |-> r1]

=============================================================================
