---------------------------- MODULE MCThrottle ----------------------------
(* Model checking of Throttle.                                             *)
EXTENDS Throttle, TLC

=============================================================================
