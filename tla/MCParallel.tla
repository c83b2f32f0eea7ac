----------------------------- MODULE MCParallel -----------------------------
(* Parallel for TLC: the items of a parallel step are interchangeable; the   *)
(* set of their codes is fixed.                                              *)
EXTENDS Parallel

MCCodes == {"Error", "Other"}

=============================================================================
