---------------------------- MODULE MCAsyncSteps ----------------------------
(* Model checking of AsyncSteps.                                            *)
EXTENDS AsyncSteps, TLC

\* Memory of steps and of timers is interchangeable.
Symmetry == Permutations(Step) \cup Permutations(Timer)

=============================================================================
