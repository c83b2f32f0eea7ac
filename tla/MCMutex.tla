------------------------------ MODULE MCMutex ------------------------------
(* Model checking of Mutex.                                                *)
EXTENDS Mutex, TLC

CONSTANTS f1, f2, f3, f4, f5, r1, r2

\* The third flow has a reactor of its own.
TwoReactors == [f \in Flow |-> IF f = f3 THEN r2 ELSE r1]

\* The flows of the first reactor are interchangeable.
Alike == Permutations({f1, f2, f4, f5})

=============================================================================
