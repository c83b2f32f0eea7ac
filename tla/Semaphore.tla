----------------------------- MODULE Semaphore -----------------------------
(***************************************************************************)
(* What README.md promises of Mutex: at most Max flows at a time, and a    *)
(* strictly ordered queue of at most QueueMax pending flows.               *)
(***************************************************************************)
EXTENDS Integers, Sequences, FiniteSets

CONSTANTS Flow, Max, QueueMax

VARIABLES holders, waiting

vars == <<holders, waiting>>

Pending == {waiting[i] : i \in DOMAIN waiting}

Init == holders = {} /\ waiting = <<>>

\* Nobody overtakes a pending flow.
Acquire(f) ==
    /\ f \notin holders /\ waiting = <<>> /\ Cardinality(holders) < Max
    /\ holders' = holders \cup {f} /\ UNCHANGED waiting

\* Only a full semaphore makes a flow wait.
Wait(f) ==
    /\ f \notin holders \cup Pending
    /\ Cardinality(holders) = Max /\ Len(waiting) < QueueMax
    /\ waiting' = Append(waiting, f) /\ UNCHANGED holders

Admit ==
    /\ waiting # <<>> /\ Cardinality(holders) < Max
    /\ holders' = holders \cup {Head(waiting)} /\ waiting' = Tail(waiting)

Leave(f) ==
    f \in holders /\ holders' = holders \ {f} /\ UNCHANGED waiting

\* A pending flow failed or was canceled; the others keep their order.
Withdraw(f) ==
    /\ \E i \in DOMAIN waiting :
          /\ waiting[i] = f
          /\ waiting' = [j \in 1 .. Len(waiting) - 1 |->
                            waiting[IF j < i THEN j ELSE j + 1]]
    /\ UNCHANGED holders

Next == Admit \/ \E f \in Flow :
            Acquire(f) \/ Wait(f) \/ Leave(f) \/ Withdraw(f)

Spec == Init /\ [][Next]_vars

\* A flow that can be admitted is not left pending.
FairSpec == Spec /\ WF_vars(Admit)

=============================================================================
