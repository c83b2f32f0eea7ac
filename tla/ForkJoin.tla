------------------------------ MODULE ForkJoin ------------------------------
(***************************************************************************)
(* What parallel() promises, whatever the engine: the branches run until   *)
(* all are done, or until one fails or the flow is canceled, and then none *)
(* does anything any more.                                                 *)
(***************************************************************************)
CONSTANTS Item, Code

VARIABLES
    working,    \* branches that may still do something
    result      \* "none", "running", "success", "canceled" or an error code

vars == <<working, result>>

Init == working = {} /\ result = "none"

Fork(S) == result # "running" /\ working = {}
           /\ working' = S /\ result' = "running"

Done(i) == i \in working /\ working' = working \ {i} /\ UNCHANGED result

\* Success is for branches that are all done.
Join == result = "running" /\ working = {}
        /\ result' = "success" /\ UNCHANGED working

\* The code is that of a branch which was still working.
Fail(code) == result = "running" /\ working # {}
              /\ working' = {} /\ result' = code

Cancel == working' = {} /\ result' = "canceled"

Next == \/ \E S \in SUBSET Item : Fork(S)
        \/ \E i \in Item : Done(i)
        \/ Join
        \/ \E code \in Code : Fail(code)
        \/ Cancel

Spec == Init /\ [][Next]_vars

=============================================================================
